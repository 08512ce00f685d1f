------------------------------- MODULE MCCtl -------------------------------
EXTENDS RbtCtl

(* Command lines: each option alone or with others, the ones that exclude  *)
(* each other included.                                                    *)
MCCommands ==
  {{"wrap_on"}, {"close"}, {"open", "close"}, {"wrap_off", "set"}, {"zap_on", "open"},
   {"zap_off", "size", "clear"}}

=============================================================================

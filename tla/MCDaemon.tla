------------------------------ MODULE MCDaemon ------------------------------
EXTENDS Rbtraced, TLC

Symmetry == Permutations(Daemons)

=============================================================================

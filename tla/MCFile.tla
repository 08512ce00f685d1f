------------------------------ MODULE MCFile ------------------------------
EXTENDS RbtFile

=============================================================================

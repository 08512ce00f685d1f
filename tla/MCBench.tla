------------------------------ MODULE MCBench ------------------------------
EXTENDS Rbtbench

=============================================================================

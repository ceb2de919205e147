------------------------------ MODULE MCCJson ------------------------------
EXTENDS CJson, TLC

Addresses == Permutations(Items)
=============================================================================

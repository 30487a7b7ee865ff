---------------------------- MODULE MCDownlinks -----------------------------
EXTENDS Downlinks, TLC

Sym == Permutations(Subscribers)
=============================================================================

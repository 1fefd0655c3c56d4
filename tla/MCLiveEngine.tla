---------------------------- MODULE MCLiveEngine ----------------------------
(* LiveEngine for TLC: a model value per runner and per API thread.          *)
EXTENDS LiveEngine, TLC

\* API threads are interchangeable where only an invariant is checked.
Symmetry == Permutations(Callers)
=============================================================================

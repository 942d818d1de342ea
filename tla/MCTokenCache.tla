---------------------------- MODULE MCTokenCache ----------------------------
(* Small instances of TokenCache.                                          *)
EXTENDS TokenCache, TLC

Symmetry == Permutations(Launches) \cup Permutations(Tokens)
=============================================================================

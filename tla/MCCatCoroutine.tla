--------------------------- MODULE MCCatCoroutine ---------------------------
(* Small instances of CatCoroutine for TLC. *)
EXTENDS CatCoroutine, TLC

CONSTANTS c1, c2

\* The coroutines other than the main one are alike.
Symm == Permutations(Coroutine \ {Main})
=============================================================================

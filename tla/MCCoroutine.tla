---------------------------- MODULE MCCoroutine ----------------------------
(***************************************************************************)
(* Instances of Coroutine for TLC.  Two coroutines already give a chain    *)
(* main -> a -> b, a delegation, and both kinds of re-entry (a on itself,  *)
(* b on a); three give a delegate of a delegate.                           *)
(***************************************************************************)
EXTENDS Coroutine, TLC
CONSTANTS a, b, c3, v

OneValue == {v}
NoValue  == {}
TwoCo    == {a, b}
ThreeCo  == {a, b, c3}

\* Coroutines are interchangeable (safety runs only).
CoSymmetry == Permutations(ThreeCo)
=============================================================================

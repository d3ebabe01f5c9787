------------------------------ MODULE MCCoHost ------------------------------
(***************************************************************************)
(* Instances of CoHost for TLC: three coroutines, two frames each.         *)
(***************************************************************************)
EXTENDS CoHost, TLC
CONSTANTS a, b, c

ThreeCo == {a, b, c}
CoSymmetry == Permutations(ThreeCo)
=============================================================================

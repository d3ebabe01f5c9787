------------------------------ MODULE MCCaches ------------------------------
(***************************************************************************)
(* Two programs, one that does not parse; a script, an import of it as a   *)
(* module and a run of its image, at once and again and again; the file is *)
(* written up to twice.                                                    *)
(***************************************************************************)
EXTENDS Caches, TLC
CONSTANTS s, m, v, a, b, broken
MCTexts == {a, b, broken}
MCBroken == {broken}
MCSymmetry == Permutations({a, b})
MCMode == (s :> "script" @@ m :> "module" @@ v :> "image")
=============================================================================

----------------------------- MODULE MCLinking -----------------------------
(***************************************************************************)
(* Two modules that share a value of y, disagree about x, and define one   *)
(* message each under one name; n also has a variable p of a builtin's     *)
(* name.  Every program of up to three different statements.               *)
(***************************************************************************)
EXTENDS Linking

MCModules == [m |-> [vars |-> [x |-> "1", y |-> "2"], messages |-> [h |-> Method("m", "h")]],
              n |-> [vars |-> [x |-> "3", y |-> "2", p |-> "4"], messages |-> [h |-> Method("n", "h")]]]
MCBuiltins == [p |-> "0"]
Statements == {Star("m", {}), Star("n", {}), Star("n", {"x", "h"}), Item("m", "x", "x"),
               Item("n", "x", "y"), Item("m", "h", "h"), Item("n", "p", "p"), Leaf("n", "x"),
               Leaf("m", "h"), Whole("m", "m"), Whole("m", "k"), Static("n"),
               Declare("x"), Declare("p"), Define("h")}
MCPrograms == {p \in UNION {[1..k -> Statements] : k \in 1..3} :
                 \A i, j \in DOMAIN p : i # j => p[i] # p[j]}
=============================================================================

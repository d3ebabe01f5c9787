------------------------------ MODULE MCRemote ------------------------------
(***************************************************************************)
(* Instances of Remote for TLC: a program and a task, three calls, two     *)
(* signals in a handler.                                                   *)
(***************************************************************************)
EXTENDS Remote
CONSTANTS main, task, c1, c2, c3

ProgramAndTask == {main, task}
ThreeCalls == {c1, c2, c3}
=============================================================================

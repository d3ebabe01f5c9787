----------------------------- MODULE MCDebugger -----------------------------
(***************************************************************************)
(* Instances of Debugger for TLC: one line a breakpoint may be set on      *)
(* and one without, two frames, two messages in flight.                    *)
(***************************************************************************)
EXTENDS Debugger

OneLine == {1}
=============================================================================

------------------------------- MODULE Native -------------------------------
(***************************************************************************)
(* The evaluator's native twin (eval_stmt, run_scoped_block, ...), which   *)
(* recurses: what it does with a body is what the driver must do with it.  *)
(*                                                                         *)
(* A run is a record: how it ends so far (`sig`), its effects (`trace`),   *)
(* the defers of the scope it is in, and the two exception counters.       *)
(***************************************************************************)
EXTENDS Driver

Start == [sig |-> Normal("nil"), trace |-> <<>>, defers |-> <<>>, captured |-> 0, raised |-> 0]

Effect(run, event) == [run EXCEPT !.trace = Append(@, event)]
EndsWith(run, sig) == [run EXCEPT !.sig = sig]
Raise(run) == [run EXCEPT !.sig = Raises(run.raised + 1), !.raised = @ + 1]

\* eval_stmt's wrapper.
Report(run) ==
  IF run.sig.kind = "raise" /\ run.sig.exc # run.captured
    THEN [Effect(run, <<"hook", run.sig.exc>>) EXCEPT !.captured = run.sig.exc]
    ELSE run

\* The defers that run when a scope is left: the last registered first.
Armed(defers, sig) == Reverse(SelectSeq(defers, LAMBDA d : RunsOn(d, sig)))

\* run is the run so far, depth the calls under way in its driver.
RECURSIVE Exec(_, _, _), ExecBlock(_, _, _), ExecScoped(_, _, _), ExecLoop(_, _, _, _),
          ExecDefers(_, _), ExecCall(_, _, _)

ExecBlock(body, run, depth) ==
  IF body = <<>> THEN run
  ELSE LET after == Report(Exec(Head(body), EndsWith(run, Normal("nil")), depth))
       IN IF after.sig.kind = "next" THEN ExecBlock(Tail(body), after, depth) ELSE after

\* The defers of a body are its own; those of the scope around it stay.
ExecScoped(body, run, depth) ==
  LET inner == ExecBlock(body, [run EXCEPT !.defers = <<>>, !.sig = Normal("nil")], depth)
      done  == ExecDefers(Armed(inner.defers, inner.sig), EndsWith(inner, Normal("nil")))
  IN [done EXCEPT !.defers = run.defers,
                  !.sig = IF done.sig.kind = "next" THEN inner.sig ELSE done.sig]

ExecDefers(armed, run) ==
  IF armed = <<>> THEN EndsWith(run, Normal("nil"))
  ELSE LET after == ExecBlock(Head(armed).body, EndsWith(run, Normal("nil")), 0)
       IN IF after.sig.kind = "next" THEN ExecDefers(Tail(armed), after) ELSE after

ExecIn(body, run, depth) ==
  IF NeedsScope(body) THEN ExecScoped(body, run, depth)
  ELSE ExecBlock(body, EndsWith(run, Normal("nil")), depth)

ExecLoop(s, left, run, depth) ==
  IF left = 0
    THEN LET after == IF s.other = <<>> THEN EndsWith(run, Normal("nil"))
                                        ELSE ExecScoped(s.other, run, depth)
         IN IF after.sig.kind = "next" THEN EndsWith(after, Normal("nil")) ELSE after
    ELSE LET after == IF s.op = "for" THEN ExecScoped(s.body, run, depth)
                                      ELSE ExecIn(s.body, run, depth)
         IN CASE after.sig.kind \in {"next", "continue"} -> ExecLoop(s, left - 1, after, depth)
              [] after.sig.kind = "break"                -> EndsWith(after, Normal("nil"))
              [] OTHER                                   -> after

ExecCall(s, run, depth) ==
  IF s.arg = "misbound" \/ depth >= MaxDriver THEN Raise(run)
  ELSE LET after == ExecScoped(s.body, run, depth + 1)
           value == after.sig.val
       IN IF after.sig.kind \in {"next", "return"}
            THEN EndsWith(Effect(after, <<"value", value>>), Outcome(s.arg, value))
            ELSE after

Exec(s, run, depth) ==
  CASE s.op = "mark"     -> Effect(run, <<"mark", s.arg>>)
    [] s.op \in {"return", "break", "continue"} -> EndsWith(run, Ends(s.op, s.arg))
    [] s.op = "crash"    -> Raise(run)
    [] s.op = "if"       -> ExecIn(Branch(s), run, depth)
    [] s.op = "do"       -> ExecIn(s.body, run, depth)
    [] s.op \in {"for", "while"} -> ExecLoop(s, Times(s), run, depth)
    [] s.op = "defer"    -> [run EXCEPT !.defers = Append(@, s)]
    [] s.op = "call"     -> ExecCall(s, run, depth)

-----------------------------------------------------------------------------

\* The driver's docstrings: a call is seen "exactly as if the original, native
\* recursive call" had been made: effects, values, exceptions reported, defers
\* run and the way out are those of the native twin.
AsIfNative ==
  stack = <<>> =>
    LET run == ExecScoped(program, Start, 1)
    IN /\ trace = run.trace
       /\ signal = IF run.sig.kind = "return" THEN Normal(run.sig.val) ELSE run.sig
=============================================================================

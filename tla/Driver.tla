------------------------------- MODULE Driver -------------------------------
(***************************************************************************)
(* The evaluator's trampoline: _run_driver and the generators it drives    *)
(* (_eval_stmt_gen, _run_scoped_block_gen, ...).  A call inside a body     *)
(* does not recurse: the body's generators are suspended, and the driver   *)
(* pushes an activation for the callee on a list of its own.  Defers run   *)
(* natively, so that a call in a defer starts a driver of its own.         *)
(*                                                                         *)
(* `stack` is all of it, outermost first: a context for each activation,   *)
(* scope, block and loop, for each expression that waits for a call, and   *)
(* for each run of defers; `signal` is what travels to the innermost one.  *)
(***************************************************************************)
EXTENDS Lang, FiniteSets

CONSTANTS
  Programs,    \* bodies of the function the host calls
  MaxDriver    \* _MAX_DRIVER_DEPTH

ASSUME DriverAssumption == MaxDriver \in Nat \ {0}

VARIABLES
  program,     \* the body that runs
  stack, signal,
  trace,       \* effects: marks, values shown, calls of the exception hook
  frames,      \* the length of the debugger's _call_stack, above the module's frame
  captured,    \* _last_captured_exc
  raised       \* exceptions so far

vars == <<program, stack, signal, trace, frames, captured, raised>>

\* A context: at its place (`at`), with the statements it has left, ...
Context(at, code) ==
  [at |-> at, code |-> code, other |-> <<>>, defers |-> <<>>, left |-> 0,
   how |-> "nil", after |-> Normal("nil")]
Block(body)  == Context("block", body)
Scope        == Context("scope", <<>>)
Scoped(body) == <<Scope, Block(body)>>
RunBlock(body) == IF NeedsScope(body) THEN Scoped(body) ELSE <<Block(body)>>

Top == Last(stack)
At(at) == stack # <<>> /\ Top.at = at
Below == Front(stack)
Replace(contexts) == stack' = Below \o contexts
Normally == signal.kind = "next"
Passes(sig) == signal' = sig /\ Replace(<<>>)      \* Top ends with sig

\* Activations; one is "native" if a driver was started for it, "nested" if it
\* was pushed on the list of the innermost driver.
Calls == {i \in DOMAIN stack : stack[i].at = "call"}
Natively == \E i \in DOMAIN stack : /\ stack[i].at = "defers"
                                    /\ \A j \in Calls : j < i
DriverDepth == Cardinality({i \in Calls : \A j \in Calls : j > i => stack[j].how = "nested"})

Init ==
  /\ program \in Programs
  /\ stack = <<[Context("call", <<>>) EXCEPT !.how = "native"]>> \o Scoped(program)
  /\ signal = Normal("nil")
  /\ trace = <<>> /\ frames = 1 /\ captured = 0 /\ raised = 0

-----------------------------------------------------------------------------
(* Statements: the innermost block executes its next one. *)

Statement(op) == At("block") /\ Normally /\ Top.code # <<>> /\ Head(Top.code).op = op
This == Head(Top.code)
Rest == [Top EXCEPT !.code = Tail(@)]

DoMark ==
  /\ Statement("mark")
  /\ trace' = Append(trace, <<"mark", This.arg>>)
  /\ signal' = Normal("nil") /\ Replace(<<Rest>>)
  /\ UNCHANGED <<program, frames, captured, raised>>

\* return, break, continue.
DoSignal ==
  /\ \E op \in {"return", "break", "continue"} :
       Statement(op) /\ signal' = Ends(op, This.arg)
  /\ Replace(<<Rest>>)
  /\ UNCHANGED <<program, trace, frames, captured, raised>>

DoCrash ==
  /\ Statement("crash")
  /\ raised' = raised + 1 /\ signal' = Raises(raised + 1)
  /\ Replace(<<Rest>>)
  /\ UNCHANGED <<program, trace, frames, captured>>

DoBlock ==
  /\ \/ Statement("if") /\ Replace(<<Rest>> \o RunBlock(Branch(This)))
     \/ Statement("do") /\ Replace(<<Rest>> \o RunBlock(This.body))
  /\ signal' = Normal("nil")
  /\ UNCHANGED <<program, trace, frames, captured, raised>>

DoLoop ==
  /\ \E op \in {"for", "while"} :
       /\ Statement(op)
       /\ Replace(<<Rest, [Context("loop", This.body) EXCEPT
                            !.other = This.other, !.left = Times(This), !.how = op]>>)
  /\ signal' = Normal("nil")
  /\ UNCHANGED <<program, trace, frames, captured, raised>>

\* A defer is registered on the scope its block runs in; the scope made for a
\* block of a defer is never torn down.
DoDefer ==
  /\ Statement("defer")
  /\ stack' = IF Last(Below).at = "scope"
                THEN Front(Below) \o <<[Last(Below) EXCEPT !.defers = Append(@, This)], Rest>>
                ELSE Below \o <<Rest>>
  /\ signal' = Normal("nil")
  /\ UNCHANGED <<program, trace, frames, captured, raised>>

\* A call: yielded to the driver, or, in a defer, made natively.  What cannot
\* be built is raised where the call was made, before a frame is pushed.
DoCall ==
  /\ Statement("call")
  /\ LET wait == [Context("want", <<>>) EXCEPT !.how = This.arg]
         call == [Context("call", <<>>) EXCEPT !.how = IF Natively THEN "native" ELSE "nested"]
     IN IF This.arg = "misbound" \/ (~Natively /\ DriverDepth >= MaxDriver)
          THEN /\ raised' = raised + 1 /\ signal' = Raises(raised + 1)
               /\ Replace(<<Rest, wait>>)
               /\ UNCHANGED frames
          ELSE /\ Replace(<<Rest, wait, call>> \o Scoped(This.body))
               /\ frames' = frames + 1
               /\ signal' = Normal("nil")
               /\ UNCHANGED raised
  /\ UNCHANGED <<program, trace, captured>>

-----------------------------------------------------------------------------
(* What ends travels outwards. *)

BlockEnds ==
  /\ At("block") /\ Normally /\ Top.code = <<>>
  /\ Passes(signal)
  /\ UNCHANGED <<program, trace, frames, captured, raised>>

\* The wrapper around every statement reports an exception to the debugger
\* when it is not the one reported last.
BlockUnwinds ==
  /\ At("block") /\ ~Normally
  /\ Passes(signal)
  /\ IF signal.kind = "raise" /\ signal.exc # captured
       THEN /\ captured' = signal.exc
            /\ trace' = Append(trace, <<"hook", signal.exc>>)
       ELSE UNCHANGED <<captured, trace>>
  /\ UNCHANGED <<program, frames, raised>>

\* A scope is left, by whatever exit: its defers run.
LeaveScope ==
  /\ At("scope")
  /\ Replace(<<[Context("defers", <<>>) EXCEPT !.defers = Top.defers, !.after = signal]>>)
  /\ signal' = Normal("nil")
  /\ UNCHANGED <<program, trace, frames, captured, raised>>

\* Mutant: a scope left by an exception runs its `always` defers only.
BadNextDefer ==
  /\ At("defers") /\ Normally /\ Top.defers # <<>>
  /\ LET defer == Last(Top.defers)
     IN Replace(<<[Top EXCEPT !.defers = Front(@)]>>
                  \o IF defer.arg = "always" THEN <<Block(defer.body)>> ELSE <<>>)
  /\ signal' = Normal("nil")
  /\ UNCHANGED <<program, trace, frames, captured, raised>>

\* The last defer registered is the first to run, or to be passed over.
NextDefer ==
  /\ At("defers") /\ Normally /\ Top.defers # <<>>
  /\ LET defer == Last(Top.defers)
     IN Replace(<<[Top EXCEPT !.defers = Front(@)]>>
                  \o IF RunsOn(defer, Top.after) THEN <<Block(defer.body)>> ELSE <<>>)
  /\ signal' = Normal("nil")
  /\ UNCHANGED <<program, trace, frames, captured, raised>>

DefersEnd ==
  /\ At("defers") /\ Normally /\ Top.defers = <<>>
  /\ Passes(Top.after)
  /\ UNCHANGED <<program, trace, frames, captured, raised>>

\* A defer that does not end normally replaces what was under way.
DeferUnwinds ==
  /\ At("defers") /\ ~Normally
  /\ Passes(signal)
  /\ UNCHANGED <<program, trace, frames, captured, raised>>

\* break and continue are for the loop, but not from its `else`.
Caught == signal.kind \in {"break", "continue"} /\ Top.how # "else"

LoopStep ==
  /\ At("loop") /\ (Normally \/ (Caught /\ signal.kind = "continue"))
  /\ signal' = Normal("nil")
  /\ IF Top.left > 0
       THEN Replace(<<[Top EXCEPT !.left = @ - 1]>>
                      \o IF Top.how = "for" THEN Scoped(Top.code) ELSE RunBlock(Top.code))
       ELSE Replace(IF Top.other = <<>> THEN <<>>
                    ELSE <<[Top EXCEPT !.how = "else", !.other = <<>>]>> \o Scoped(Top.other))
  /\ UNCHANGED <<program, trace, frames, captured, raised>>

LoopUnwinds ==
  /\ At("loop") /\ ~Normally
  /\ \/ Caught /\ signal.kind = "break" /\ Passes(Normal("nil"))
     \/ ~Caught /\ Passes(signal)
  /\ UNCHANGED <<program, trace, frames, captured, raised>>

\* Mutant: the frame of a call that ends by an exception stays.
BadCallEnds ==
  /\ At("call")
  /\ frames' = IF signal.kind = "raise" THEN frames ELSE frames - 1
  /\ Passes(IF signal.kind = "return" THEN Normal(signal.val) ELSE signal)
  /\ UNCHANGED <<program, trace, captured, raised>>

\* The activation on top ends: a value for the one below, or an exception
\* that is thrown into it.  break and continue are exceptions like others.
CallEnds ==
  /\ At("call")
  /\ frames' = frames - 1
  /\ Passes(IF signal.kind = "return" THEN Normal(signal.val) ELSE signal)
  /\ UNCHANGED <<program, trace, captured, raised>>

\* The expression around a call gets its value.
Outcome(how, val) ==
  IF how = "return" \/ (how = "try" /\ val = "err") THEN Ends("return", val)
  ELSE IF how = "catch" /\ val = "err" THEN Normal("ok")
  ELSE IF how = "catch return" /\ val = "err" THEN Ends("return", "ok")
  ELSE Normal(val)

Deliver ==
  /\ At("want") /\ Normally
  /\ Passes(Outcome(Top.how, signal.val))
  /\ trace' = Append(trace, <<"value", signal.val>>)
  /\ UNCHANGED <<program, frames, captured, raised>>

WantUnwinds ==
  /\ At("want") /\ ~Normally
  /\ Passes(signal)
  /\ UNCHANGED <<program, trace, frames, captured, raised>>

Ended == stack = <<>> /\ UNCHANGED vars

Next == \/ DoMark \/ DoSignal \/ DoCrash \/ DoBlock \/ DoLoop \/ DoDefer \/ DoCall
        \/ BlockEnds \/ BlockUnwinds \/ LeaveScope \/ NextDefer \/ DefersEnd \/ DeferUnwinds
        \/ LoopStep \/ LoopUnwinds \/ CallEnds \/ Deliver \/ WantUnwinds
        \/ Ended

Spec == Init /\ [][Next]_vars

-----------------------------------------------------------------------------
(* Properties. *)

\* Every variable keeps its type.
TypeOK ==
  /\ \A i \in DOMAIN stack :
       stack[i].at \in {"call", "scope", "block", "loop", "want", "defers"}
  /\ signal \in [kind : Signal, val : Value, exc : 0 .. raised]
  /\ frames \in Nat /\ raised \in Nat /\ captured \in 0 .. raised

\* The debugger's call stack is the chain of calls under way, whatever defers,
\* failed calls and exceptions came before.
FramesMatch == TypeOK /\ frames = Cardinality(Calls)
=============================================================================

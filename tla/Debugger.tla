------------------------------ MODULE Debugger ------------------------------
(***************************************************************************)
(* The debug adapter (src/wypoc/dap/): the evaluator thread runs the       *)
(* program and, at every statement, consults the Debugger's run mode; the  *)
(* IO thread of the Session handles one DAP request after the other and    *)
(* changes that run mode; the client sees only the messages the two        *)
(* threads write.  Nothing but the GIL orders the two threads, so every    *)
(* read or write of a shared attribute is a step of its own.               *)
(*                                                                         *)
(* A session starts here once `launch` has been answered.                  *)
(***************************************************************************)
EXTENDS Naturals, Sequences

CONSTANTS
  Line,        \* lines of the program a breakpoint may be set on
  NoLine,      \* the line of a statement none is ever set on, and of no statement
  MaxDepth,    \* bound on the depth of the call stack
  MaxQueue     \* bound on the messages in flight for the client to send another

ASSUME DebuggerAssumption ==
  /\ NoLine \notin Line
  /\ MaxDepth \in Nat \ {0}
  /\ MaxQueue \in Nat \ {0}

VARIABLES
  \* Debugger
  breakpoints, mode, stepDepth, resumeEvent,
  \* the evaluator thread; line is the hook's own while it runs
  epc, depth, line,
  \* the Session's IO thread: the request it handles and its next step
  io, iopc, done,
  \* the two byte streams
  inbox, outbox,
  \* the client: what it believes of the program, and the resume request that
  \* ended the last stop it saw, with the depth of that stop
  view, last

debugger == <<breakpoints, mode, stepDepth, resumeEvent>>
program  == <<epc, depth, line>>
server   == <<io, iopc, done>>
client   == <<view, last>>
vars == <<debugger, program, server, inbox, outbox, client>>

Resuming == {"continue", "next", "stepIn", "stepOut"}
Command  == Resuming \cup {"configurationDone", "pause", "setBreakpoints", "disconnect"}
Mode     == {"running", "step_in", "step_over", "step_out", "pause_requested", "paused"}
Message  == {"resumed", "done", "stopped", "terminated"}

\* The run mode each resume request asks for.
ModeOf == [c \in Resuming \cup {"disconnect"} |->
             CASE c = "next"    -> "step_over"
               [] c = "stepIn"  -> "step_in"
               [] c = "stepOut" -> "step_out"
               [] OTHER         -> "running"]

\* Of a continue, or of no request, nothing is expected.
Nothing == [cmd |-> "continue", depth |-> 0]

Post(message) == outbox' = Append(outbox, message)

Init ==
  /\ breakpoints \in SUBSET Line
  /\ mode = "running" /\ stepDepth = 0 /\ resumeEvent = FALSE
  /\ epc = "off" /\ depth = 0 /\ line = NoLine
  /\ io = "configurationDone" /\ iopc = "start" /\ done = FALSE
  /\ inbox = <<>> /\ outbox = <<>>
  /\ view = "running" /\ last = Nothing

-----------------------------------------------------------------------------
(* The IO thread. *)

HandleNext(from, to) == iopc = from /\ iopc' = to

\* configurationDone starts the program, in the mode that stops it at its
\* first statement if the launch asked for that (stopOnEntry).
Start ==
  /\ HandleNext("start", "respond")
  /\ mode' \in {"running", "pause_requested"}
  /\ epc' = "run" /\ depth' = 1
  /\ UNCHANGED <<breakpoints, stepDepth, resumeEvent, line,
                 io, done, inbox, outbox, client>>

FirstStep(c) == CASE c = "pause"          -> "ask"
                  [] c = "setBreakpoints" -> "lines"
                  [] OTHER                -> "mode"

HandleRequest ==
  /\ iopc = "idle" /\ ~done /\ inbox # <<>>
  /\ io' = Head(inbox) /\ inbox' = Tail(inbox)
  /\ iopc' = FirstStep(Head(inbox))
  /\ UNCHANGED <<debugger, program, done, outbox, client>>

\* resume, step_in, step_over, step_out: the mode first, then the depth the
\* step is relative to, then the event.
SetMode ==
  /\ HandleNext("mode", IF io \in {"next", "stepOut"} THEN "depth" ELSE "event")
  /\ mode' = ModeOf[io]
  /\ UNCHANGED <<breakpoints, stepDepth, resumeEvent, program, io, done,
                 inbox, outbox, client>>

SetDepth ==
  /\ HandleNext("depth", "event")
  /\ stepDepth' = depth
  /\ UNCHANGED <<breakpoints, mode, resumeEvent, program, io, done,
                 inbox, outbox, client>>

SetEvent ==
  /\ HandleNext("event", "respond")
  /\ resumeEvent' = TRUE
  /\ UNCHANGED <<breakpoints, mode, stepDepth, program, io, done,
                 inbox, outbox, client>>

\* pause looks at the mode and then, if the program was not paused, sets it.
PauseLook ==
  /\ HandleNext("ask", IF mode = "paused" THEN "respond" ELSE "request")
  /\ UNCHANGED <<debugger, program, io, done, inbox, outbox, client>>

\* Mutant: pause() marks the program as paused instead of asking it to pause.
BadPauseRequest ==
  /\ HandleNext("request", "respond")
  /\ mode' = "paused"
  /\ UNCHANGED <<breakpoints, stepDepth, resumeEvent, program, io, done,
                 inbox, outbox, client>>

PauseRequest ==
  /\ HandleNext("request", "respond")
  /\ mode' = "pause_requested"
  /\ UNCHANGED <<breakpoints, stepDepth, resumeEvent, program, io, done,
                 inbox, outbox, client>>

SetBreakpoints ==
  /\ HandleNext("lines", "respond")
  /\ breakpoints' \in SUBSET Line
  /\ UNCHANGED <<mode, stepDepth, resumeEvent, program, io, done,
                 inbox, outbox, client>>

Respond ==
  /\ HandleNext("respond", "idle")
  /\ Post(IF io \in Resuming THEN "resumed" ELSE "done")
  /\ done' = (io = "disconnect")
  /\ UNCHANGED <<debugger, program, io, inbox, client>>

IOThread == \/ Start \/ HandleRequest \/ SetMode \/ SetDepth \/ SetEvent
            \/ PauseLook \/ PauseRequest \/ SetBreakpoints \/ Respond

-----------------------------------------------------------------------------
(* The evaluator thread, a daemon: it ends with the session. *)

Evaluate(from, to) == ~done /\ epc = from /\ epc' = to

Call ==
  /\ Evaluate("run", "run")
  /\ depth < MaxDepth /\ depth' = depth + 1
  /\ UNCHANGED <<debugger, line, server, inbox, outbox, client>>

Return ==
  /\ Evaluate("run", "run")
  /\ depth > 1 /\ depth' = depth - 1
  /\ UNCHANGED <<debugger, line, server, inbox, outbox, client>>

\* The statement hook: the next statement is about to run.
Statement ==
  /\ Evaluate("run", "check")
  /\ line' \in Line \cup {NoLine}
  /\ UNCHANGED <<debugger, depth, server, inbox, outbox, client>>

\* _should_pause, up to the breakpoint test ...
CheckPause ==
  /\ Evaluate("check", IF mode = "pause_requested" \/ line \in breakpoints
                       THEN "enter" ELSE "step")
  /\ UNCHANGED <<debugger, depth, line, server, inbox, outbox, client>>

\* Mutant: a step out may stop in the frame it was asked to leave.
BadStepEnds == \/ mode = "step_in"
               \/ mode \in {"step_over", "step_out"} /\ depth <= stepDepth

StepEnds == \/ mode = "step_in"
            \/ mode = "step_over" /\ depth <= stepDepth
            \/ mode = "step_out" /\ depth < stepDepth

\* ... and the test of the step modes, which reads the mode again.
CheckStep ==
  /\ Evaluate("step", IF StepEnds THEN "enter" ELSE "run")
  /\ line' = IF StepEnds THEN line ELSE NoLine
  /\ UNCHANGED <<debugger, depth, server, inbox, outbox, client>>

\* The exception hook stops the program where the exception is first seen.
Raise ==
  /\ Evaluate("run", "enter")
  /\ UNCHANGED <<debugger, depth, line, server, inbox, outbox, client>>

EnterPaused ==
  /\ Evaluate("enter", "notify")
  /\ mode' = "paused"
  /\ UNCHANGED <<breakpoints, stepDepth, resumeEvent, depth, line,
                 server, inbox, outbox, client>>

Notify ==
  /\ Evaluate("notify", "wait")
  /\ Post("stopped")
  /\ UNCHANGED <<debugger, depth, line, server, inbox, client>>

Wait ==
  /\ Evaluate("wait", "clear")
  /\ resumeEvent
  /\ UNCHANGED <<debugger, depth, line, server, inbox, outbox, client>>

\* Mutant: the event is never cleared.
BadClear ==
  /\ Evaluate("clear", "run")
  /\ line' = NoLine
  /\ UNCHANGED <<debugger, depth, server, inbox, outbox, client>>

Clear ==
  /\ Evaluate("clear", "run")
  /\ resumeEvent' = FALSE
  /\ line' = NoLine
  /\ UNCHANGED <<breakpoints, mode, stepDepth, depth,
                 server, inbox, outbox, client>>

Finish ==
  /\ Evaluate("run", "over")
  /\ depth = 1
  /\ Post("terminated")
  /\ UNCHANGED <<debugger, depth, line, server, inbox, client>>

Evaluator == \/ Call \/ Return \/ Statement \/ CheckPause \/ CheckStep
             \/ Raise \/ EnterPaused \/ Notify \/ Wait \/ Clear \/ Finish

-----------------------------------------------------------------------------
(* The client. *)

Send(c) ==
  /\ view # "ended" /\ Len(inbox) + Len(outbox) < MaxQueue
  /\ inbox' = Append(inbox, c)
  /\ UNCHANGED <<debugger, program, server, outbox>>

\* A client resumes a program it has seen stop, and takes it as running as
\* soon as it is told so.
Resume ==
  /\ view = "stopped"
  /\ \E c \in Resuming :
       /\ Send(c)
       /\ last' = [cmd |-> c, depth |-> IF c \in {"next", "stepOut"} THEN depth ELSE 0]
  /\ view' = "asked"

Ask == /\ \E c \in {"pause", "setBreakpoints"} : Send(c)
       /\ UNCHANGED client

Disconnect == /\ Send("disconnect")
              /\ view' = "ended"
              /\ last' = Nothing

Receive ==
  /\ outbox # <<>>
  /\ outbox' = Tail(outbox)
  /\ view' = IF view = "ended" THEN "ended" ELSE
               CASE Head(outbox) = "stopped"                    -> "stopped"
                 [] Head(outbox) = "terminated"                 -> "over"
                 [] Head(outbox) = "resumed" /\ view # "over"   -> "running"
                 [] OTHER                                       -> view
  /\ UNCHANGED <<debugger, program, server, inbox, last>>

Client == Resume \/ Ask \/ Disconnect \/ Receive

Next == IOThread \/ Evaluator \/ Client

Spec == Init /\ [][Next]_vars

\* Both threads are scheduled, and the program executes statements: a call
\* that never returns and never reaches a statement is outside this model.
\* The client reads what it is sent; whether it ever asks for anything is its
\* own affair.
FairSpec ==
  /\ Spec
  /\ WF_vars(IOThread)
  /\ WF_vars(Statement) /\ WF_vars(CheckPause) /\ WF_vars(CheckStep)
  /\ WF_vars(EnterPaused) /\ WF_vars(Notify)
  /\ WF_vars(Wait) /\ WF_vars(Clear)
  /\ WF_vars(Receive)

-----------------------------------------------------------------------------
(* Properties. *)

\* Every variable keeps its type.
TypeOK ==
  /\ breakpoints \subseteq Line /\ mode \in Mode /\ stepDepth \in 0..MaxDepth
  /\ resumeEvent \in BOOLEAN
  /\ epc \in {"off", "run", "check", "step", "enter", "notify", "wait", "clear", "over"}
  /\ depth \in 0..MaxDepth /\ line \in Line \cup {NoLine}
  /\ io \in Command /\ done \in BOOLEAN
  /\ iopc \in {"start", "idle", "mode", "depth", "event", "ask", "request", "lines", "respond"}
  /\ inbox \in Seq(Command) /\ Len(inbox) <= MaxQueue
  /\ outbox \in Seq(Message) /\ Len(outbox) <= MaxQueue + 3
  /\ view \in {"running", "stopped", "asked", "over", "ended"}
  /\ last \in [cmd : Resuming, depth : 0..MaxDepth]

\* A client that shows the program as stopped is right: the evaluator blocks
\* on the event and nothing is about to set it, so frames and variables stay
\* as they are until the client itself resumes the program (server.py's
\* inspection handlers rely on it, without a lock).
StopIsReal == TypeOK /\ (view = "stopped" => epc = "wait" /\ ~resumeEvent)

\* debugger.py's threading model: the evaluator "blocks on _resume_event
\* whenever paused".  While the run mode says paused, no statement runs,
\* until the client leaves.
BlocksWhenPaused == mode = "paused" /\ view # "ended" => epc \in {"notify", "wait", "clear"}

\* What a step may do, in the terms of the request and of the depth the
\* client saw when it made it, however pauses and breakpoints intervene: a
\* step over does not report a stop deeper than it began, nor a step out one
\* as deep; and neither they nor a step in let a statement pass that they
\* should have stopped at.
StepKept ==
  [][ CheckStep /\ mode \notin {"running", "pause_requested"} =>
        (epc' = "enter" <=> \/ last.cmd = "stepIn"
                            \/ last.cmd = "next" /\ depth <= last.depth
                            \/ last.cmd = "stepOut" /\ depth < last.depth)
      \/ view = "ended" ]_vars

\* debugger.py on pause(): "the request is just a flag the next call notices".
\* A pause requested of a running program stops it, unless it ends first.
PauseHonoured == (iopc = "request") ~> (epc \in {"wait", "over"} \/ view = "ended")

=============================================================================

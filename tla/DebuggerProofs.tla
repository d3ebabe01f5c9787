--------------------------- MODULE DebuggerProofs ---------------------------
(***************************************************************************)
(* Proofs about Debugger: for any lines, any depth of calls and any number *)
(* of messages in flight, a client that shows the program as stopped is    *)
(* right (StopIsReal), a paused program runs no statement                  *)
(* (BlocksWhenPaused), and a step stops where it was asked to (StepKept).  *)
(***************************************************************************)
EXTENDS Debugger, SequenceTheorems, TLAPS

-----------------------------------------------------------------------------
(* The inductive invariant. *)

Has(queue, messages) == \E i \in 1 .. Len(queue) : queue[i] \in messages
Once(queue, messages) ==
  \A i, j \in 1 .. Len(queue) : queue[i] \in messages /\ queue[j] \in messages => i = j

\* The IO thread handles such a request and has not set the event yet.
Handling(requests) == io \in requests /\ iopc \in {"mode", "depth", "event"}

\* A request to resume is on its way to the event; so is a disconnect; a stop
\* is on its way to the client.
Asked   == Has(inbox, Resuming) \/ Handling(Resuming)
Leaving == Has(inbox, {"disconnect"}) \/ Handling({"disconnect"})
Told    == Has(outbox, {"stopped"})
Active  == epc \in {"off", "run", "check", "step", "enter", "notify"}

\* The requests: what the IO thread does is what they ask for, and at most
\* one of each of those that set the event is under way.
Requests ==
  /\ ~Has(inbox, {"configurationDone"})
  /\ iopc \in {"mode", "event"} => io \in Resuming \cup {"disconnect"}
  /\ iopc = "depth" => io \in {"next", "stepOut"}
  /\ iopc = "start" <=> epc = "off"
  /\ Once(inbox, Resuming) /\ (Handling(Resuming) => ~Has(inbox, Resuming))
  /\ Once(inbox, {"disconnect"})
  /\ Handling({"disconnect"}) => ~Has(inbox, {"disconnect"})

\* One token goes around between the evaluator and the client: a stop told,
\* a stop seen, a request to resume, the event.
Token ==
  /\ Told \/ view = "stopped" => epc = "wait" /\ ~resumeEvent /\ ~Asked
  /\ Once(outbox, {"stopped"}) /\ ~(Told /\ view = "stopped")
  /\ Asked => epc = "wait" /\ ~resumeEvent
  /\ resumeEvent => epc \in {"wait", "clear"}
  /\ epc = "clear" => resumeEvent

Present == ~Has(inbox, {"disconnect"}) /\ io # "disconnect" /\ ~done

\* The run mode: paused until the request to resume has set its own.
ModeSet == Handling(Resuming) /\ iopc # "mode"
Paused ==
  /\ mode = "paused" => epc \in {"notify", "wait"} /\ ~resumeEvent /\ ~ModeSet
  /\ epc \in {"notify", "wait"} /\ ~resumeEvent /\ ~ModeSet => mode \in {"paused", "pause_requested"}

\* The mode and the depth of a step are those of the client's last request.
Steps == {"step_in", "step_over", "step_out"}
Stepping ==
  /\ mode \in Steps => mode = ModeOf[last.cmd]
  /\ mode \in {"step_over", "step_out"} /\ iopc # "depth" => stepDepth = last.depth
  /\ \A i \in 1 .. Len(inbox) : inbox[i] \in Resuming => inbox[i] = last.cmd
  /\ Handling(Resuming) => io = last.cmd
  /\ Asked /\ last.cmd \in {"next", "stepOut"} => last.depth = depth

\* Each message in flight is a request, the answer to one, or the one message
\* that follows from the event being set.
One(b) == IF b THEN 1 ELSE 0
Pending == Len(inbox) + Len(outbox) + One(iopc # "idle")
Coming  == One(Active \/ epc = "clear") + One(resumeEvent /\ epc # "clear") + One(Asked) + One(Leaving)
Room == Pending + Coming <= MaxQueue + 2 + One(view = "ended")

\* TypeOK but for the bound on outbox, which Room gives.
Types ==
  /\ breakpoints \subseteq Line /\ mode \in Mode /\ stepDepth \in 0..MaxDepth
  /\ resumeEvent \in BOOLEAN
  /\ epc \in {"off", "run", "check", "step", "enter", "notify", "wait", "clear", "over"}
  /\ depth \in 0..MaxDepth /\ line \in Line \cup {NoLine}
  /\ io \in Command /\ done \in BOOLEAN
  /\ iopc \in {"start", "idle", "mode", "depth", "event", "ask", "request", "lines", "respond"}
  /\ inbox \in Seq(Command) /\ Len(inbox) <= MaxQueue
  /\ outbox \in Seq(Message)
  /\ view \in {"running", "stopped", "asked", "over", "ended"}
  /\ last \in [cmd : Resuming, depth : 0..MaxDepth]

Session == view # "ended" => Token /\ Present /\ Paused /\ Stepping

DebuggerInv == Types /\ Requests /\ Session /\ Room

-----------------------------------------------------------------------------
(* What appending to a queue and taking from one do to Has and Once. *)

LEMMA Appended == ASSUME NEW S, NEW queue \in Seq(S), NEW message, NEW messages
                  PROVE  /\ Has(Append(queue, message), messages)
                              <=> Has(queue, messages) \/ message \in messages
                         /\ Once(queue, messages) /\ (message \in messages => ~Has(queue, messages))
                              => Once(Append(queue, message), messages)
<1> DEFINE longer == Append(queue, message)
<1>1. /\ Len(longer) = Len(queue) + 1 /\ Len(queue) \in Nat /\ longer[Len(queue) + 1] = message
      /\ \A i \in 1 .. Len(queue) : longer[i] = queue[i]
  OBVIOUS
<1> HIDE DEF longer
<1>2. \A i : i \in 1 .. Len(longer) <=> i \in 1 .. Len(queue) \/ i = Len(queue) + 1
  BY <1>1
<1>3. Has(longer, messages) <=> Has(queue, messages) \/ message \in messages
  BY <1>1, <1>2 DEF Has
<1>4. Once(queue, messages) /\ (message \in messages => ~Has(queue, messages))
        => Once(longer, messages)
  BY <1>1, <1>2 DEF Has, Once
<1> QED BY <1>3, <1>4 DEF longer

LEMMA Taken == ASSUME NEW S, NEW queue \in Seq(S), queue # <<>>, NEW messages
               PROVE  /\ Has(queue, messages)
                           <=> Head(queue) \in messages \/ Has(Tail(queue), messages)
                      /\ Once(queue, messages) => /\ Once(Tail(queue), messages)
                                                  /\ Head(queue) \in messages => ~Has(Tail(queue), messages)
                      /\ Tail(queue) \in Seq(S) /\ Head(queue) \in S
                      /\ Len(Tail(queue)) = Len(queue) - 1
                      /\ \A i \in 1 .. Len(Tail(queue)) : i + 1 \in 1 .. Len(queue)
                                                          /\ Tail(queue)[i] = queue[i + 1]
<1> DEFINE rest == Tail(queue)
<1>1. /\ Len(rest) = Len(queue) - 1 /\ Len(queue) \in Nat \ {0} /\ Head(queue) = queue[1]
      /\ rest \in Seq(S) /\ queue[1] \in S
      /\ \A i \in 1 .. Len(queue) - 1 : rest[i] = queue[i + 1]
  OBVIOUS
<1> HIDE DEF rest
<1>2. \A i \in 1 .. Len(rest) : i + 1 \in 1 .. Len(queue) /\ rest[i] = queue[i + 1] /\ i + 1 # 1
  BY <1>1
<1>3. ASSUME NEW i \in 1 .. Len(queue), i # 1
      PROVE  \E j \in 1 .. Len(rest) : rest[j] = queue[i] /\ j + 1 = i
  <2>1. i - 1 \in 1 .. Len(rest) /\ (i - 1) + 1 = i BY <1>1, <1>3
  <2> QED BY <1>2, <2>1
<1>4. 1 \in 1 .. Len(queue) BY <1>1
<1>5. Has(queue, messages) <=> queue[1] \in messages \/ Has(rest, messages)
  BY <1>2, <1>3, <1>4 DEF Has
<1>6. ASSUME Once(queue, messages) PROVE Once(rest, messages)
  <2>1. ASSUME NEW i \in 1 .. Len(rest), NEW j \in 1 .. Len(rest),
               rest[i] \in messages, rest[j] \in messages
        PROVE  i = j
    <3>1. i + 1 = j + 1 BY <1>2, <1>6, <2>1 DEF Once
    <3> QED BY <1>1, <3>1
  <2> QED BY <2>1 DEF Once
<1>7. ASSUME Once(queue, messages), queue[1] \in messages PROVE ~Has(rest, messages)
  BY <1>2, <1>4, <1>7 DEF Has, Once
<1> QED BY <1>1, <1>2, <1>5, <1>6, <1>7 DEF rest

-----------------------------------------------------------------------------
(* The evaluator. *)

\* Its steps leave the requests alone.
LEMMA EvaluatorKeeps ==
  ASSUME DebuggerInv, UNCHANGED <<server, inbox, client>>, epc # "off", epc' # "off"
  PROVE  /\ Requests' /\ (Present => Present')
         /\ view' = view /\ (Asked' <=> Asked) /\ (Leaving' <=> Leaving)
         /\ (Handling(Resuming)' <=> Handling(Resuming)) /\ (ModeSet' <=> ModeSet)
<1>1. UNCHANGED <<io, iopc, done, inbox, view, last>> BY DEF server, client
<1>2. \A S : Handling(S)' <=> Handling(S) BY <1>1 DEF Handling
<1>3. /\ Handling(Resuming)' <=> Handling(Resuming)
      /\ Handling({"disconnect"})' <=> Handling({"disconnect"})
  BY <1>1 DEF Handling
<1>4. (Asked' <=> Asked) /\ (Leaving' <=> Leaving) /\ (ModeSet' <=> ModeSet)
  BY <1>1, <1>3 DEF Asked, Leaving, ModeSet
<1>5. Requests' BY <1>1, <1>3 DEF DebuggerInv, Requests
<1>6. Present => Present' BY <1>1 DEF Present
<1> QED BY <1>1, <1>3, <1>4, <1>5, <1>6

\* The program runs on, or is found to have to stop.
LEMMA RunsOn ==
  ASSUME DebuggerInv, UNCHANGED <<debugger, server, inbox, outbox, client>>,
         epc \in {"run", "check", "step"}, epc' \in {"run", "check", "step", "enter"},
         depth' \in 0 .. MaxDepth, line' \in Line \cup {NoLine}
  PROVE  DebuggerInv'
<1>1. /\ UNCHANGED <<breakpoints, mode, stepDepth, resumeEvent, outbox>>
      /\ UNCHANGED <<io, iopc, done, inbox, view, last>>
  BY DEF debugger, server, client
<1>2. /\ Requests' /\ (Present => Present') /\ (Asked' <=> Asked) /\ (Leaving' <=> Leaving)
      /\ (Handling(Resuming)' <=> Handling(Resuming)) /\ (ModeSet' <=> ModeSet)
  BY EvaluatorKeeps
<1>3. Types /\ Session /\ Room BY DEF DebuggerInv
<1>4. Types' BY <1>1, <1>3 DEF Types
<1>5. Told' <=> Told BY <1>1 DEF Told
<1>6. Token => Token' BY <1>1, <1>2, <1>5 DEF Token
<1>7. Token /\ Paused => Paused' BY <1>1, <1>2 DEF Token, Paused
<1>8. Token /\ Stepping => Stepping' BY <1>1, <1>2 DEF Token, Stepping
<1>9. Session' BY <1>1, <1>2, <1>3, <1>6, <1>7, <1>8 DEF Session
<1>10. Room' BY <1>1, <1>2, <1>3 DEF Room, Pending, Coming, One, Active
<1> QED BY <1>2, <1>4, <1>9, <1>10 DEF DebuggerInv

LEMMA RunSteps == DebuggerInv /\ (Call \/ Return \/ Statement \/ CheckPause \/ CheckStep \/ Raise)
                    => DebuggerInv'
<1> SUFFICES ASSUME DebuggerInv, Call \/ Return \/ Statement \/ CheckPause \/ CheckStep \/ Raise
             PROVE  DebuggerInv'
  OBVIOUS
<1>1. UNCHANGED <<debugger, server, inbox, outbox, client>>
  BY DEF Call, Return, Statement, CheckPause, CheckStep, Raise
<1>2. epc \in {"run", "check", "step"} /\ epc' \in {"run", "check", "step", "enter"}
  BY DEF Call, Return, Statement, CheckPause, CheckStep, Raise, Evaluate
<1>3. depth \in 0 .. MaxDepth /\ line \in Line \cup {NoLine} BY DEF DebuggerInv, Types
<1>4. depth' \in 0 .. MaxDepth
  <2>1. MaxDepth \in Nat BY DebuggerAssumption
  <2>2. depth' = depth \/ (depth < MaxDepth /\ depth' = depth + 1) \/ (depth > 1 /\ depth' = depth - 1)
    BY DEF Call, Return, Statement, CheckPause, CheckStep, Raise
  <2> QED BY <1>3, <2>1, <2>2
<1>5. line' \in Line \cup {NoLine}
  BY <1>3 DEF Call, Return, Statement, CheckPause, CheckStep, Raise
<1> QED BY <1>1, <1>2, <1>4, <1>5, RunsOn

LEMMA EnterPausedStep == DebuggerInv /\ EnterPaused => DebuggerInv'
<1> SUFFICES ASSUME DebuggerInv, EnterPaused PROVE DebuggerInv'
  OBVIOUS
<1>1. /\ epc = "enter" /\ epc' = "notify" /\ mode' = "paused"
      /\ UNCHANGED <<breakpoints, stepDepth, resumeEvent, depth, line, outbox>>
      /\ UNCHANGED <<io, iopc, done, inbox, view, last>>
  BY DEF EnterPaused, Evaluate, server, client
<1>2. /\ Requests' /\ (Present => Present') /\ (Asked' <=> Asked) /\ (Leaving' <=> Leaving)
      /\ (Handling(Resuming)' <=> Handling(Resuming)) /\ (ModeSet' <=> ModeSet)
  BY <1>1, EvaluatorKeeps DEF server, client
<1>3. Types /\ Session /\ Room BY DEF DebuggerInv
<1>4. Types' BY <1>1, <1>3 DEF Types, Mode
<1>5. Told' <=> Told BY <1>1 DEF Told
<1>6. Token => Token' BY <1>1, <1>2, <1>5 DEF Token
<1>7. Token => Paused' BY <1>1, <1>2 DEF Token, Paused, ModeSet, Asked
<1>8. Stepping => Stepping' BY <1>1, <1>2 DEF Stepping, Steps
<1>9. Session' BY <1>1, <1>2, <1>3, <1>6, <1>7, <1>8 DEF Session
<1>10. Room' BY <1>1, <1>2, <1>3 DEF Room, Pending, Coming, One, Active
<1> QED BY <1>2, <1>4, <1>9, <1>10 DEF DebuggerInv

LEMMA NotifyStep == DebuggerInv /\ Notify => DebuggerInv'
<1> SUFFICES ASSUME DebuggerInv, Notify PROVE DebuggerInv'
  OBVIOUS
<1>1. /\ epc = "notify" /\ epc' = "wait" /\ outbox' = Append(outbox, "stopped")
      /\ UNCHANGED <<breakpoints, mode, stepDepth, resumeEvent, depth, line>>
      /\ UNCHANGED <<io, iopc, done, inbox, view, last>>
  BY DEF Notify, Evaluate, Post, debugger, server, client
<1>2. /\ Requests' /\ (Present => Present') /\ (Asked' <=> Asked) /\ (Leaving' <=> Leaving)
      /\ (Handling(Resuming)' <=> Handling(Resuming)) /\ (ModeSet' <=> ModeSet)
  BY <1>1, EvaluatorKeeps DEF server, client
<1>3. Types /\ Session /\ Room BY DEF DebuggerInv
<1>4. outbox \in Seq(Message) /\ inbox \in Seq(Command) BY <1>3 DEF Types
<1>5. Types'
  <2>1. outbox' \in Seq(Message) BY <1>1, <1>4 DEF Message
  <2> QED BY <1>1, <1>3, <2>1 DEF Types
<1>6. Once(outbox, {"stopped"}) /\ ~Told => Once(outbox', {"stopped"})
  BY <1>1, <1>4, Appended DEF Told
<1>7. Token => Token' BY <1>1, <1>2, <1>6 DEF Token
<1>8. Paused => Paused' BY <1>1, <1>2 DEF Paused
<1>9. Stepping => Stepping' BY <1>1, <1>2 DEF Stepping
<1>10. Session' BY <1>1, <1>2, <1>3, <1>7, <1>8, <1>9 DEF Session
<1>11. Room'
  <2>1. Len(outbox') = Len(outbox) + 1 /\ Len(outbox) \in Nat /\ Len(inbox) \in Nat
    BY <1>1, <1>4
  <2> QED BY <1>1, <1>2, <1>3, <2>1 DEF Room, Pending, Coming, One, Active
<1> QED BY <1>2, <1>5, <1>10, <1>11 DEF DebuggerInv

LEMMA WaitStep == DebuggerInv /\ Wait => DebuggerInv'
<1> SUFFICES ASSUME DebuggerInv, Wait PROVE DebuggerInv'
  OBVIOUS
<1>1. /\ epc = "wait" /\ epc' = "clear" /\ resumeEvent
      /\ UNCHANGED <<breakpoints, mode, stepDepth, resumeEvent, depth, line, outbox>>
      /\ UNCHANGED <<io, iopc, done, inbox, view, last>>
  BY DEF Wait, Evaluate, debugger, server, client
<1>2. /\ Requests' /\ (Present => Present') /\ (Asked' <=> Asked) /\ (Leaving' <=> Leaving)
      /\ (Handling(Resuming)' <=> Handling(Resuming)) /\ (ModeSet' <=> ModeSet)
  BY <1>1, EvaluatorKeeps DEF server, client
<1>3. Types /\ Session /\ Room BY DEF DebuggerInv
<1>4. Types' BY <1>1, <1>3 DEF Types
<1>5. Told' <=> Told BY <1>1 DEF Told
<1>6. Token => Token' BY <1>1, <1>2, <1>5 DEF Token
<1>7. Paused => Paused' BY <1>1, <1>2 DEF Paused
<1>8. Stepping => Stepping' BY <1>1, <1>2 DEF Stepping
<1>9. Session' BY <1>1, <1>2, <1>3, <1>6, <1>7, <1>8 DEF Session
<1>10. Room' BY <1>1, <1>2, <1>3 DEF Room, Pending, Coming, One, Active
<1> QED BY <1>2, <1>4, <1>9, <1>10 DEF DebuggerInv

LEMMA ClearStep == DebuggerInv /\ Clear => DebuggerInv'
<1> SUFFICES ASSUME DebuggerInv, Clear PROVE DebuggerInv'
  OBVIOUS
<1>1. /\ epc = "clear" /\ epc' = "run" /\ resumeEvent' = FALSE /\ line' = NoLine
      /\ UNCHANGED <<breakpoints, mode, stepDepth, depth, outbox>>
      /\ UNCHANGED <<io, iopc, done, inbox, view, last>>
  BY DEF Clear, Evaluate, server, client
<1>2. /\ Requests' /\ (Present => Present') /\ (Asked' <=> Asked) /\ (Leaving' <=> Leaving)
      /\ (Handling(Resuming)' <=> Handling(Resuming)) /\ (ModeSet' <=> ModeSet)
  BY <1>1, EvaluatorKeeps DEF server, client
<1>3. Types /\ Session /\ Room BY DEF DebuggerInv
<1>4. Types' BY <1>1, <1>3 DEF Types
<1>5. Told' <=> Told BY <1>1 DEF Told
<1>6. Token => Token' BY <1>1, <1>2, <1>5 DEF Token
<1>7. Token /\ Paused => Paused' BY <1>1, <1>2 DEF Token, Paused
<1>8. Stepping => Stepping' BY <1>1, <1>2 DEF Stepping
<1>9. Session' BY <1>1, <1>2, <1>3, <1>6, <1>7, <1>8 DEF Session
<1>10. Room' BY <1>1, <1>2, <1>3 DEF Room, Pending, Coming, One, Active
<1> QED BY <1>2, <1>4, <1>9, <1>10 DEF DebuggerInv

LEMMA FinishStep == DebuggerInv /\ Finish => DebuggerInv'
<1> SUFFICES ASSUME DebuggerInv, Finish PROVE DebuggerInv'
  OBVIOUS
<1>1. /\ epc = "run" /\ epc' = "over" /\ outbox' = Append(outbox, "terminated")
      /\ UNCHANGED <<breakpoints, mode, stepDepth, resumeEvent, depth, line>>
      /\ UNCHANGED <<io, iopc, done, inbox, view, last>>
  BY DEF Finish, Evaluate, Post, debugger, server, client
<1>2. /\ Requests' /\ (Present => Present') /\ (Asked' <=> Asked) /\ (Leaving' <=> Leaving)
      /\ (Handling(Resuming)' <=> Handling(Resuming)) /\ (ModeSet' <=> ModeSet)
  BY <1>1, EvaluatorKeeps DEF server, client
<1>3. Types /\ Session /\ Room BY DEF DebuggerInv
<1>4. outbox \in Seq(Message) /\ inbox \in Seq(Command) BY <1>3 DEF Types
<1>5. Types'
  <2>1. outbox' \in Seq(Message) BY <1>1, <1>4 DEF Message
  <2> QED BY <1>1, <1>3, <2>1 DEF Types
<1>6. (Told' <=> Told) /\ (Once(outbox, {"stopped"}) => Once(outbox', {"stopped"}))
  <2>1. "terminated" \notin {"stopped"} OBVIOUS
  <2> QED BY <1>1, <1>4, <2>1, Appended DEF Told
<1>7. Token => Token' BY <1>1, <1>2, <1>6 DEF Token
<1>8. Token /\ Paused => Paused' BY <1>1, <1>2 DEF Token, Paused
<1>9. Stepping => Stepping' BY <1>1, <1>2 DEF Stepping
<1>10. Session' BY <1>1, <1>2, <1>3, <1>7, <1>8, <1>9 DEF Session
<1>11. Room'
  <2>1. Len(outbox') = Len(outbox) + 1 /\ Len(outbox) \in Nat /\ Len(inbox) \in Nat
    BY <1>1, <1>4
  <2> QED BY <1>1, <1>2, <1>3, <2>1 DEF Room, Pending, Coming, One, Active
<1> QED BY <1>2, <1>5, <1>10, <1>11 DEF DebuggerInv

-----------------------------------------------------------------------------
(* The IO thread. *)

LEMMA StartStep == DebuggerInv /\ Start => DebuggerInv'
<1> SUFFICES ASSUME DebuggerInv, Start PROVE DebuggerInv'
  OBVIOUS
<1>1. /\ iopc = "start" /\ iopc' = "respond" /\ mode' \in {"running", "pause_requested"}
      /\ epc' = "run" /\ depth' = 1
      /\ UNCHANGED <<breakpoints, stepDepth, resumeEvent, line, io, done, inbox, outbox, view, last>>
  BY DEF Start, HandleNext, client
<1>2. Types /\ Session /\ Room /\ Requests BY DEF DebuggerInv
<1>3. epc = "off" BY <1>1, <1>2 DEF Requests
<1>4. ~Handling(Resuming) /\ ~Handling(Resuming)' /\ ~Handling({"disconnect"})
      /\ ~Handling({"disconnect"})'
  BY <1>1 DEF Handling
<1>5. /\ (Asked' <=> Asked) /\ (Leaving' <=> Leaving) /\ (Told' <=> Told) /\ ~ModeSet /\ ~ModeSet'
      /\ (Present => Present')
  BY <1>1, <1>4 DEF Asked, Leaving, Told, ModeSet, Present
<1>6. Types'
  <2>1. depth' \in 0 .. MaxDepth BY <1>1, DebuggerAssumption
  <2> QED BY <1>1, <1>2, <2>1 DEF Types, Mode
<1>7. Requests' BY <1>1, <1>2, <1>4 DEF Requests
<1>8. Token => Token' BY <1>1, <1>3, <1>5 DEF Token
<1>9. Paused' BY <1>1, <1>5 DEF Paused
<1>10. Token /\ Stepping => Stepping' BY <1>1, <1>3, <1>4, <1>5 DEF Token, Stepping, Steps
<1>11. Session' BY <1>1, <1>2, <1>5, <1>8, <1>9, <1>10 DEF Session
<1>12. Room' BY <1>1, <1>2, <1>3, <1>5 DEF Room, Pending, Coming, One, Active
<1> QED BY <1>6, <1>7, <1>11, <1>12 DEF DebuggerInv

LEMMA HandleRequestStep == DebuggerInv /\ HandleRequest => DebuggerInv'
<1> SUFFICES ASSUME DebuggerInv, HandleRequest PROVE DebuggerInv'
  OBVIOUS
<1>1. /\ iopc = "idle" /\ inbox # <<>> /\ io' = Head(inbox) /\ inbox' = Tail(inbox)
      /\ iopc' = FirstStep(Head(inbox))
      /\ UNCHANGED <<breakpoints, mode, stepDepth, resumeEvent, epc, depth, line>>
      /\ UNCHANGED <<done, outbox, view, last>>
  BY DEF HandleRequest, debugger, program, client
<1>2. Types /\ Session /\ Room /\ Requests BY DEF DebuggerInv
<1>3. inbox \in Seq(Command) BY <1>2 DEF Types
<1>4. /\ inbox' \in Seq(Command) /\ io' \in Command /\ Len(inbox') = Len(inbox) - 1
      /\ Len(inbox) \in Nat /\ Len(inbox') \in Nat
  BY <1>1, <1>3, Taken
<1>5. \A S : (Has(inbox, S) <=> io' \in S \/ Has(inbox', S))
  BY <1>1, <1>3, Taken
<1>6. \A S : Once(inbox, S) => Once(inbox', S) /\ (io' \in S => ~Has(inbox', S))
  BY <1>1, <1>3, Taken
<1>7. /\ io' \notin {"configurationDone"} /\ ~Has(inbox', {"configurationDone"})
      /\ io' \in Resuming \cup {"pause", "setBreakpoints", "disconnect"}
  BY <1>2, <1>4, <1>5 DEF Requests, Command
<1>8. /\ io' \in Resuming \cup {"disconnect"} => iopc' = "mode"
      /\ io' = "pause" => iopc' = "ask"
      /\ io' = "setBreakpoints" => iopc' = "lines"
  BY <1>1 DEF FirstStep, Resuming
<1>9. iopc' \in {"mode", "ask", "lines"} BY <1>7, <1>8
<1>10. /\ Handling(Resuming)' <=> io' \in Resuming
       /\ Handling({"disconnect"})' <=> io' = "disconnect"
       /\ ~Handling(Resuming) /\ ~Handling({"disconnect"})
  BY <1>1, <1>8 DEF Handling
<1>11. (Asked' <=> Asked) /\ (Leaving' <=> Leaving) /\ (Told' <=> Told) /\ ~ModeSet /\ ~ModeSet'
  BY <1>1, <1>5, <1>9, <1>10 DEF Asked, Leaving, Told, ModeSet, Handling
<1>12. Present => Present' BY <1>1, <1>5 DEF Present
<1>13. Types'
  <2>1. Len(inbox') <= MaxQueue BY <1>2, <1>4, DebuggerAssumption DEF Types
  <2> QED BY <1>1, <1>2, <1>4, <1>9, <2>1 DEF Types
<1>14. Requests'
  <2>1. Once(inbox', Resuming) /\ Once(inbox', {"disconnect"}) BY <1>2, <1>6 DEF Requests
  <2>2. /\ Handling(Resuming)' => ~Has(inbox', Resuming)
        /\ Handling({"disconnect"})' => ~Has(inbox', {"disconnect"})
    BY <1>2, <1>6, <1>10 DEF Requests
  <2>3. iopc' \in {"mode", "event"} => io' \in Resuming \cup {"disconnect"}
    BY <1>7, <1>8, <1>9
  <2>4. iopc' # "depth" /\ iopc' # "start" /\ epc' # "off" BY <1>1, <1>2, <1>9 DEF Requests
  <2> QED BY <1>7, <2>1, <2>2, <2>3, <2>4 DEF Requests
<1>15. Token => Token' BY <1>1, <1>11 DEF Token
<1>16. Paused => Paused' BY <1>1, <1>11 DEF Paused
<1>17. Stepping => Stepping'
  <2> SUFFICES ASSUME Stepping PROVE Stepping'
    OBVIOUS
  <2>1. \A i \in 1 .. Len(inbox) : inbox[i] \in Resuming => inbox[i] = last.cmd BY DEF Stepping
  <2>2. \A i \in 1 .. Len(inbox') : i + 1 \in 1 .. Len(inbox) /\ inbox'[i] = inbox[i + 1]
    BY <1>1, <1>3, Taken
  <2>3. io' = inbox[1] /\ 1 \in 1 .. Len(inbox) BY <1>1, <1>3
  <2>4. Handling(Resuming)' => io' = last.cmd BY <1>10, <2>1, <2>3
  <2> QED BY <1>1, <1>11, <2>1, <2>2, <2>4 DEF Stepping
<1>18. Session' BY <1>1, <1>2, <1>12, <1>15, <1>16, <1>17 DEF Session
<1>19. Room'
  <2>1. One(iopc # "idle") = 0 /\ One(iopc # "idle")' = 1 BY <1>1, <1>9 DEF One
  <2>2. Len(outbox) \in Nat BY <1>2 DEF Types
  <2>3. Pending' = Pending BY <1>1, <1>4, <2>1, <2>2 DEF Pending
  <2>4. Coming' = Coming BY <1>1, <1>11 DEF Coming, One, Active
  <2> QED BY <1>1, <1>2, <2>3, <2>4 DEF Room, One
<1> QED BY <1>13, <1>14, <1>18, <1>19 DEF DebuggerInv

LEMMA SetModeStep == DebuggerInv /\ SetMode => DebuggerInv'
<1> SUFFICES ASSUME DebuggerInv, SetMode PROVE DebuggerInv'
  OBVIOUS
<1>1. /\ iopc = "mode" /\ mode' = ModeOf[io]
      /\ iopc' = IF io \in {"next", "stepOut"} THEN "depth" ELSE "event"
      /\ UNCHANGED <<breakpoints, stepDepth, resumeEvent, epc, depth, line>>
      /\ UNCHANGED <<io, done, inbox, outbox, view, last>>
  BY DEF SetMode, HandleNext, program, client
<1>2. Types /\ Session /\ Room /\ Requests BY DEF DebuggerInv
<1>3. io \in Resuming \cup {"disconnect"} BY <1>1, <1>2 DEF Requests
<1>4. /\ mode' \in {"running"} \cup Steps
      /\ mode' \in {"step_over", "step_out"} => io \in {"next", "stepOut"}
  BY <1>1, <1>3 DEF ModeOf, Resuming, Steps
<1>5. /\ Handling(Resuming)' <=> Handling(Resuming)
      /\ Handling({"disconnect"})' <=> Handling({"disconnect"})
  BY <1>1 DEF Handling
<1>6. /\ (Asked' <=> Asked) /\ (Leaving' <=> Leaving) /\ (Told' <=> Told)
      /\ (Present => Present')
  BY <1>1, <1>5 DEF Asked, Leaving, Told, Present
<1>7. Types' BY <1>1, <1>2, <1>4 DEF Types, Mode, Steps
<1>8. Requests' BY <1>1, <1>2, <1>3, <1>5 DEF Requests
<1>9. Token => Token' BY <1>1, <1>6 DEF Token
<1>10. Present => Handling(Resuming) /\ ModeSet'
  BY <1>1, <1>3 DEF Present, ModeSet, Handling
<1>11. Present => Paused' BY <1>4, <1>10 DEF Paused, Steps
<1>12. Present /\ Stepping => Stepping'
  BY <1>1, <1>4, <1>5, <1>6, <1>10 DEF Stepping
<1>13. Session' BY <1>1, <1>2, <1>6, <1>9, <1>11, <1>12 DEF Session
<1>14. Room' BY <1>1, <1>2, <1>6 DEF Room, Pending, Coming, One, Active
<1> QED BY <1>7, <1>8, <1>13, <1>14 DEF DebuggerInv

LEMMA SetDepthStep == DebuggerInv /\ SetDepth => DebuggerInv'
<1> SUFFICES ASSUME DebuggerInv, SetDepth PROVE DebuggerInv'
  OBVIOUS
<1>1. /\ iopc = "depth" /\ iopc' = "event" /\ stepDepth' = depth
      /\ UNCHANGED <<breakpoints, mode, resumeEvent, epc, depth, line>>
      /\ UNCHANGED <<io, done, inbox, outbox, view, last>>
  BY DEF SetDepth, HandleNext, program, client
<1>2. Types /\ Session /\ Room /\ Requests BY DEF DebuggerInv
<1>3. io \in {"next", "stepOut"} BY <1>1, <1>2 DEF Requests
<1>4. /\ Handling(Resuming) /\ Handling(Resuming)' /\ ModeSet /\ ModeSet' /\ Asked
      /\ ~Handling({"disconnect"}) /\ ~Handling({"disconnect"})'
  BY <1>1, <1>3 DEF Handling, Resuming, ModeSet, Asked
<1>5. /\ (Asked' <=> Asked) /\ (Leaving' <=> Leaving) /\ (Told' <=> Told)
      /\ (Present => Present')
  BY <1>1, <1>4 DEF Asked, Leaving, Told, Present
<1>6. Types' BY <1>1, <1>2 DEF Types
<1>7. Requests' BY <1>1, <1>2, <1>3, <1>4 DEF Requests, Resuming
<1>8. Token => Token' BY <1>1, <1>5 DEF Token
<1>9. Paused => Paused' BY <1>1, <1>4 DEF Paused
<1>10. Stepping => Stepping' BY <1>1, <1>3, <1>4, <1>5 DEF Stepping
<1>11. Session' BY <1>1, <1>2, <1>5, <1>8, <1>9, <1>10 DEF Session
<1>12. Room' BY <1>1, <1>2, <1>5 DEF Room, Pending, Coming, One, Active
<1> QED BY <1>6, <1>7, <1>11, <1>12 DEF DebuggerInv

LEMMA SetEventStep == DebuggerInv /\ SetEvent => DebuggerInv'
<1> SUFFICES ASSUME DebuggerInv, SetEvent PROVE DebuggerInv'
  OBVIOUS
<1>1. /\ iopc = "event" /\ iopc' = "respond" /\ resumeEvent' = TRUE
      /\ UNCHANGED <<breakpoints, mode, stepDepth, epc, depth, line>>
      /\ UNCHANGED <<io, done, inbox, outbox, view, last>>
  BY DEF SetEvent, HandleNext, program, client
<1>2. Types /\ Session /\ Room /\ Requests BY DEF DebuggerInv
<1>3. io \in Resuming \cup {"disconnect"} BY <1>1, <1>2 DEF Requests
<1>4. ~Handling(Resuming)' /\ ~Handling({"disconnect"})' /\ ~ModeSet'
  BY <1>1 DEF Handling, ModeSet
<1>5. /\ io \in Resuming => Handling(Resuming) /\ ModeSet /\ Asked /\ ~Has(inbox, Resuming)
      /\ io = "disconnect" => Handling({"disconnect"}) /\ Leaving /\ ~Has(inbox, {"disconnect"})
  BY <1>1, <1>2 DEF Handling, ModeSet, Asked, Leaving, Requests
<1>6. /\ (Asked' => Asked) /\ (Leaving' => Leaving) /\ (Told' <=> Told)
      /\ io \in Resuming => ~Asked'
      /\ io = "disconnect" => ~Leaving'
      /\ Present => Present' /\ io \in Resuming
  BY <1>1, <1>3, <1>4, <1>5 DEF Asked, Leaving, Told, Present
<1>7. Types' BY <1>1, <1>2 DEF Types
<1>8. Requests' BY <1>1, <1>2, <1>4 DEF Requests
<1>9. Present /\ Token => Token' BY <1>1, <1>5, <1>6 DEF Token
<1>10. Present /\ Paused => Paused' BY <1>1, <1>5, <1>6 DEF Paused
<1>11. Stepping => Stepping' BY <1>1, <1>4, <1>6 DEF Stepping
<1>12. Session' BY <1>1, <1>2, <1>6, <1>9, <1>10, <1>11 DEF Session
<1>13. Room'
  <2>1. Pending' = Pending BY <1>1 DEF Pending, One
  <2>2. One(Active \/ epc = "clear")' = One(Active \/ epc = "clear") BY <1>1 DEF One, Active
  <2>3. One(resumeEvent /\ epc # "clear")' \in {0, 1} /\ One(resumeEvent /\ epc # "clear") \in {0, 1}
    BY DEF One
  <2>4. One(Asked)' + One(Leaving)' <= One(Asked) + One(Leaving) - 1
    BY <1>3, <1>5, <1>6 DEF One
  <2>5. Coming' <= Coming
    <3>1. /\ One(Active \/ epc = "clear") \in {0, 1} /\ One(Asked) \in {0, 1} /\ One(Leaving) \in {0, 1}
          /\ One(Asked)' \in {0, 1} /\ One(Leaving)' \in {0, 1}
      BY DEF One
    <3> QED BY <2>2, <2>3, <2>4, <3>1 DEF Coming
  <2>6. Coming \in Nat /\ Coming' \in Nat BY DEF Coming, One
  <2>7. Pending \in Nat BY <1>2 DEF Types, Pending, One
  <2>8. One(view = "ended")' = One(view = "ended") /\ One(view = "ended") \in {0, 1} BY <1>1 DEF One
  <2>9. MaxQueue \in Nat BY DebuggerAssumption
  <2> QED BY <1>2, <2>1, <2>5, <2>6, <2>7, <2>8, <2>9 DEF Room
<1> QED BY <1>7, <1>8, <1>12, <1>13 DEF DebuggerInv

\* The requests that do not resume the program change the breakpoints or ask for a pause.
LEMMA AskSteps == DebuggerInv /\ (PauseLook \/ PauseRequest \/ SetBreakpoints) => DebuggerInv'
<1> SUFFICES ASSUME DebuggerInv, PauseLook \/ PauseRequest \/ SetBreakpoints PROVE DebuggerInv'
  OBVIOUS
<1>1. /\ iopc \in {"ask", "request", "lines"} /\ iopc' \in {"respond", "request"}
      /\ mode' = mode \/ mode' = "pause_requested"
      /\ UNCHANGED <<stepDepth, resumeEvent, epc, depth, line>>
      /\ UNCHANGED <<io, done, inbox, outbox, view, last>>
  BY DEF PauseLook, PauseRequest, SetBreakpoints, HandleNext, debugger, program, client
<1>2. Types /\ Session /\ Room /\ Requests BY DEF DebuggerInv
<1>3. breakpoints' \subseteq Line
  BY <1>2 DEF PauseLook, PauseRequest, SetBreakpoints, debugger, Types
<1>4. ~Handling(Resuming) /\ ~Handling({"disconnect"}) /\ ~Handling(Resuming)'
      /\ ~Handling({"disconnect"})'
  BY <1>1 DEF Handling
<1>5. /\ (Asked' <=> Asked) /\ (Leaving' <=> Leaving) /\ (Told' <=> Told) /\ ~ModeSet /\ ~ModeSet'
      /\ (Present => Present')
  BY <1>1, <1>4 DEF Asked, Leaving, Told, Present, ModeSet
<1>6. Types' BY <1>1, <1>2, <1>3 DEF Types, Mode
<1>7. Requests' BY <1>1, <1>2, <1>4 DEF Requests
<1>8. Token => Token' BY <1>1, <1>5 DEF Token
<1>9. Paused => Paused' BY <1>1, <1>5 DEF Paused
<1>10. Stepping => Stepping' BY <1>1, <1>4, <1>5 DEF Stepping, Steps
<1>11. Session' BY <1>1, <1>2, <1>5, <1>8, <1>9, <1>10 DEF Session
<1>12. Room' BY <1>1, <1>2, <1>5 DEF Room, Pending, Coming, One, Active
<1> QED BY <1>6, <1>7, <1>11, <1>12 DEF DebuggerInv

LEMMA RespondStep == DebuggerInv /\ Respond => DebuggerInv'
<1> SUFFICES ASSUME DebuggerInv, Respond PROVE DebuggerInv'
  OBVIOUS
<1>1. /\ iopc = "respond" /\ iopc' = "idle" /\ done' = (io = "disconnect")
      /\ outbox' = Append(outbox, IF io \in Resuming THEN "resumed" ELSE "done")
      /\ UNCHANGED <<breakpoints, mode, stepDepth, resumeEvent, epc, depth, line>>
      /\ UNCHANGED <<io, inbox, view, last>>
  BY DEF Respond, Post, HandleNext, debugger, program, client
<1>2. Types /\ Session /\ Room /\ Requests BY DEF DebuggerInv
<1>3. outbox \in Seq(Message) /\ inbox \in Seq(Command) BY <1>2 DEF Types
<1>4. PICK message \in {"resumed", "done"} : outbox' = Append(outbox, message) BY <1>1
<1>5. /\ outbox' \in Seq(Message) /\ Len(outbox') = Len(outbox) + 1
      /\ Len(outbox) \in Nat /\ Len(inbox) \in Nat
  BY <1>3, <1>4 DEF Message
<1>6. (Told' <=> Told) /\ (Once(outbox, {"stopped"}) => Once(outbox', {"stopped"}))
  <2>1. message \notin {"stopped"} OBVIOUS
  <2> QED BY <1>3, <1>4, <2>1, Appended DEF Told
<1>7. ~Handling(Resuming) /\ ~Handling({"disconnect"}) /\ ~Handling(Resuming)'
      /\ ~Handling({"disconnect"})'
  BY <1>1 DEF Handling
<1>8. /\ (Asked' <=> Asked) /\ (Leaving' <=> Leaving) /\ ~ModeSet /\ ~ModeSet'
      /\ (Present => Present')
  BY <1>1, <1>7 DEF Asked, Leaving, Present, ModeSet
<1>9. Types'
  <2>1. done' \in BOOLEAN BY <1>1, ZenonT(30)
  <2> QED BY <1>1, <1>2, <1>5, <2>1 DEF Types
<1>10. Requests' BY <1>1, <1>2, <1>7 DEF Requests
<1>11. Token => Token' BY <1>1, <1>6, <1>8 DEF Token
<1>12. Paused => Paused' BY <1>1, <1>8 DEF Paused
<1>13. Stepping => Stepping' BY <1>1, <1>7, <1>8 DEF Stepping
<1>14. Session' BY <1>1, <1>2, <1>8, <1>11, <1>12, <1>13 DEF Session
<1>15. Room'
  <2>1. Pending' = Pending BY <1>1, <1>5 DEF Pending, One
  <2>2. Coming' = Coming BY <1>1, <1>8 DEF Coming, One, Active
  <2> QED BY <1>1, <1>2, <2>1, <2>2 DEF Room, One
<1> QED BY <1>9, <1>10, <1>14, <1>15 DEF DebuggerInv

-----------------------------------------------------------------------------
(* The client. *)

\* A request is sent to a queue that has room for it.
LEMMA Sent == ASSUME DebuggerInv, NEW c \in Command, Send(c)
              PROVE  /\ inbox' = Append(inbox, c) /\ view # "ended"
                     /\ inbox' \in Seq(Command) /\ Len(inbox') <= MaxQueue
                     /\ Pending' \in Nat /\ Pending' <= MaxQueue + 1
                     /\ UNCHANGED <<breakpoints, mode, stepDepth, resumeEvent, epc, depth, line>>
                     /\ UNCHANGED <<io, iopc, done, outbox>>
                     /\ \A S : Handling(S)' <=> Handling(S)
<1>1. /\ inbox' = Append(inbox, c) /\ view # "ended" /\ Len(inbox) + Len(outbox) < MaxQueue
      /\ UNCHANGED <<breakpoints, mode, stepDepth, resumeEvent, epc, depth, line>>
      /\ UNCHANGED <<io, iopc, done, outbox>>
  BY DEF Send, debugger, program, server
<1>2. inbox \in Seq(Command) /\ outbox \in Seq(Message) BY DEF DebuggerInv, Types
<1>3. /\ inbox' \in Seq(Command) /\ Len(inbox') = Len(inbox) + 1 /\ Len(inbox) \in Nat
      /\ Len(outbox') = Len(outbox) /\ Len(outbox) \in Nat
  BY <1>1, <1>2
<1>4. MaxQueue \in Nat BY DebuggerAssumption
<1>5. One(iopc # "idle")' \in {0, 1} BY DEF One
<1>6. Len(inbox') <= MaxQueue BY <1>1, <1>3, <1>4
<1>7. Pending' \in Nat /\ Pending' <= MaxQueue + 1 BY <1>1, <1>3, <1>4, <1>5 DEF Pending
<1>8. \A S : Handling(S)' <=> Handling(S) BY <1>1 DEF Handling
<1> QED BY <1>1, <1>3, <1>6, <1>7, <1>8

\* Of one who has not left, at most one message more is coming.
LEMMA OneComing == DebuggerInv /\ view # "ended" => Coming \in {0, 1} /\ ~Leaving
<1> SUFFICES ASSUME DebuggerInv, view # "ended" PROVE Coming \in {0, 1} /\ ~Leaving
  OBVIOUS
<1>1. Token /\ Present BY DEF DebuggerInv, Session
<1>2. ~Leaving BY <1>1 DEF Present, Leaving, Handling
<1> QED BY <1>1, <1>2 DEF Token, Coming, One, Active

LEMMA ResumeStep == DebuggerInv /\ Resume => DebuggerInv'
<1> SUFFICES ASSUME DebuggerInv, Resume PROVE DebuggerInv'
  OBVIOUS
<1>1. PICK c \in Resuming :
        /\ Send(c)
        /\ last' = [cmd |-> c, depth |-> IF c \in {"next", "stepOut"} THEN depth ELSE 0]
  BY DEF Resume
<1>2. view = "stopped" /\ view' = "asked" /\ c \in Command BY DEF Resume, Command
<1>3. /\ inbox' = Append(inbox, c) /\ inbox' \in Seq(Command) /\ Len(inbox') <= MaxQueue
      /\ Pending' \in Nat /\ Pending' <= MaxQueue + 1
      /\ UNCHANGED <<breakpoints, mode, stepDepth, resumeEvent, epc, depth, line>>
      /\ UNCHANGED <<io, iopc, done, outbox>>
      /\ \A S : Handling(S)' <=> Handling(S)
  BY <1>1, <1>2, Sent
<1>4. Types /\ Requests /\ Token /\ Present /\ Paused /\ Stepping
  BY <1>2 DEF DebuggerInv, Session
<1>5. epc = "wait" /\ ~resumeEvent /\ ~Asked /\ ~Told BY <1>2, <1>4 DEF Token
<1>6. c \notin {"disconnect", "configurationDone"} BY DEF Resuming
<1>7. inbox \in Seq(Command) BY <1>4 DEF Types
<1>8. /\ Handling(Resuming)' <=> Handling(Resuming)
      /\ Handling({"disconnect"})' <=> Handling({"disconnect"})
  BY <1>3
<1>9. ~Has(inbox, Resuming) /\ ~Handling(Resuming) /\ ~Handling(Resuming)'
  BY <1>5, <1>8 DEF Asked
<1>10. /\ Has(inbox', Resuming) /\ Once(inbox', Resuming)
       /\ Has(inbox', {"disconnect"}) <=> Has(inbox, {"disconnect"})
       /\ Has(inbox', {"configurationDone"}) <=> Has(inbox, {"configurationDone"})
       /\ Once(inbox, {"disconnect"}) => Once(inbox', {"disconnect"})
  <2>1. Once(inbox, Resuming) BY <1>4 DEF Requests
  <2>2. /\ c \in Resuming /\ c \notin {"disconnect"} /\ c \notin {"configurationDone"}
    BY <1>6
  <2>3. Has(inbox', Resuming) /\ Once(inbox', Resuming)
    BY <1>3, <1>7, <1>9, <2>1, <2>2, Appended
  <2>4. /\ Has(inbox', {"disconnect"}) <=> Has(inbox, {"disconnect"})
        /\ Once(inbox, {"disconnect"}) => Once(inbox', {"disconnect"})
    BY <1>3, <1>7, <2>2, Appended
  <2>5. Has(inbox', {"configurationDone"}) <=> Has(inbox, {"configurationDone"})
    BY <1>3, <1>7, <2>2, Appended
  <2> QED BY <2>3, <2>4, <2>5
<1>11. /\ Asked' /\ (Leaving' <=> Leaving) /\ (Told' <=> Told) /\ Present' /\ ~ModeSet /\ ~ModeSet'
  BY <1>3, <1>4, <1>8, <1>9, <1>10 DEF Asked, Leaving, Told, Present, ModeSet
<1>12. Types'
  <2>1. depth \in 0 .. MaxDepth /\ 0 \in 0 .. MaxDepth BY <1>4, DebuggerAssumption DEF Types
  <2>2. last' \in [cmd : Resuming, depth : 0 .. MaxDepth] BY <1>1, <2>1
  <2> QED BY <1>2, <1>3, <1>4, <2>2 DEF Types
<1>13. Requests' BY <1>3, <1>4, <1>8, <1>9, <1>10 DEF Requests
<1>14. Token' BY <1>2, <1>3, <1>4, <1>5, <1>11 DEF Token
<1>15. Paused' BY <1>3, <1>4, <1>11 DEF Paused
<1>16. Stepping'
  <2>1. mode' \notin Steps BY <1>3, <1>4, <1>5, <1>11 DEF Paused, Steps
  <2>2. last'.cmd = c /\ (c \in {"next", "stepOut"} => last'.depth = depth) BY <1>1
  <2>3. ASSUME NEW i \in 1 .. Len(inbox'), inbox'[i] \in Resuming PROVE inbox'[i] = c
    <3>1. Len(inbox') = Len(inbox) + 1 /\ inbox'[Len(inbox) + 1] = c /\ Len(inbox) \in Nat
      BY <1>3, <1>7
    <3>2. CASE i = Len(inbox) + 1 BY <3>1, <3>2
    <3>3. CASE i # Len(inbox) + 1
      <4>1. i \in 1 .. Len(inbox) BY <3>1, <3>3
      <4>2. inbox'[i] = inbox[i] BY <1>3, <1>7, <4>1
      <4> QED BY <1>9, <2>3, <4>1, <4>2 DEF Has
    <3> QED BY <3>2, <3>3
  <2> QED BY <1>3, <1>9, <2>1, <2>2, <2>3 DEF Stepping, Steps
<1>17. Session' BY <1>11, <1>14, <1>15, <1>16 DEF Session
<1>18. Room'
  <2>1. ~Leaving BY <1>2, OneComing
  <2>2. Coming' = 1 BY <1>3, <1>5, <1>11, <2>1 DEF Coming, One, Active
  <2>3. One(view = "ended")' = 0 BY <1>2 DEF One
  <2> QED BY <1>3, <2>2, <2>3, DebuggerAssumption DEF Room
<1> QED BY <1>12, <1>13, <1>17, <1>18 DEF DebuggerInv

LEMMA AskStep == DebuggerInv /\ Ask => DebuggerInv'
<1> SUFFICES ASSUME DebuggerInv, Ask PROVE DebuggerInv'
  OBVIOUS
<1>1. PICK c \in {"pause", "setBreakpoints"} : Send(c) BY DEF Ask
<1>2. UNCHANGED <<view, last>> /\ c \in Command BY DEF Ask, client, Command
<1>3. /\ inbox' = Append(inbox, c) /\ inbox' \in Seq(Command) /\ Len(inbox') <= MaxQueue
      /\ Pending' \in Nat /\ Pending' <= MaxQueue + 1 /\ view # "ended"
      /\ UNCHANGED <<breakpoints, mode, stepDepth, resumeEvent, epc, depth, line>>
      /\ UNCHANGED <<io, iopc, done, outbox>>
      /\ \A S : Handling(S)' <=> Handling(S)
  BY <1>1, <1>2, Sent
<1>4. Types /\ Requests /\ Token /\ Present /\ Paused /\ Stepping
  BY <1>3 DEF DebuggerInv, Session
<1>5. inbox \in Seq(Command) BY <1>4 DEF Types
<1>6. c \notin Resuming /\ c \notin {"disconnect"} /\ c \notin {"configurationDone"} BY DEF Resuming
<1>7. /\ Handling(Resuming)' <=> Handling(Resuming)
      /\ Handling({"disconnect"})' <=> Handling({"disconnect"})
  BY <1>3
<1>8. /\ Has(inbox', Resuming) <=> Has(inbox, Resuming)
      /\ Has(inbox', {"disconnect"}) <=> Has(inbox, {"disconnect"})
      /\ Has(inbox', {"configurationDone"}) <=> Has(inbox, {"configurationDone"})
  BY <1>3, <1>5, <1>6, Appended
<1>9. /\ Once(inbox, Resuming) => Once(inbox', Resuming)
      /\ Once(inbox, {"disconnect"}) => Once(inbox', {"disconnect"})
  BY <1>3, <1>5, <1>6, Appended
<1>10. /\ (Asked' <=> Asked) /\ (Leaving' <=> Leaving) /\ (Told' <=> Told) /\ Present'
       /\ (ModeSet' <=> ModeSet)
  BY <1>3, <1>4, <1>7, <1>8 DEF Asked, Leaving, Told, Present, ModeSet
<1>11. Types' BY <1>2, <1>3, <1>4 DEF Types
<1>12. Requests' BY <1>3, <1>4, <1>7, <1>8, <1>9 DEF Requests
<1>13. Token' BY <1>2, <1>3, <1>4, <1>10 DEF Token
<1>14. Paused' BY <1>3, <1>4, <1>10 DEF Paused
<1>15. Stepping'
  <2>1. ASSUME NEW i \in 1 .. Len(inbox'), inbox'[i] \in Resuming PROVE inbox'[i] = last.cmd
    <3>1. Len(inbox') = Len(inbox) + 1 /\ inbox'[Len(inbox) + 1] = c /\ Len(inbox) \in Nat
      BY <1>3, <1>5
    <3>2. i # Len(inbox) + 1 BY <1>6, <2>1, <3>1
    <3>3. i \in 1 .. Len(inbox) BY <3>1, <3>2
    <3>4. inbox'[i] = inbox[i] BY <1>3, <1>5, <3>3
    <3> QED BY <1>4, <2>1, <3>3, <3>4 DEF Stepping
  <2> QED BY <1>2, <1>3, <1>4, <1>7, <1>10, <2>1 DEF Stepping
<1>16. Session' BY <1>10, <1>13, <1>14, <1>15 DEF Session
<1>17. Room'
  <2>1. Coming \in {0, 1} BY <1>3, OneComing
  <2>2. Coming' = Coming BY <1>3, <1>10 DEF Coming, One, Active
  <2>3. One(view = "ended")' = 0 BY <1>2, <1>3 DEF One
  <2> QED BY <1>3, <2>1, <2>2, <2>3, DebuggerAssumption DEF Room
<1> QED BY <1>11, <1>12, <1>16, <1>17 DEF DebuggerInv

LEMMA DisconnectStep == DebuggerInv /\ Disconnect => DebuggerInv'
<1> SUFFICES ASSUME DebuggerInv, Disconnect PROVE DebuggerInv'
  OBVIOUS
<1>1. Send("disconnect") /\ view' = "ended" /\ last' = Nothing /\ "disconnect" \in Command
  BY DEF Disconnect, Command
<1>2. /\ inbox' = Append(inbox, "disconnect") /\ inbox' \in Seq(Command) /\ Len(inbox') <= MaxQueue
      /\ Pending' \in Nat /\ Pending' <= MaxQueue + 1 /\ view # "ended"
      /\ UNCHANGED <<breakpoints, mode, stepDepth, resumeEvent, epc, depth, line>>
      /\ UNCHANGED <<io, iopc, done, outbox>>
      /\ \A S : Handling(S)' <=> Handling(S)
  BY <1>1, Sent
<1>3. Types /\ Requests /\ Token /\ Present BY <1>2 DEF DebuggerInv, Session
<1>4. inbox \in Seq(Command) BY <1>3 DEF Types
<1>5. "disconnect" \notin Resuming /\ "disconnect" \notin {"configurationDone"} BY DEF Resuming
<1>6. /\ Handling(Resuming)' <=> Handling(Resuming)
      /\ Handling({"disconnect"})' <=> Handling({"disconnect"})
  BY <1>2
<1>7. /\ Has(inbox', Resuming) <=> Has(inbox, Resuming)
      /\ Has(inbox', {"configurationDone"}) <=> Has(inbox, {"configurationDone"})
  BY <1>2, <1>4, <1>5, Appended
<1>8. /\ Once(inbox, Resuming) => Once(inbox', Resuming)
      /\ Once(inbox, {"disconnect"}) /\ ~Has(inbox, {"disconnect"}) => Once(inbox', {"disconnect"})
  BY <1>2, <1>4, <1>5, Appended
<1>9. ~Has(inbox, {"disconnect"}) /\ ~Handling({"disconnect"}) /\ ~Handling({"disconnect"})'
  BY <1>3, <1>6 DEF Present, Handling
<1>10. Types'
  <2>1. 0 \in 0 .. MaxDepth BY DebuggerAssumption
  <2>2. last' \in [cmd : Resuming, depth : 0 .. MaxDepth] BY <1>1, <2>1 DEF Nothing, Resuming
  <2> QED BY <1>1, <1>2, <1>3, <2>2 DEF Types
<1>11. Requests' BY <1>2, <1>3, <1>6, <1>7, <1>8, <1>9 DEF Requests
<1>12. Session' BY <1>1 DEF Session
<1>13. Room'
  <2>1. Coming \in {0, 1} BY <1>2, OneComing
  <2>2. Asked' <=> Asked BY <1>6, <1>7 DEF Asked
  <2>3. Coming' \in Nat /\ Coming' <= 2 BY <1>2, <2>1, <2>2 DEF Coming, One, Active
  <2>4. One(view = "ended")' = 1 BY <1>1 DEF One
  <2> QED BY <1>2, <2>3, <2>4, DebuggerAssumption DEF Room
<1> QED BY <1>10, <1>11, <1>12, <1>13 DEF DebuggerInv

LEMMA ReceiveStep == DebuggerInv /\ Receive => DebuggerInv'
<1> SUFFICES ASSUME DebuggerInv, Receive PROVE DebuggerInv'
  OBVIOUS
<1>1. /\ outbox # <<>> /\ outbox' = Tail(outbox)
      /\ view = "ended" <=> view' = "ended"
      /\ view' \in {"running", "stopped", "asked", "over", "ended"}
      /\ view' = "stopped" => Head(outbox) = "stopped" \/ view = "stopped"
      /\ UNCHANGED <<breakpoints, mode, stepDepth, resumeEvent, epc, depth, line>>
      /\ UNCHANGED <<io, iopc, done, inbox, last>>
  <2>1. view \in {"running", "stopped", "asked", "over", "ended"} BY DEF DebuggerInv, Types
  <2>2. view' = IF view = "ended" THEN "ended" ELSE
                  CASE Head(outbox) = "stopped"                    -> "stopped"
                    [] Head(outbox) = "terminated"                 -> "over"
                    [] Head(outbox) = "resumed" /\ view # "over"   -> "running"
                    [] OTHER                                       -> view
    BY DEF Receive
  <2>3. CASE view = "ended"
    <3>1. view' = "ended" BY <2>2, <2>3
    <3> QED BY <2>3, <3>1 DEF Receive, debugger, program, server
  <2>4. CASE view # "ended"
    <3>1. /\ view' \in {"running", "stopped", "asked", "over"}
          /\ view' = "stopped" => Head(outbox) = "stopped" \/ view = "stopped"
      BY <2>1, <2>2, <2>4
    <3> QED BY <2>4, <3>1 DEF Receive, debugger, program, server
  <2> QED BY <2>3, <2>4
<1>2. Types /\ Session /\ Room /\ Requests BY DEF DebuggerInv
<1>3. outbox \in Seq(Message) BY <1>2 DEF Types
<1>4. /\ outbox' \in Seq(Message) /\ Len(outbox') = Len(outbox) - 1 /\ Len(outbox) \in Nat
      /\ Len(outbox') \in Nat
  BY <1>1, <1>3, Taken
<1>5. /\ Told <=> Head(outbox) \in {"stopped"} \/ Told'
      /\ Once(outbox, {"stopped"}) => Once(outbox', {"stopped"})
      /\ Once(outbox, {"stopped"}) /\ Head(outbox) \in {"stopped"} => ~Told'
  BY <1>1, <1>3, Taken DEF Told
<1>6. /\ Handling(Resuming)' <=> Handling(Resuming)
      /\ Handling({"disconnect"})' <=> Handling({"disconnect"})
  BY <1>1 DEF Handling
<1>7. /\ (Asked' <=> Asked) /\ (Leaving' <=> Leaving) /\ (Present => Present')
      /\ (ModeSet' <=> ModeSet)
  BY <1>1, <1>6 DEF Asked, Leaving, Present, ModeSet
<1>8. Types' BY <1>1, <1>2, <1>4 DEF Types
<1>9. Requests' BY <1>1, <1>2, <1>6 DEF Requests
<1>10. Token => Token' BY <1>1, <1>5, <1>7 DEF Token
<1>11. Paused => Paused' BY <1>1, <1>7 DEF Paused
<1>12. Stepping => Stepping' BY <1>1, <1>6, <1>7 DEF Stepping
<1>13. Session' BY <1>1, <1>2, <1>7, <1>10, <1>11, <1>12 DEF Session
<1>14. Room'
  <2>1. Pending' = Pending - 1 /\ Pending \in Nat BY <1>1, <1>2, <1>4 DEF Pending, One, Types
  <2>2. Coming' = Coming /\ Coming \in Nat BY <1>1, <1>7 DEF Coming, One, Active
  <2>3. One(view = "ended")' = One(view = "ended") /\ One(view = "ended") \in {0, 1}
    BY <1>1 DEF One
  <2> QED BY <1>2, <2>1, <2>2, <2>3, DebuggerAssumption DEF Room
<1> QED BY <1>8, <1>9, <1>13, <1>14 DEF DebuggerInv

-----------------------------------------------------------------------------
(* The theorems. *)

LEMMA DebuggerInit == Init => DebuggerInv
<1> SUFFICES ASSUME Init PROVE DebuggerInv
  OBVIOUS
<1>1. /\ mode = "running" /\ stepDepth = 0 /\ resumeEvent = FALSE
      /\ epc = "off" /\ depth = 0 /\ line = NoLine
      /\ io = "configurationDone" /\ iopc = "start" /\ done = FALSE
      /\ inbox = <<>> /\ outbox = <<>> /\ view = "running" /\ last = Nothing
      /\ breakpoints \subseteq Line
  BY DEF Init
<1>2. Len(inbox) = 0 /\ Len(outbox) = 0 /\ MaxQueue \in Nat \ {0} /\ 0 \in 0 .. MaxDepth
  BY <1>1, DebuggerAssumption
<1>3. \A S : ~Has(inbox, S) /\ ~Has(outbox, S) /\ Once(inbox, S) /\ Once(outbox, S)
  BY <1>2 DEF Has, Once
<1>4. ~Handling(Resuming) /\ ~Handling({"disconnect"}) BY <1>1 DEF Handling
<1>5. ~Asked /\ ~Leaving /\ ~Told /\ ~ModeSet BY <1>3, <1>4 DEF Asked, Leaving, Told, ModeSet
<1>6. Types
  <2>1. inbox \in Seq(Command) /\ outbox \in Seq(Message) BY <1>1
  <2>2. last \in [cmd : Resuming, depth : 0 .. MaxDepth] BY <1>1, <1>2 DEF Nothing, Resuming
  <2>3. Len(inbox) <= MaxQueue BY <1>2
  <2>4. mode \in Mode /\ io \in Command BY <1>1 DEF Mode, Command
  <2> QED BY <1>1, <1>2, <2>1, <2>2, <2>3, <2>4 DEF Types
<1>7. Requests BY <1>1, <1>3, <1>4 DEF Requests
<1>8. Token BY <1>1, <1>3, <1>5 DEF Token
<1>9. Present BY <1>1, <1>3 DEF Present
<1>10. Paused BY <1>1 DEF Paused
<1>11. Stepping BY <1>1, <1>2, <1>4, <1>5 DEF Stepping, Steps
<1>12. Room BY <1>1, <1>2, <1>5 DEF Room, Pending, Coming, One, Active
<1> QED BY <1>6, <1>7, <1>8, <1>9, <1>10, <1>11, <1>12 DEF DebuggerInv, Session

LEMMA DebuggerNext == DebuggerInv /\ [Next]_vars => DebuggerInv'
<1> SUFFICES ASSUME DebuggerInv, [Next]_vars PROVE DebuggerInv'
  OBVIOUS
<1>1. CASE UNCHANGED vars
  BY <1>1 DEF vars, debugger, program, server, client, DebuggerInv, Types, Requests, Session, Room,
     Token, Present, Paused, Stepping, Pending, Coming, Asked, Leaving, Told, ModeSet, Handling,
     Has, Once, One, Active
<1>2. CASE IOThread
  BY <1>2, StartStep, HandleRequestStep, SetModeStep, SetDepthStep, SetEventStep, AskSteps,
     RespondStep DEF IOThread
<1>3. CASE Evaluator
  BY <1>3, RunSteps, EnterPausedStep, NotifyStep, WaitStep, ClearStep, FinishStep DEF Evaluator
<1>4. CASE Client
  BY <1>4, ResumeStep, AskStep, DisconnectStep, ReceiveStep DEF Client
<1> QED BY <1>1, <1>2, <1>3, <1>4 DEF Next

\* Whatever the program and the client do, the invariant holds.
THEOREM DebuggerAlways == Spec => []DebuggerInv
<1> QED BY DebuggerInit, DebuggerNext, PTL DEF Spec

\* What the client shows as stopped is stopped: the evaluator blocks in
\* _wait_for_resume and no request of the IO thread is about to release it.
THEOREM StopIsRealAlways == Spec => []StopIsReal
<1>1. DebuggerInv => StopIsReal
  <2> SUFFICES ASSUME DebuggerInv PROVE StopIsReal
    OBVIOUS
  <2>1. Types /\ Room BY DEF DebuggerInv
  <2>2. Len(outbox) <= MaxQueue + 3
    <3>1. Len(inbox) \in Nat /\ Len(outbox) \in Nat /\ MaxQueue \in Nat
      BY <2>1, DebuggerAssumption DEF Types
    <3> QED BY <2>1, <3>1 DEF Room, Pending, Coming, One
  <2>3. TypeOK BY <2>1, <2>2 DEF TypeOK, Types
  <2>4. view = "stopped" => epc = "wait" /\ ~resumeEvent BY DEF DebuggerInv, Session, Token
  <2> QED BY <2>3, <2>4 DEF StopIsReal
<1> QED BY <1>1, DebuggerAlways, PTL

\* While the run mode says paused, no statement of the program runs.
THEOREM BlocksWhenPausedAlways == Spec => []BlocksWhenPaused
<1>1. DebuggerInv => BlocksWhenPaused BY DEF DebuggerInv, Session, Paused, BlocksWhenPaused
<1> QED BY <1>1, DebuggerAlways, PTL

\* _should_pause decides as the client's last request and the depth it was
\* made at say, however long ago the IO thread read that depth.
THEOREM StepKeptAlways == Spec => StepKept
<1> DEFINE Asks == \/ last.cmd = "stepIn"
                   \/ last.cmd = "next" /\ depth <= last.depth
                   \/ last.cmd = "stepOut" /\ depth < last.depth
<1>1. ASSUME DebuggerInv, [Next]_vars, CheckStep, mode \notin {"running", "pause_requested"},
             view # "ended"
      PROVE  epc' = "enter" <=> Asks
  <2>1. epc = "step" /\ epc' = IF StepEnds THEN "enter" ELSE "run"
    BY <1>1 DEF CheckStep, Evaluate
  <2>2. Types /\ Requests /\ Token /\ Paused /\ Stepping BY <1>1 DEF DebuggerInv, Session
  <2>3. mode \in Steps BY <1>1, <2>1, <2>2 DEF Types, Mode, Paused, Steps
  <2>4. iopc # "depth" BY <2>1, <2>2 DEF Requests, Token, Asked, Handling, Resuming
  <2>5. /\ mode = ModeOf[last.cmd] /\ last.cmd \in Resuming
        /\ mode \in {"step_over", "step_out"} => stepDepth = last.depth
    BY <2>2, <2>3, <2>4 DEF Stepping, Types
  <2>6. /\ mode = "step_in" => last.cmd = "stepIn"
        /\ mode = "step_over" => last.cmd = "next"
        /\ mode = "step_out" => last.cmd = "stepOut"
    BY <2>3, <2>5 DEF ModeOf, Resuming, Steps
  <2>7. StepEnds <=> Asks BY <2>3, <2>5, <2>6 DEF StepEnds, Steps
  <2> QED BY <2>1, <2>7
<1>2. DebuggerInv /\ [Next]_vars
        => [CheckStep /\ mode \notin {"running", "pause_requested"} => (epc' = "enter" <=> Asks)
              \/ view = "ended"]_vars
  BY <1>1
<1> QED BY <1>2, DebuggerAlways, PTL DEF Spec, StepKept
=============================================================================

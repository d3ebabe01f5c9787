------------------------------ MODULE Coroutine ------------------------------
(***************************************************************************)
(* The hand-over between the thread that drives a coroutine and the        *)
(* coroutine's own daemon thread (class CoroutineInstance of               *)
(* wyrm_eval_parse_tree.py, subclassed by the bytecode VM in vm/values.py).*)
(*                                                                         *)
(* Every `co` instance c has two threading.Events: its own thread blocks   *)
(* on toCo[c] while it is suspended, and whoever called next()/send() on   *)
(* it blocks on toCaller[c].  Any coroutine body may itself drive other    *)
(* coroutines, or delegate to one with 'yield from', so the driver of a    *)
(* coroutine is Main or the thread of another coroutine.                   *)
(***************************************************************************)
EXTENDS Naturals, FiniteSets

CONSTANTS
  Co,         \* the coroutine instances; each one has a thread of its own
  Main,       \* the thread that runs the program
  Value,      \* what a program can send, yield or return
  Nil,        \* Python's None
  NoCo,       \* "no coroutine"
  Nobody,     \* "no thread"
  Reentrant   \* may the program drive a coroutine that is already active?

ASSUME CoAssumption ==
  /\ Main \notin Co
  /\ NoCo \notin Co
  /\ Nobody \notin Co \cup {Main}
  /\ Nil \notin Value
  /\ Reentrant \in BOOLEAN

Thread  == Co \cup {Main}
Payload == Value \cup {Nil}

\* What a thread got back from its last hand-over: a value sent in by its
\* driver, a value yielded to it, the result of a finished delegate, or the
\* StopIteration error next()/send() turn that result into.
Message == [kind : {"none", "sent", "yielded", "ended", "stop"}, val : Payload]
Msg(k, v) == [kind |-> k, val |-> v]

VARIABLES
  pc,        \* where each thread is, see Step
  target,    \* the coroutine a thread is inside _advance_raw for
  deleg,     \* the coroutine a thread runs 'yield from' on
  arg,       \* the value a thread is handing over (a Python argument)
  heard,     \* the message its last hand-over gave it (a Python return value)
  toCo, toCaller,      \* the two Events of an instance: set or not
  inValue, outValue,   \* the two mailboxes of an instance
  started, finished,   \* its flags
  result               \* its return value

object == <<toCo, toCaller, inValue, outValue, started, finished, result>>
vars   == <<pc, target, deleg, arg, heard, object>>

\* The points between the statements of _advance_raw (driver's thread) and of
\* _suspend and _run (coroutine's thread).
Step == {"fresh",                                           \* thread not started
         "run",                                             \* Wyrm code
         "enter", "stored", "drive", "woken", "collect",    \* _advance_raw
         "yield", "publish", "susp", "resumed", "take",     \* _suspend
         "relay",                                           \* _yield_from's loop
         "leave", "settled", "announce", "dead"}            \* _run's end

TypeOK ==
  /\ pc \in [Thread -> Step]
  /\ target \in [Thread -> Co \cup {NoCo}]
  /\ deleg \in [Thread -> Co \cup {NoCo}]
  /\ arg \in [Thread -> Payload]
  /\ heard \in [Thread -> Message]
  /\ toCo \in [Co -> BOOLEAN]
  /\ toCaller \in [Co -> BOOLEAN]
  /\ inValue \in [Co -> Payload]
  /\ outValue \in [Co -> Payload]
  /\ started \in [Co -> BOOLEAN]
  /\ finished \in [Co -> BOOLEAN]
  /\ result \in [Co -> Payload]

Init ==
  /\ pc = [t \in Thread |-> IF t = Main THEN "run" ELSE "fresh"]
  /\ target = [t \in Thread |-> NoCo]
  /\ deleg = [t \in Thread |-> NoCo]
  /\ arg = [t \in Thread |-> Nil]
  /\ heard = [t \in Thread |-> Msg("none", Nil)]
  /\ toCo = [c \in Co |-> FALSE]
  /\ toCaller = [c \in Co |-> FALSE]
  /\ inValue = [c \in Co |-> Nil]
  /\ outValue = [c \in Co |-> Nil]
  /\ started = [c \in Co |-> FALSE]
  /\ finished = [c \in Co |-> FALSE]
  /\ result = [c \in Co |-> Nil]

-----------------------------------------------------------------------------
Goto(t, from, to) == pc[t] = from /\ pc' = [pc EXCEPT ![t] = to]

\* Some thread is inside _advance_raw for c, past its 'finished' test.
Driven(c) == \E t \in Thread : target[t] = c

\* A program that is not Reentrant resumes only a coroutine nobody drives, and
\* leaves a coroutine that another one delegates to alone.
MayDrive(t, c) ==
  Reentrant \/ (~Driven(c) /\ \A d \in Co \ {t} : deleg[d] # c)

(***************************************************************************)
(* The driver's side: _advance_raw.                                        *)
(***************************************************************************)

\* The first lines of _advance_raw: a finished coroutine answers at once,
\* through `reply`; otherwise t goes on to resume c with v.
EnterAdvance(t, from, c, v, reply) ==
  \/ /\ finished[c]
     /\ Goto(t, from, IF reply = "ended" THEN "relay" ELSE "run")
     /\ heard' = [heard EXCEPT ![t] =
                    Msg(reply, IF reply = "ended" THEN result[c] ELSE Nil)]
     /\ UNCHANGED <<target, arg, object>>
  \/ /\ ~finished[c]
     /\ MayDrive(t, c)
     /\ Goto(t, from, "enter")
     /\ target' = [target EXCEPT ![t] = c]
     /\ arg' = [arg EXCEPT ![t] = v]
     /\ UNCHANGED <<heard, object>>

\* (next c)
NextCo(t, c) == EnterAdvance(t, "run", c, Nil, "stop") /\ UNCHANGED deleg

\* (send c, v): refused with a TypeError before the first next().
SendCo(t, c, v) ==
  started[c] /\ EnterAdvance(t, "run", c, v, "stop") /\ UNCHANGED deleg

\* The coroutine's first resumption starts its thread; the value is dropped.
StartThread(t) ==
  LET c == target[t] IN
  /\ pc[t] = "enter" /\ ~started[c]
  /\ started' = [started EXCEPT ![c] = TRUE]
  /\ pc' = [pc EXCEPT ![t] = "drive", ![c] = "run"]
  /\ UNCHANGED <<target, deleg, arg, heard, toCo, toCaller, inValue, outValue,
                 finished, result>>

StoreIn(t) ==
  /\ Goto(t, "enter", "stored")
  /\ started[target[t]]
  /\ inValue' = [inValue EXCEPT ![target[t]] = arg[t]]
  /\ UNCHANGED <<target, deleg, arg, heard, toCo, toCaller, outValue, started,
                 finished, result>>

BadSetToCo(t) == \* forgets the event
  Goto(t, "stored", "drive") /\ UNCHANGED <<target, deleg, arg, heard, object>>

SetToCo(t) ==
  /\ Goto(t, "stored", "drive")
  /\ toCo' = [toCo EXCEPT ![target[t]] = TRUE]
  /\ UNCHANGED <<target, deleg, arg, heard, toCaller, inValue, outValue,
                 started, finished, result>>

WaitCaller(t) ==
  /\ Goto(t, "drive", "woken")
  /\ toCaller[target[t]]
  /\ UNCHANGED <<target, deleg, arg, heard, object>>

ClearCaller(t) ==
  /\ Goto(t, "woken", "collect")
  /\ toCaller' = [toCaller EXCEPT ![target[t]] = FALSE]
  /\ UNCHANGED <<target, deleg, arg, heard, toCo, inValue, outValue, started,
                 finished, result>>

\* _advance_raw's last lines, and what next_, send_ or _yield_from make of
\* its answer.
BadAnswer(t) == \* does not look at _finished again after the wait
  Msg("yielded", outValue[target[t]])

Answer(t) ==
  LET c == target[t] IN
  CASE ~finished[c]                  -> Msg("yielded", outValue[c])
    [] finished[c] /\ deleg[t] = c   -> Msg("ended", result[c])
    [] finished[c] /\ deleg[t] # c   -> Msg("stop", Nil)

BadCollect(t) == \* makes the end of a coroutine a one-time event
  /\ Goto(t, "collect", IF deleg[t] = NoCo THEN "run" ELSE "relay")
  /\ heard' = [heard EXCEPT ![t] = Answer(t)]
  /\ target' = [target EXCEPT ![t] = NoCo]
  /\ finished' = [finished EXCEPT ![target[t]] = FALSE]
  /\ UNCHANGED <<deleg, arg, toCo, toCaller, inValue, outValue, started, result>>

Collect(t) ==
  /\ Goto(t, "collect", IF deleg[t] = NoCo THEN "run" ELSE "relay")
  /\ heard' = [heard EXCEPT ![t] = Answer(t)]
  /\ target' = [target EXCEPT ![t] = NoCo]
  /\ UNCHANGED <<deleg, arg, object>>

(***************************************************************************)
(* The coroutine's side: _suspend and _run.                                *)
(***************************************************************************)

Yield(c, v) ==
  /\ Goto(c, "run", "yield")
  /\ arg' = [arg EXCEPT ![c] = v]
  /\ UNCHANGED <<target, deleg, heard, object>>

BadStoreOut(c) == \* wakes the driver before the value is there
  Goto(c, "yield", "publish") /\ UNCHANGED <<target, deleg, arg, heard, object>>

StoreOut(c) ==
  /\ Goto(c, "yield", "publish")
  /\ outValue' = [outValue EXCEPT ![c] = arg[c]]
  /\ UNCHANGED <<target, deleg, arg, heard, toCo, toCaller, inValue, started,
                 finished, result>>

SetToCaller(c) ==
  /\ Goto(c, "publish", "susp")
  /\ toCaller' = [toCaller EXCEPT ![c] = TRUE]
  /\ UNCHANGED <<target, deleg, arg, heard, toCo, inValue, outValue, started,
                 finished, result>>

WaitCo(c) ==
  /\ Goto(c, "susp", "resumed")
  /\ toCo[c]
  /\ UNCHANGED <<target, deleg, arg, heard, object>>

BadClearCo(c) == \* leaves the event set
  /\ Goto(c, "resumed", "take")
  /\ UNCHANGED <<target, deleg, arg, heard, object>>

ClearCo(c) ==
  /\ Goto(c, "resumed", "take")
  /\ toCo' = [toCo EXCEPT ![c] = FALSE]
  /\ UNCHANGED <<target, deleg, arg, heard, toCaller, inValue, outValue,
                 started, finished, result>>

Take(c) ==
  /\ Goto(c, "take", IF deleg[c] = NoCo THEN "run" ELSE "relay")
  /\ heard' = [heard EXCEPT ![c] = Msg("sent", inValue[c])]
  /\ UNCHANGED <<target, deleg, arg, object>>

\* The body returns v, falls off its end (Nil) or crashes (v is the error).
Leave(c, v) ==
  /\ Goto(c, "run", "leave")
  /\ arg' = [arg EXCEPT ![c] = v]
  /\ UNCHANGED <<target, deleg, heard, object>>

BadStoreResult(c) == \* keeps the wrapping exception instead of its value
  /\ Goto(c, "leave", "settled")
  /\ result' = [result EXCEPT ![c] = Msg("ended", arg[c])]
  /\ UNCHANGED <<target, deleg, arg, heard, toCo, toCaller, inValue, outValue,
                 started, finished>>

StoreResult(c) ==
  /\ Goto(c, "leave", "settled")
  /\ result' = [result EXCEPT ![c] = arg[c]]
  /\ UNCHANGED <<target, deleg, arg, heard, toCo, toCaller, inValue, outValue,
                 started, finished>>

Finish(c) ==
  /\ Goto(c, "settled", "announce")
  /\ finished' = [finished EXCEPT ![c] = TRUE]
  /\ UNCHANGED <<target, deleg, arg, heard, toCo, toCaller, inValue, outValue,
                 started, result>>

BadAnnounce(c) == \* a body that ends without waking its driver
  Goto(c, "announce", "dead") /\ UNCHANGED <<target, deleg, arg, heard, object>>

Announce(c) ==
  /\ Goto(c, "announce", "dead")
  /\ toCaller' = [toCaller EXCEPT ![c] = TRUE]
  /\ UNCHANGED <<target, deleg, arg, heard, toCo, inValue, outValue, started,
                 finished, result>>

(***************************************************************************)
(* _yield_from: re-yield what the delegate yields, forward what is sent.   *)
(***************************************************************************)

YieldFrom(c, s) ==
  /\ deleg' = [deleg EXCEPT ![c] = s]
  /\ EnterAdvance(c, "run", s, Nil, "ended")

RelaySent(c) ==
  /\ pc[c] = "relay" /\ heard[c].kind = "sent"
  /\ EnterAdvance(c, "relay", deleg[c], heard[c].val, "ended")
  /\ UNCHANGED deleg

RelayYielded(c) ==
  /\ heard[c].kind = "yielded"
  /\ Goto(c, "relay", "yield")
  /\ arg' = [arg EXCEPT ![c] = heard[c].val]
  /\ UNCHANGED <<target, deleg, heard, object>>

BadRelayEnded(c) == \* forgets that the delegation is over
  /\ heard[c].kind = "ended"
  /\ Goto(c, "relay", "run")
  /\ UNCHANGED <<target, deleg, arg, heard, object>>

RelayEnded(c) ==
  /\ heard[c].kind = "ended"
  /\ Goto(c, "relay", "run")
  /\ deleg' = [deleg EXCEPT ![c] = NoCo]
  /\ UNCHANGED <<target, arg, heard, object>>

-----------------------------------------------------------------------------
\* The steps a thread takes on its own once it has begun a hand-over.
Advance(t) ==
  \/ StartThread(t) \/ StoreIn(t) \/ SetToCo(t)
  \/ WaitCaller(t) \/ ClearCaller(t) \/ Collect(t)

Suspend(c) ==
  \/ StoreOut(c) \/ SetToCaller(c) \/ WaitCo(c) \/ ClearCo(c) \/ Take(c)
  \/ StoreResult(c) \/ Finish(c) \/ Announce(c)
  \/ RelaySent(c) \/ RelayYielded(c) \/ RelayEnded(c)

\* What Wyrm code may choose to do next.
Body(t) ==
  \/ \E c \in Co : NextCo(t, c) \/ \E v \in Value : SendCo(t, c, v)

CoBody(c) ==
  \/ \E v \in Payload : Yield(c, v) \/ Leave(c, v)
  \/ \E s \in Co : YieldFrom(c, s)

Next ==
  \/ \E t \in Thread : Advance(t) \/ Body(t)
  \/ \E c \in Co : Suspend(c) \/ CoBody(c)

\* The operating system schedules every runnable thread; nothing obliges a
\* Wyrm body to yield, return or resume anybody.
Fairness ==
  /\ \A t \in Thread : WF_vars(Advance(t))
  /\ \A c \in Co : WF_vars(Suspend(c))

Spec     == Init /\ [][Next]_vars
FairSpec == Spec /\ Fairness
-----------------------------------------------------------------------------
(***************************************************************************)
(* Properties.                                                             *)
(***************************************************************************)

\* t has resumed a suspended c that has not picked its value up yet.
Toward(c) == pc[c] \in {"resumed", "take"} \/ (pc[c] = "susp" /\ toCo[c])

\* c has yielded or ended, and its driver has not collected that yet.
Back(c) ==
  \/ pc[c] \in {"susp", "dead"} /\ toCaller[c]
  \/ \E t \in Thread : target[t] = c /\ pc[t] \in {"woken", "collect"}

\* The thread that has control: it is executing, or what it handed over has
\* not reached the other side yet.
Executing == {"run", "enter", "stored", "yield", "publish", "relay", "leave",
              "settled", "announce"}
Owner(t) ==
  \/ pc[t] \in Executing
  \/ pc[t] = "drive" /\ Toward(target[t])
  \/ t # Main /\ Back(t)

\* Of all threads, at most one executes Wyrm code or is in the course of
\* handing control over (CoroutineInstance's docstring: "only one of {caller
\* thread, this coroutine's thread} is ever truly executing at a time").
OneOwner == \A t, u \in Thread : Owner(t) /\ Owner(u) => t = u

\* Control is only ever lost because some coroutine was driven by two threads
\* at once, which takes a program that resumes an active coroutine: the
\* events themselves lose no wake-up.
LostOnlyByReentry ==
  (\A t \in Thread : ~Owner(t)) =>
    \E c \in Co : \E t, u \in Thread : t # u /\ target[t] = c /\ target[u] = c

\* Control is never lost.
ControlKept == \E t \in Thread : Owner(t)

\* A signal is pending only for a thread that will consume it as what it is:
\* toCo[c] for the value its one driver stored, toCaller[c] for what c put
\* out; so no wait is ever satisfied by a leftover.
SignalsMatch ==
  \A c \in Co :
    /\ toCo[c] => \E t \in Thread :
                    target[t] = c /\ pc[t] = "drive" /\ inValue[c] = arg[t]
    /\ toCaller[c] => IF finished[c] THEN result[c] = arg[c]
                      ELSE outValue[c] = arg[c] /\ pc[c] = "susp"

\* A coroutine that delegates is transparent (doc/wyc-format.md:471, "every
\* yield of the sub-coroutine flows out of this one and every sent value
\* flows in"): while it is suspended in a delegation, so is its delegate, and
\* what it last put out is what the delegate put out.
DelegationRelays ==
  \A c, s \in Co :
    deleg[c] = s /\ pc[c] = "susp" /\ ~Toward(c) =>
      outValue[c] = outValue[s] /\ pc[s] = "susp" /\ ~finished[s]

\* A finished coroutine stays finished, keeps its result and never runs
\* again (_advance_raw: "calling this again after it's already finished just
\* keeps returning (True, result)").
FinishedForEver ==
  [][\A c \in Co : finished[c] =>
       /\ finished'[c] /\ result'[c] = result[c]
       /\ pc'[c] \in {"announce", "dead"}]_vars

\* Every hand-over refines one step of the abstract coroutine.
Mapped(t) == target[t] # NoCo /\ pc[t] \in {"drive", "woken", "collect"}
                             /\ ~Toward(target[t])
Runner == IF ControlKept THEN CHOOSE t \in Thread : Owner(t) ELSE Nobody
Drives == [t \in Thread |-> IF Mapped(t) THEN target[t] ELSE NoCo]
Life   == [c \in Co |-> IF ~started[c] THEN "fresh"
                        ELSE IF \E t \in Thread : target[t] = c /\ Mapped(t) THEN "active"
                        ELSE IF pc[c] = "dead" THEN "ended" ELSE "suspended"]
Abs == INSTANCE CoroutineAbs WITH
         runner <- Runner, drives <- Drives, life <- Life, said <- arg
AbsSpec == Abs!Spec

\* What a coroutine puts out reaches its driver, and what is sent to it
\* reaches the coroutine, as long as nobody resumes an active coroutine.
HandOversArrive ==
  \A t \in Thread, c \in Co :
    /\ (target[t] = c /\ pc[c] \in {"yield", "leave"}) ~> target[t] # c
    /\ (target[t] = c /\ pc[t] = "enter") ~> (pc[c] \in {"run", "relay"})
=============================================================================

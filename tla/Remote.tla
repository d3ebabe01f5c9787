------------------------------- MODULE Remote -------------------------------
(***************************************************************************)
(* A remote module (src/wypoc/wyrm_remote.py): a child process that serves *)
(* calls from one queue and answers on another.  The parent's threads call *)
(* it: the program itself and, for a call made inside `task`, a background *)
(* thread of its own.  A thread that waits for the answer of its call also *)
(* runs the callbacks of the signals that come in before it; such a        *)
(* callback may call the remote again, or raise, and then the call that    *)
(* ran it is abandoned.  A queue pickles what is put in a thread of its    *)
(* own, where a value that cannot be is dropped without a word.            *)
(***************************************************************************)
EXTENDS Naturals, Sequences, SequencesExt, FiniteSets

CONSTANTS
  Thread,      \* threads of the parent process
  Request,     \* calls: each is made at most once
  MaxSignals   \* bound on the signals a handler emits

ASSUME RemoteAssumption ==
  /\ MaxSignals \in Nat
  /\ {"none", "load"} \cap Request = {}

VARIABLES
  callQ,       \* parent -> child
  eventQ,      \* child -> parent
  child,       \* "loading", "serving", "working", "ended"
  serving,     \* the call a working child handles
  emitted,     \* the signals it has emitted in that handler
  waiting,     \* of each thread: its calls under way, innermost last
  inCallback,  \* the threads that run a signal's callback
  answer,      \* of each call: what it returned or raised, or "none"
  abandoned,   \* (no code) the calls that a callback's exception ended
  lost,        \* (no code) the calls that were dropped, or whose result was
  unseen,      \* (no code) of each call: signals it emitted, not yet dispatched
  overlapping  \* (no code) the calls made while another was under way, or after
               \* one was abandoned, and those that were under way

vars == <<callQ, eventQ, child, serving, emitted, waiting, inCallback,
          answer, abandoned, lost, unseen, overlapping>>

\* What comes back: which handler produced it is not part of the event, but
\* is what the properties are about.
Event == [kind : {"result", "error", "signal"}, of : Request]
       \cup [kind : {"load_error"}, of : {"load"}]
UnderWay == UNION {Range(waiting[t]) : t \in Thread}
Made == UnderWay \cup {c \in Request : answer[c] # "none"} \cup abandoned

Init ==
  /\ callQ = <<>> /\ eventQ = <<>>
  /\ child = "loading" /\ serving \in Request /\ emitted = 0
  /\ waiting = [t \in Thread |-> <<>>]
  /\ inCallback = {}
  /\ answer = [c \in Request |-> "none"]
  /\ abandoned = {} /\ lost = {}
  /\ unseen = [c \in Request |-> 0] /\ overlapping = {}

-----------------------------------------------------------------------------
(* The parent. *)

\* RemoteModule.call: put, then wait.
Call(t, c) ==
  /\ waiting[t] = <<>> \/ t \in inCallback
  /\ c \notin Made
  /\ \/ callQ' = Append(callQ, c) /\ UNCHANGED lost
     \/ callQ' = callQ /\ lost' = lost \cup {c}  \* an argument cannot be pickled
  /\ waiting' = [waiting EXCEPT ![t] = Append(@, c)]
  /\ inCallback' = inCallback \ {t}
  /\ overlapping' = IF UnderWay = {} /\ abandoned = {} THEN overlapping
                    ELSE overlapping \cup UnderWay \cup {c}
  /\ UNCHANGED <<eventQ, child, serving, emitted, answer, abandoned, unseen>>

Draining(t) == waiting[t] # <<>> /\ t \notin inCallback /\ eventQ # <<>>
Innermost(t) == Last(waiting[t])

\* A result or an error ends the innermost call of whoever takes it; an error is
\* raised in the callback that made the call, which may let it pass.
TakeAnswer(t) ==
  /\ Draining(t) /\ Head(eventQ).kind # "signal"
  /\ eventQ' = Tail(eventQ)
  /\ answer' = [answer EXCEPT ![Innermost(t)] = Head(eventQ).of]
  /\ waiting' = [waiting EXCEPT ![t] = Front(@)]
  /\ inCallback' = IF Len(waiting[t]) > 1 THEN inCallback \cup {t} ELSE inCallback
  /\ UNCHANGED <<callQ, child, serving, emitted, abandoned, lost, unseen, overlapping>>

TakeSignal(t) ==
  /\ Draining(t) /\ Head(eventQ).kind = "signal"
  /\ eventQ' = Tail(eventQ)
  /\ unseen' = [unseen EXCEPT ![Head(eventQ).of] = @ - 1]
  /\ inCallback' = inCallback \cup {t}
  /\ UNCHANGED <<callQ, child, serving, emitted, waiting, answer, abandoned, lost, overlapping>>

CallbackEnds(t) ==
  /\ t \in inCallback
  /\ inCallback' = inCallback \ {t}
  /\ UNCHANGED <<callQ, eventQ, child, serving, emitted, waiting, answer, abandoned, lost,
                 unseen, overlapping>>

\* It raises, out of `call` and into the callback that made that call, if one did.
CallbackRaises(t) ==
  /\ t \in inCallback
  /\ abandoned' = abandoned \cup {Innermost(t)}
  /\ waiting' = [waiting EXCEPT ![t] = Front(@)]
  /\ inCallback' = IF Len(waiting[t]) > 1 THEN inCallback ELSE inCallback \ {t}
  /\ UNCHANGED <<callQ, eventQ, child, serving, emitted, answer, lost, unseen, overlapping>>

-----------------------------------------------------------------------------
(* The child. *)

\* Nothing that the child does by itself concerns the calling threads.
parent == <<waiting, inCallback, answer, abandoned, overlapping>>

Put(event) == eventQ' = Append(eventQ, event)

Loaded ==
  /\ child = "loading" /\ child' = "serving"
  /\ UNCHANGED <<callQ, eventQ, serving, emitted, parent, lost, unseen>>

\* The module's top level raises: the error is all this child ever says.
LoadFails ==
  /\ child = "loading" /\ child' = "ended"
  /\ Put([kind |-> "load_error", of |-> "load"])
  /\ UNCHANGED <<callQ, serving, emitted, parent, lost, unseen>>

\* The module's top level executes `end`.
LoadEnds ==
  /\ child = "loading" /\ child' = "ended"
  /\ UNCHANGED <<callQ, eventQ, serving, emitted, parent, lost, unseen>>

Serve ==
  /\ child = "serving" /\ callQ # <<>>
  /\ child' = "working" /\ serving' = Head(callQ) /\ emitted' = 0
  /\ callQ' = Tail(callQ)
  /\ UNCHANGED <<eventQ, parent, lost, unseen>>

\* The handler emits a signal of the module.
Emit ==
  /\ child = "working" /\ emitted < MaxSignals
  /\ emitted' = emitted + 1
  /\ \/ /\ Put([kind |-> "signal", of |-> serving])
        /\ unseen' = [unseen EXCEPT ![serving] = @ + 1]
     \/ UNCHANGED <<eventQ, unseen>>              \* an argument cannot be pickled
  /\ UNCHANGED <<callQ, child, serving, parent, lost>>

\* Mutant: a handler that raises answers nothing.
BadHandlerRaises ==
  /\ child = "working"
  /\ child' = "serving"
  /\ UNCHANGED <<callQ, eventQ, serving, emitted, parent, lost, unseen>>

\* Mutant: a handler that raises answers the error and then a result.
TwiceHandlerRaises ==
  /\ child = "working"
  /\ child' = "serving"
  /\ eventQ' = eventQ \o <<[kind |-> "error", of |-> serving], [kind |-> "result", of |-> serving]>>
  /\ UNCHANGED <<callQ, serving, emitted, parent, lost, unseen>>

HandlerRaises ==
  /\ child = "working"
  /\ child' = "serving"
  /\ Put([kind |-> "error", of |-> serving])
  /\ UNCHANGED <<callQ, serving, emitted, parent, lost, unseen>>

\* Mutant: answers have a queue of their own, or so it seems to the parent.
BadHandlerReturns ==
  /\ child = "working"
  /\ child' \in {"serving", "ended"}
  /\ eventQ' = <<[kind |-> "result", of |-> serving]>> \o eventQ
  /\ UNCHANGED <<callQ, serving, emitted, parent, lost, unseen>>

\* The handler returns, or executes `end`: then it was the child's last.
HandlerReturns ==
  /\ child = "working"
  /\ child' \in {"serving", "ended"}
  /\ Put([kind |-> "result", of |-> serving])
  /\ UNCHANGED <<callQ, serving, emitted, parent, lost, unseen>>

\* Its result cannot be pickled; the child goes on as if it had answered.
ResultLost ==
  /\ child = "working"
  /\ child' = "serving"
  /\ lost' = lost \cup {serving}
  /\ UNCHANGED <<callQ, eventQ, serving, emitted, parent, unseen>>

Child == Loaded \/ LoadFails \/ LoadEnds \/ Serve \/ Emit \/ HandlerRaises \/ HandlerReturns
           \/ ResultLost

Drain(t) == TakeAnswer(t) \/ TakeSignal(t)
Callback(t) == CallbackEnds(t) \/ CallbackRaises(t)

Next == \/ Child
        \/ \E t \in Thread : Drain(t) \/ Callback(t) \/ \E c \in Request : Call(t, c)

Spec == Init /\ [][Next]_vars

\* Both processes run, callbacks end or raise, and handlers come to an end:
\* they emit boundedly many signals.
FairSpec == /\ Spec
            /\ WF_vars(Child)
            /\ \A t \in Thread : WF_vars(Drain(t)) /\ WF_vars(Callback(t))

-----------------------------------------------------------------------------
(* Properties. *)

\* Every variable keeps its type.
TypeOK ==
  /\ callQ \in Seq(Request) /\ eventQ \in Seq(Event)
  /\ child \in {"loading", "serving", "working", "ended"}
  /\ serving \in Request /\ emitted \in 0 .. MaxSignals
  /\ waiting \in [Thread -> Seq(Request)] /\ inCallback \subseteq Thread
  /\ answer \in [Request -> {"none", "load"} \cup Request]
  /\ abandoned \subseteq Request /\ lost \subseteq Request
  /\ unseen \in [Request -> 0 .. MaxSignals] /\ overlapping \subseteq Request

\* call(): "the full round trip must happen": what a call returns or raises is
\* what its own handler answered (or that the module never loaded).
AnswersMatch == \A c \in Request : answer[c] \in {"none", "load", c}

\* A call that no other overlaps does get its own answer, whatever calls,
\* signals, errors and lost messages came before it: nothing of theirs is left
\* in the queue, unless one of them was abandoned.
SoleAnswersMatch == \A c \in Request \ overlapping : answer[c] \in {"none", "load", c}

\* Such a call that returns has dispatched every signal of its handler that
\* reached the queue: it keeps signals and results in order.
SignalsFirst ==
  \A c \in Request \ overlapping : answer[c] # "none" => unseen[c] = 0

Answers == {e \in Event : e.kind # "signal"}
Count(s, T) == Cardinality({i \in 1 .. Len(s) : s[i] \in T})

\* The books balance: each call that waits or was abandoned has one answer to
\* come, unless it was dropped, and there is no other.
OneAnswerEach ==
  TypeOK /\ (child # "ended" =>
    Cardinality(UnderWay) + Cardinality(abandoned) =
      Len(callQ) + (IF child = "working" THEN 1 ELSE 0) + Count(eventQ, Answers)
        + Cardinality(lost))

\* Whoever calls from wherever, calls come to an end as long as the child
\* serves: once all are made, no more of them wait than were dropped (code:
\* nothing answers a call once the child has executed `end`).
CallsReturn == <>[](child = "ended" \/ Cardinality(UnderWay) <= Cardinality(lost))
=============================================================================

--------------------------- MODULE CoroutineProofs ---------------------------
(***************************************************************************)
(* Theorems about Coroutine for any set of coroutines and values.  For     *)
(* programs of either kind, re-entrant or not: there is one thread of      *)
(* control, no wait is satisfied by a leftover (SignalsMatch), a finished  *)
(* coroutine answers for ever, and the two events of an instance implement *)
(* the abstract coroutine, one hand-over one step (AbsSpec).  For programs *)
(* that resume no active coroutine: control is never lost, and a           *)
(* delegation is transparent (DelegationRelays).                           *)
(***************************************************************************)
EXTENDS Coroutine, TLAPS

\* Facts about one thread and the instance it works on.
LocalInv ==
  /\ TypeOK
  /\ pc[Main] \in {"run", "enter", "stored", "drive", "woken", "collect"}
  /\ deleg[Main] = NoCo
  /\ \A t \in Thread :
       /\ target[t] \in Co <=>
            pc[t] \in {"enter", "stored", "drive", "woken", "collect"}
       /\ pc[t] = "relay" => deleg[t] \in Co
  /\ \A c \in Co :
       /\ pc[c] = "fresh" <=> ~started[c]
       /\ finished[c] <=> pc[c] \in {"announce", "dead"}

AdvanceStep == \E t \in Thread : Advance(t)
BodyStep    == \E t \in Thread : Body(t)
SuspendStep == \E c \in Co : Suspend(c)
CoBodyStep  == \E c \in Co : CoBody(c)

LEMMA NextSplit == Next <=> AdvanceStep \/ BodyStep \/ SuspendStep \/ CoBodyStep
BY DEF Next, AdvanceStep, BodyStep, SuspendStep, CoBodyStep

LEMMA LocalInit == Init => LocalInv
BY CoAssumption DEF Init, LocalInv, TypeOK, Thread, Payload, Message, Msg, Step

LEMMA LocalAdvance ==
  ASSUME LocalInv, NEW t \in Thread, Advance(t)
  PROVE  LocalInv'
<1> USE CoAssumption DEF LocalInv, TypeOK, Thread, Payload, Message, Msg, Step,
                         Goto, object
<1>1. CASE StartThread(t)
  <2> DEFINE c == target[t]
  <2>1. c \in Co /\ c # t /\ c # Main
    BY <1>1 DEF StartThread
  <2>2. /\ pc' = [pc EXCEPT ![t] = "drive", ![c] = "run"]
        /\ started' = [started EXCEPT ![c] = TRUE]
        /\ UNCHANGED <<target, deleg, arg, heard, toCo, toCaller, inValue,
                      outValue, finished, result>>
        /\ pc[t] = "enter" /\ pc[c] = "fresh" /\ ~finished[c]
    BY <1>1, <2>1 DEF StartThread
  <2> HIDE DEF c
  <2>3. /\ pc' \in [Thread -> Step]
        /\ pc'[t] = "drive" /\ pc'[c] = "run"
        /\ \A u \in Thread \ {t, c} : pc'[u] = pc[u]
    BY <2>1, <2>2
  <2>4. /\ started' \in [Co -> BOOLEAN]
        /\ started'[c] /\ \A d \in Co \ {c} : started'[d] = started[d]
    BY <2>1, <2>2
  <2>5. TypeOK'
    BY <2>2, <2>3, <2>4
  <2>6. /\ pc'[Main] \in {"run", "enter", "stored", "drive", "woken", "collect"}
        /\ deleg'[Main] = NoCo
        /\ \A u \in Thread :
             /\ target'[u] \in Co <=>
                  pc'[u] \in {"enter", "stored", "drive", "woken", "collect"}
             /\ pc'[u] = "relay" => deleg'[u] \in Co
    BY <2>1, <2>2, <2>3
  <2>7. \A d \in Co : /\ pc'[d] = "fresh" <=> ~started'[d]
                      /\ finished'[d] <=> pc'[d] \in {"announce", "dead"}
    <3> SUFFICES ASSUME NEW d \in Co
                 PROVE  /\ pc'[d] = "fresh" <=> ~started'[d]
                        /\ finished'[d] <=> pc'[d] \in {"announce", "dead"}
      OBVIOUS
    <3> QED BY <2>1, <2>2, <2>3, <2>4
  <2> QED BY <2>5, <2>6, <2>7
<1>2. CASE StoreIn(t)      BY <1>2 DEF StoreIn
<1>3. CASE SetToCo(t)      BY <1>3 DEF SetToCo
<1>4. CASE WaitCaller(t)   BY <1>4 DEF WaitCaller
<1>5. CASE ClearCaller(t)  BY <1>5 DEF ClearCaller
<1>6. CASE Collect(t)      BY <1>6 DEF Collect, Answer
<1> QED BY <1>1, <1>2, <1>3, <1>4, <1>5, <1>6 DEF Advance

\* The lines of _advance_raw before the wait, from whichever caller.
LEMMA LocalEnter ==
  ASSUME LocalInv, NEW t \in Thread, NEW from \in {"run", "relay"},
         NEW c \in Co, NEW v \in Payload, NEW reply \in {"stop", "ended"},
         EnterAdvance(t, from, c, v, reply),
         deleg' = deleg \/ (t \in Co /\ deleg' = [deleg EXCEPT ![t] = c]),
         reply = "ended" => t \in Co /\ deleg'[t] = c
  PROVE  LocalInv'
<1> USE CoAssumption DEF EnterAdvance, LocalInv, TypeOK, Thread, Payload, Step,
                         Goto, object
<1>1. CASE finished[c]
  <2> DEFINE m == Msg(reply, IF reply = "ended" THEN result[c] ELSE Nil)
  <2>0. m \in Message
    BY DEF Message, Msg
  <2>1. heard' \in [Thread -> Message]
    <3> HIDE DEF m
    <3>1. heard' = [heard EXCEPT ![t] = m] BY <1>1 DEF m
    <3> QED BY <2>0, <3>1
  <2>2. deleg' \in [Thread -> Co \cup {NoCo}] /\ deleg'[Main] = NoCo
    OBVIOUS
  <2>3. CASE reply = "stop"  BY <1>1, <2>1, <2>2, <2>3
  <2>4. CASE reply = "ended" BY <1>1, <2>1, <2>2, <2>4
  <2> QED BY <2>3, <2>4
<1>2. CASE ~finished[c]
  <2>1. deleg' \in [Thread -> Co \cup {NoCo}] /\ deleg'[Main] = NoCo
    OBVIOUS
  <2> QED BY <1>2, <2>1
<1> QED BY <1>1, <1>2

LEMMA LocalSuspend ==
  ASSUME LocalInv, NEW c \in Co, Suspend(c)
  PROVE  LocalInv'
<1> USE CoAssumption DEF LocalInv, TypeOK, Thread, Payload, Message, Msg, Step,
                         Goto, object
<1>1. CASE StoreOut(c)      BY <1>1 DEF StoreOut
<1>2. CASE SetToCaller(c)   BY <1>2 DEF SetToCaller
<1>3. CASE WaitCo(c)        BY <1>3 DEF WaitCo
<1>4. CASE ClearCo(c)       BY <1>4 DEF ClearCo
<1>5. CASE Take(c)          BY <1>5 DEF Take
<1>6. CASE StoreResult(c)   BY <1>6 DEF StoreResult
<1>7. CASE Finish(c)        BY <1>7 DEF Finish
<1>8. CASE Announce(c)      BY <1>8 DEF Announce
<1>9. CASE RelaySent(c)
  <2>1. deleg[c] \in Co /\ heard[c].val \in Payload /\ c \in Thread
    BY <1>9 DEF RelaySent
  <2>2. EnterAdvance(c, "relay", deleg[c], heard[c].val, "ended") /\ deleg' = deleg
    BY <1>9 DEF RelaySent
  <2> QED BY <2>1, <2>2, LocalEnter
<1>10. CASE RelayYielded(c)
  <2>1. heard[c].val \in Payload
    OBVIOUS
  <2> QED BY <1>10, <2>1 DEF RelayYielded
<1>11. CASE RelayEnded(c)   BY <1>11 DEF RelayEnded
<1> QED BY <1>1, <1>2, <1>3, <1>4, <1>5, <1>6, <1>7, <1>8, <1>9, <1>10, <1>11
        DEF Suspend

LEMMA LocalBody ==
  ASSUME LocalInv, NEW t \in Thread, Body(t)
  PROVE  LocalInv'
<1>1. ASSUME NEW c \in Co, NextCo(t, c) PROVE LocalInv'
  BY <1>1, LocalEnter DEF NextCo, Payload
<1>2. ASSUME NEW c \in Co, NEW v \in Value, SendCo(t, c, v) PROVE LocalInv'
  BY <1>2, LocalEnter DEF SendCo, Payload
<1> QED BY <1>1, <1>2 DEF Body

LEMMA LocalCoBody ==
  ASSUME LocalInv, NEW c \in Co, CoBody(c)
  PROVE  LocalInv'
<1> USE CoAssumption DEF LocalInv, TypeOK, Thread, Payload, Message, Msg, Step,
                         Goto, object
<1>1. ASSUME NEW v \in Payload, Yield(c, v) PROVE LocalInv'
  BY <1>1 DEF Yield
<1>2. ASSUME NEW v \in Payload, Leave(c, v) PROVE LocalInv'
  BY <1>2 DEF Leave
<1>3. ASSUME NEW s \in Co, YieldFrom(c, s) PROVE LocalInv'
  BY <1>3, LocalEnter DEF YieldFrom
<1> QED BY <1>1, <1>2, <1>3 DEF CoBody

LEMMA LocalStep == LocalInv /\ [Next]_vars => LocalInv'
<1>1. ASSUME LocalInv, Next PROVE LocalInv'
  BY <1>1, NextSplit, LocalAdvance, LocalBody, LocalSuspend, LocalCoBody
  DEF AdvanceStep, BodyStep, SuspendStep, CoBodyStep
<1>2. ASSUME LocalInv, UNCHANGED vars PROVE LocalInv'
  BY <1>2 DEF LocalInv, TypeOK, vars, object
<1> QED BY <1>1, <1>2

LEMMA LocalAlways == Spec => []LocalInv
BY LocalInit, LocalStep, PTL DEF Spec

\* The type invariant holds of every program, of any size.
THEOREM TypeCorrect == Spec => []TypeOK
<1>1. LocalInv => TypeOK BY DEF LocalInv
<1> QED BY <1>1, LocalAlways, PTL

(***************************************************************************)
(* One thread at a time.  OneOwner is not inductive by itself: it rests on *)
(* which event can be set when, and on every resumed coroutine having a    *)
(* driver that waits for it.                                               *)
(***************************************************************************)
Pending(t) == pc[t] \in {"drive", "woken", "collect"}

\* c has been resumed and what it answered has not been collected.
Busy(c) == pc[c] # "fresh" /\ (pc[c] \in {"susp", "dead"} => Toward(c) \/ Back(c))

SomeOwner == \E t \in Thread : Owner(t)

EventInv ==
  /\ \A c \in Co : toCaller[c] => pc[c] \in {"susp", "dead"}
  /\ \A t \in Thread :
       /\ pc[t] = "woken" => toCaller[target[t]]
       /\ pc[t] = "collect" => /\ pc[target[t]] \in {"susp", "dead"}
                               /\ ~toCaller[target[t]]
       /\ pc[t] \in {"enter", "stored"} => ~finished[target[t]]
       /\ pc[t] = "stored" => started[target[t]]

DriverInv ==
  /\ \A c \in Co : Toward(c) => \E t \in Thread : target[t] = c /\ pc[t] = "drive"
  /\ \A c \in Co : Busy(c) => \E t \in Thread : target[t] = c /\ Pending(t)
  /\ SomeOwner =>
       /\ \A t, u \in Thread :
            Pending(t) /\ Pending(u) /\ target[t] = target[u] => t = u
       /\ \A t \in Thread : Pending(t) => Busy(target[t])
       /\ \A c \in Co : toCo[c] => pc[c] \in {"susp", "resumed"}

OwnerInv == LocalInv /\ EventInv /\ DriverInv /\ OneOwner /\ LostOnlyByReentry

LEMMA OwnerInit == Init => EventInv /\ DriverInv /\ OneOwner /\ LostOnlyByReentry
<1> SUFFICES ASSUME Init
             PROVE  EventInv /\ DriverInv /\ OneOwner /\ LostOnlyByReentry
  OBVIOUS
<1> USE CoAssumption DEF Init, Thread
<1>1. /\ \A c \in Co : ~Toward(c) /\ ~Back(c) /\ ~Busy(c)
      /\ \A t \in Thread : ~Pending(t) /\ (Owner(t) <=> t = Main)
  BY DEF Toward, Back, Busy, Pending, Owner, Executing
<1>2. EventInv BY DEF EventInv
<1>3. DriverInv BY <1>1 DEF DriverInv
<1>4. OneOwner /\ LostOnlyByReentry BY <1>1 DEF OneOwner, LostOnlyByReentry
<1> QED BY <1>2, <1>3, <1>4

\* A step that moves no control: the owner, the drivers and the busy
\* coroutines stay what they are.
LEMMA OwnerStays ==
  ASSUME OwnerInv, SomeOwner,
         \A c \in Co : (Toward(c)' <=> Toward(c)) /\ (Busy(c)' <=> Busy(c)),
         \A t \in Thread : /\ Pending(t)' <=> Pending(t)
                           /\ Owner(t)' <=> Owner(t)
                           /\ Pending(t) => target'[t] = target[t],
         \A t \in Thread : pc[t] = "drive" /\ Toward(target[t]) => pc'[t] = "drive",
         \A c \in Co : toCo'[c] => pc'[c] \in {"susp", "resumed"}
  PROVE  DriverInv' /\ OneOwner' /\ LostOnlyByReentry'
<1> USE DEF OwnerInv, LocalInv, TypeOK
<1>1. OneOwner' BY DEF OneOwner
<1>2. LostOnlyByReentry' BY DEF LostOnlyByReentry, SomeOwner
<1>3. \A c \in Co : Toward(c)' => \E t \in Thread : target'[t] = c /\ pc'[t] = "drive"
  BY DEF DriverInv, Pending
<1>4. \A c \in Co : Busy(c)' => \E t \in Thread : target'[t] = c /\ Pending(t)'
  BY DEF DriverInv
<1>5. \A t \in Thread : Pending(t) => target[t] \in Co
  BY DEF Pending
<1>6. \A t, u \in Thread :
        Pending(t)' /\ Pending(u)' /\ target'[t] = target'[u] => t = u
  BY DEF DriverInv
<1>7. \A t \in Thread : Pending(t)' => Busy(target[t])' /\ target'[t] = target[t]
  BY <1>5 DEF DriverInv
<1> QED BY <1>1, <1>2, <1>3, <1>4, <1>6, <1>7 DEF DriverInv

\* A thread that has control goes on executing.
LEMMA OwnerMoves ==
  ASSUME OwnerInv, NEW t \in Thread, NEW x \in Executing,
         pc[t] \in Executing, pc' = [pc EXCEPT ![t] = x],
         UNCHANGED <<toCo, toCaller>>,
         \A u \in Thread \ {t} : target'[u] = target[u]
  PROVE  DriverInv' /\ OneOwner' /\ LostOnlyByReentry'
<1> USE CoAssumption DEF OwnerInv, LocalInv, TypeOK
<1>1. /\ pc'[t] = x
      /\ \A u \in Thread \ {t} : pc'[u] = pc[u]
  OBVIOUS
<1>2. \A c \in Co : Toward(c)' <=> Toward(c)
  BY <1>1 DEF Toward, Executing, Thread
<1>3. \A c \in Co : Back(c)' <=> Back(c)
  BY <1>1 DEF Back, Executing, Thread
<1>4. \A u \in Thread : Pending(u)' <=> Pending(u) /\ u # t
  BY <1>1 DEF Pending, Executing
<1>5. \A c \in Co : Busy(c)' <=> Busy(c)
  BY <1>1, <1>2, <1>3 DEF Busy, Executing, Thread
<1>6. \A u \in Thread : Owner(u)' <=> Owner(u)
  BY <1>1, <1>2, <1>3 DEF Owner, Executing, Thread
<1>7. Owner(t) /\ ~Pending(t) /\ SomeOwner
  <2>1. Owner(t) BY DEF Owner
  <2>2. ~Pending(t) BY DEF Pending, Executing
  <2> QED BY <2>1, <2>2 DEF SomeOwner
<1>8. \A u \in Thread : pc[u] = "drive" => pc'[u] = "drive"
  BY <1>1 DEF Executing
<1>9. \A c \in Co : toCo'[c] => pc'[c] \in {"susp", "resumed"}
  BY <1>1, <1>7 DEF DriverInv, Executing, Thread
<1>10. \A u \in Thread : Pending(u) => target'[u] = target[u]
  BY <1>1, <1>7
<1> QED BY <1>2, <1>4, <1>5, <1>6, <1>7, <1>8, <1>9, <1>10, OwnerStays

\* Control moves from the driver to a thread it has just started.
LEMMA OwnerStartThread ==
  ASSUME OwnerInv, NEW t \in Thread, StartThread(t)
  PROVE  DriverInv' /\ OneOwner' /\ LostOnlyByReentry'
<1> USE CoAssumption DEF OwnerInv, LocalInv, TypeOK
<1>1. PICK c \in Co :
      /\ c = target[t] /\ c # t /\ c # Main /\ pc[t] = "enter" /\ pc[c] = "fresh"
      /\ pc'[t] = "drive" /\ pc'[c] = "run"
      /\ \A u \in Thread \ {t, c} : pc'[u] = pc[u]
      /\ UNCHANGED <<target, toCo, toCaller>>
  BY DEF StartThread, Thread
<1>2. Owner(t) /\ \A u \in Thread : Owner(u) => u = t
  BY <1>1 DEF Owner, Executing, OneOwner
<1>3. \A d \in Co : Toward(d)' <=> Toward(d)
  BY <1>1 DEF Toward, Thread
<1>4. \A d \in Co : Back(d)' <=> Back(d)
  BY <1>1 DEF Back, Thread
<1>5. \A u \in Thread : Pending(u)' <=> Pending(u) \/ u = t
  BY <1>1 DEF Pending
<1>6. \A d \in Co : Busy(d)' <=> Busy(d) \/ d = c
  BY <1>1, <1>3, <1>4 DEF Busy, Thread
<1>7. \A u \in Thread : Owner(u)' <=> u = c
  <2>1. Owner(c)' BY <1>1 DEF Owner, Executing, Thread
  <2>2. ~Owner(t)' 
    <3>1. ~Toward(target[t])' BY <1>1, <1>3 DEF Toward
    <3>2. t # Main => ~Back(t) BY <1>1 DEF Back, EventInv, Thread
    <3> QED BY <1>1, <1>4, <3>1, <3>2 DEF Owner, Executing, Thread
  <2>3. \A u \in Thread \ {t, c} : Owner(u)' => Owner(u)
    BY <1>1, <1>3, <1>4 DEF Owner, Executing, Thread
  <2> QED BY <1>1, <1>2, <2>1, <2>2, <2>3 DEF Thread
<1>8. OneOwner' BY <1>7 DEF OneOwner
<1>9. LostOnlyByReentry' BY <1>1, <1>7 DEF LostOnlyByReentry, Thread
<1>10. \A d \in Co : Toward(d)' => \E u \in Thread : target'[u] = d /\ pc'[u] = "drive"
  BY <1>1, <1>3 DEF DriverInv, Thread
<1>11. \A d \in Co : Busy(d)' => \E u \in Thread : target'[u] = d /\ Pending(u)'
  BY <1>1, <1>5, <1>6 DEF DriverInv
<1>12. /\ \A u, w \in Thread :
            Pending(u)' /\ Pending(w)' /\ target'[u] = target'[w] => u = w
       /\ \A u \in Thread : Pending(u)' => Busy(target[u])' /\ target'[u] = target[u]
  <2>1. \A u \in Thread : Pending(u) => target[u] \in Co
    BY DEF Pending
  <2>2. ~Busy(c) /\ target[t] = c BY <1>1 DEF Busy
  <2> QED BY <1>1, <1>2, <1>5, <1>6, <2>1, <2>2 DEF DriverInv, SomeOwner
<1>13. \A d \in Co : toCo'[d] => pc'[d] \in {"susp", "resumed"}
  BY <1>1, <1>2 DEF DriverInv, SomeOwner, Thread
<1> QED BY <1>8, <1>9, <1>10, <1>11, <1>12, <1>13 DEF DriverInv

\* Control moves towards the coroutine; or, if that one is active already, it
\* is lost, and the coroutine now has two drivers.
LEMMA OwnerSetToCo ==
  ASSUME OwnerInv, NEW t \in Thread, SetToCo(t)
  PROVE  DriverInv' /\ OneOwner' /\ LostOnlyByReentry'
<1> USE CoAssumption DEF OwnerInv, LocalInv, TypeOK
<1>1. PICK c \in Co :
      /\ c = target[t] /\ c # Main /\ pc[t] = "stored" /\ pc'[t] = "drive"
      /\ \A u \in Thread \ {t} : pc'[u] = pc[u]
      /\ \A d \in Co \ {c} : toCo'[d] = toCo[d]
      /\ toCo'[c]
      /\ UNCHANGED <<target, toCaller>>
      /\ pc[c] \notin {"fresh", "announce", "dead"}
  <2>1. target[t] \in Co /\ target[t] # Main /\ pc[t] = "stored"
    BY DEF SetToCo, Goto
  <2>2. ~finished[target[t]] /\ started[target[t]]
    BY <2>1 DEF EventInv
  <2>3. pc[target[t]] \notin {"fresh", "announce", "dead"}
    BY <2>1, <2>2
  <2>4. /\ pc' = [pc EXCEPT ![t] = "drive"]
        /\ toCo' = [toCo EXCEPT ![target[t]] = TRUE]
        /\ UNCHANGED <<target, toCaller>>
    BY DEF SetToCo, Goto
  <2>5. pc'[t] = "drive" /\ \A u \in Thread \ {t} : pc'[u] = pc[u]
    BY <2>4
  <2>6. /\ toCo'[target[t]]
        /\ \A d \in Co \ {target[t]} : toCo'[d] = toCo[d]
    BY <2>1, <2>4
  <2> QED BY <2>1, <2>3, <2>4, <2>5, <2>6
<1>2. Owner(t) /\ \A u \in Thread : Owner(u) => u = t
  BY <1>1 DEF Owner, Executing, OneOwner
<1>3. \A d \in Co : Toward(d) => d # c
  BY <1>1, <1>2 DEF Toward, DriverInv, Owner
<1>4. \A d \in Co : Toward(d)' <=> Toward(d) \/ (d = c /\ pc[c] = "susp")
  BY <1>1, <1>3 DEF Toward, Thread
<1>5. \A d \in Co : Back(d)' <=> Back(d)
  BY <1>1 DEF Back, Thread
<1>6. \A u \in Thread : Pending(u)' <=> Pending(u) \/ u = t
  BY <1>1 DEF Pending
<1>7. \A d \in Co : ~Toward(d) /\ ~Back(d)
  <2>1. \A d \in Co : Back(d) => d = t
    BY <1>2 DEF Owner, Thread
  <2>2. \A d \in Co : Back(d) => pc[d] \in {"susp", "dead"}
    BY DEF Back, EventInv
  <2>3. ASSUME NEW d \in Co, Toward(d) PROVE FALSE
    <3>1. PICK u \in Thread : target[u] = d /\ pc[u] = "drive"
      BY <2>3 DEF DriverInv
    <3>2. Owner(u) BY <2>3, <3>1 DEF Owner
    <3> QED BY <1>1, <1>2, <3>1, <3>2
  <2> QED BY <1>1, <2>1, <2>2, <2>3
<1>8. \A d \in Co : Busy(d)' <=> Busy(d) \/ d = c
  BY <1>1, <1>4, <1>5 DEF Busy, Thread
<1>9. \A u \in Thread : Owner(u)' <=> u = t /\ pc[c] = "susp"
  <2>1. Owner(t)' <=> pc[c] = "susp"
    <3>1. t \in Co => ~Back(t)' BY <1>5, <1>7
    <3>2. Toward(target[t])' <=> pc[c] = "susp" BY <1>1, <1>4, <1>7
    <3> QED BY <1>1, <3>1, <3>2 DEF Owner, Executing, Thread
  <2>2. \A u \in Thread \ {t} : ~Owner(u)'
    <3> SUFFICES ASSUME NEW u \in Thread \ {t}, Owner(u)' PROVE FALSE
      OBVIOUS
    <3>1. ~Owner(u) BY <1>2
    <3>2. u # Main => ~Back(u)' BY <1>5, <1>7 DEF Thread
    <3>3. pc[u] = "drive" /\ Toward(target[u])' /\ target[u] \in Co
      BY <1>1, <3>1, <3>2 DEF Owner
    <3>4. target[u] = c /\ pc[c] = "susp" BY <1>1, <1>4, <1>7, <3>3
    <3>5. Busy(c) BY <1>2, <3>3, <3>4 DEF DriverInv, SomeOwner, Pending
    <3> QED BY <1>1, <1>7, <3>4, <3>5 DEF Busy
  <2> QED BY <2>1, <2>2
<1>10. OneOwner' BY <1>9 DEF OneOwner
<1>11. ASSUME pc[c] # "susp" PROVE \E u \in Thread \ {t} : target[u] = c
  <2>1. Busy(c) BY <1>1, <1>11 DEF Busy
  <2>2. PICK u \in Thread : target[u] = c /\ Pending(u) BY <1>1, <2>1 DEF DriverInv
  <2> QED BY <1>1, <2>2 DEF Pending
<1>12. LostOnlyByReentry'
  BY <1>1, <1>9, <1>11 DEF LostOnlyByReentry
<1>13. \A d \in Co : Toward(d)' => \E u \in Thread : target'[u] = d /\ pc'[u] = "drive"
  BY <1>1, <1>4, <1>7
<1>14. \A d \in Co : Busy(d)' => \E u \in Thread : target'[u] = d /\ Pending(u)'
  BY <1>1, <1>6, <1>8 DEF DriverInv
<1>15. ASSUME pc[c] = "susp"
       PROVE /\ \A u, w \in Thread :
                  Pending(u)' /\ Pending(w)' /\ target'[u] = target'[w] => u = w
             /\ \A u \in Thread : Pending(u)' => Busy(target[u])' /\ target'[u] = target[u]
  <2>1. \A u \in Thread : Pending(u) => target[u] \in Co
    BY DEF Pending
  <2>2. ~Busy(c) /\ target[t] = c BY <1>1, <1>7, <1>15 DEF Busy
  <2> QED BY <1>1, <1>2, <1>6, <1>8, <2>1, <2>2 DEF DriverInv, SomeOwner
<1>16. SomeOwner' => pc[c] = "susp" BY <1>9 DEF SomeOwner
<1>17. ASSUME pc[c] = "susp", NEW d \in Co, toCo'[d]
       PROVE  pc'[d] \in {"susp", "resumed"}
  BY <1>1, <1>2, <1>17 DEF DriverInv, SomeOwner, Thread
<1> QED BY <1>10, <1>12, <1>13, <1>14, <1>15, <1>16, <1>17 DEF DriverInv

\* The driver's wait, the driver's clear: control still lies with the coroutine
\* that answered.
LEMMA OwnerAnswered ==
  ASSUME OwnerInv, NEW t \in Thread, pc[t] \in {"drive", "woken", "collect"},
         pc[t] = "drive" => toCaller[target[t]]
  PROVE  /\ target[t] \in Co /\ target[t] # t
         /\ pc[target[t]] \in {"susp", "dead"}
         /\ Back(target[t]) /\ SomeOwner
         /\ \A u \in Thread : Owner(u) <=> u = target[t]
         /\ ~Toward(target[t])
         /\ \A c \in Co : ~Toward(c)
<1> USE CoAssumption DEF OwnerInv, LocalInv, TypeOK
<1>1. target[t] \in Co OBVIOUS
<1>2. pc[target[t]] \in {"susp", "dead"} /\ target[t] # t
  BY <1>1 DEF EventInv
<1>3. Back(target[t]) BY <1>2 DEF Back, EventInv
<1>4. Owner(target[t]) BY <1>1, <1>3 DEF Owner
<1>5. \A u \in Thread : Owner(u) <=> u = target[t]
  BY <1>1, <1>4 DEF OneOwner, Thread
<1>6. ASSUME NEW c \in Co, Toward(c) PROVE FALSE
  <2>1. PICK u \in Thread : target[u] = c /\ pc[u] = "drive"
    BY <1>6 DEF DriverInv
  <2>2. Owner(u) BY <1>6, <2>1 DEF Owner
  <2> QED BY <1>2, <1>5, <2>1, <2>2
<1> QED BY <1>1, <1>2, <1>3, <1>4, <1>5, <1>6 DEF SomeOwner, Thread

LEMMA OwnerWaitClear ==
  ASSUME OwnerInv, NEW t \in Thread, WaitCaller(t) \/ ClearCaller(t)
  PROVE  DriverInv' /\ OneOwner' /\ LostOnlyByReentry'
<1> USE CoAssumption DEF OwnerInv, LocalInv, TypeOK
<1>1. PICK c \in Co :
      /\ c = target[t] /\ c # t /\ pc[c] \in {"susp", "dead"}
      /\ Back(c) /\ SomeOwner /\ \A u \in Thread : Owner(u) <=> u = c
      /\ \A d \in Co : ~Toward(d)
      /\ pc[t] \in {"drive", "woken"}
  BY OwnerAnswered DEF WaitCaller, ClearCaller, Goto
<1>2. /\ pc'[t] \in {"woken", "collect"}
      /\ \A u \in Thread \ {t} : pc'[u] = pc[u]
      /\ \A d \in Co \ {c} : toCaller'[d] = toCaller[d]
      /\ UNCHANGED <<target, toCo>>
  BY <1>1 DEF WaitCaller, ClearCaller, Goto, object
<1>3. \A d \in Co : ~Toward(d)'
  BY <1>1, <1>2 DEF Toward, Thread
<1>4. Back(c)' BY <1>1, <1>2 DEF Back
<1>5. \A d \in Co \ {c} : Back(d)' <=> Back(d)
  BY <1>1, <1>2 DEF Back, Thread
<1>6. \A u \in Thread : Pending(u)' <=> Pending(u)
  BY <1>1, <1>2 DEF Pending
<1>7. \A d \in Co : Busy(d)' <=> Busy(d)
  BY <1>1, <1>2, <1>3, <1>4, <1>5 DEF Busy, Thread
<1>8. \A u \in Thread : Owner(u)' <=> u = c
  <2>1. Owner(c)' BY <1>1, <1>4 DEF Owner
  <2>2. ASSUME NEW u \in Thread \ {c}, Owner(u)' PROVE FALSE
    <3>1. pc'[u] \in Executing => pc[u] \in Executing
      BY <1>1, <1>2 DEF Executing
    <3>2. pc'[u] = "drive" => target[u] \in Co /\ target'[u] = target[u]
      BY <1>1, <1>2
    <3>3. u # Main => ~Back(u)' BY <1>1, <1>5 DEF Owner, Thread
    <3> QED BY <1>1, <1>3, <2>2, <3>1, <3>2, <3>3 DEF Owner
  <2> QED BY <2>1, <2>2
<1>9. \A u \in Thread : pc[u] = "drive" => ~Toward(target[u])
  BY <1>1
<1>10. \A d \in Co : toCo'[d] => pc'[d] \in {"susp", "resumed"}
  BY <1>1, <1>2 DEF DriverInv, Thread
<1> QED BY <1>1, <1>2, <1>3, <1>6, <1>7, <1>8, <1>9, <1>10, OwnerStays

\* The driver collects the answer: control is back.
LEMMA OwnerCollect ==
  ASSUME OwnerInv, NEW t \in Thread, Collect(t)
  PROVE  DriverInv' /\ OneOwner' /\ LostOnlyByReentry'
<1> USE CoAssumption DEF OwnerInv, LocalInv, TypeOK
<1>1. PICK c \in Co :
      /\ c = target[t] /\ c # t /\ pc[c] \in {"susp", "dead"}
      /\ Back(c) /\ SomeOwner /\ \A u \in Thread : Owner(u) <=> u = c
      /\ \A d \in Co : ~Toward(d)
      /\ pc[t] = "collect" /\ ~toCaller[c]
  BY OwnerAnswered DEF Collect, Goto, EventInv
<1>2. /\ pc'[t] \in {"run", "relay"} /\ target'[t] = NoCo
      /\ \A u \in Thread \ {t} : pc'[u] = pc[u] /\ target'[u] = target[u]
      /\ UNCHANGED <<toCo, toCaller>>
  BY <1>1 DEF Collect, Goto, object
<1>3. \A d \in Co : ~Toward(d)'
  BY <1>1, <1>2 DEF Toward, Thread
<1>4. \A u \in Thread : Pending(u) /\ target[u] = c => u = t
  BY <1>1 DEF DriverInv, Pending
<1>5. ~Back(c)' 
  BY <1>1, <1>2, <1>4 DEF Back, Pending
<1>6. \A d \in Co \ {c} : Back(d)' <=> Back(d)
  BY <1>1, <1>2 DEF Back, Thread
<1>7. \A u \in Thread : Pending(u)' <=> Pending(u) /\ u # t
  BY <1>1, <1>2 DEF Pending
<1>8. \A d \in Co : Busy(d)' <=> Busy(d) /\ d # c
  BY <1>1, <1>2, <1>3, <1>5, <1>6 DEF Busy, Thread
<1>9. \A u \in Thread : Owner(u)' <=> u = t
  <2>1. Owner(t)' BY <1>2 DEF Owner, Executing
  <2>2. ASSUME NEW u \in Thread \ {t}, Owner(u)' PROVE FALSE
    <3>1. pc'[u] \notin Executing
      BY <1>1, <1>2 DEF Owner, Executing
    <3>2. pc'[u] = "drive" => target[u] \in Co /\ target'[u] = target[u]
      BY <1>1, <1>2
    <3>3. u # Main => ~Back(u)' BY <1>1, <1>5, <1>6 DEF Owner, Thread
    <3> QED BY <1>1, <1>3, <2>2, <3>1, <3>2, <3>3 DEF Owner
  <2> QED BY <2>1, <2>2
<1>10. OneOwner' /\ LostOnlyByReentry'
  BY <1>9 DEF OneOwner, LostOnlyByReentry
<1>11. \A d \in Co : Busy(d)' => \E u \in Thread : target'[u] = d /\ Pending(u)'
  BY <1>1, <1>2, <1>7, <1>8 DEF DriverInv
<1>12. /\ \A u, w \in Thread :
            Pending(u)' /\ Pending(w)' /\ target'[u] = target'[w] => u = w
       /\ \A u \in Thread : Pending(u)' => Busy(target[u])' /\ target'[u] = target[u]
  <2>1. \A u \in Thread : Pending(u) => target[u] \in Co
    BY DEF Pending
  <2> QED BY <1>1, <1>2, <1>4, <1>7, <1>8, <2>1 DEF DriverInv
<1>13. \A d \in Co : toCo'[d] => pc'[d] \in {"susp", "resumed"}
  BY <1>1, <1>2 DEF DriverInv, Thread
<1> QED BY <1>3, <1>10, <1>11, <1>12, <1>13 DEF DriverInv

\* A coroutine puts its answer out: it keeps control until that is collected.
LEMMA OwnerPutsOut ==
  ASSUME OwnerInv, NEW c \in Co, SetToCaller(c) \/ Announce(c)
  PROVE  DriverInv' /\ OneOwner' /\ LostOnlyByReentry'
<1> USE CoAssumption DEF OwnerInv, LocalInv, TypeOK
<1>1. /\ pc[c] \in {"publish", "announce"} /\ pc'[c] \in {"susp", "dead"}
      /\ \A u \in Thread \ {c} : pc'[u] = pc[u]
      /\ toCaller'[c]
      /\ \A d \in Co \ {c} : toCaller'[d] = toCaller[d]
      /\ UNCHANGED <<target, toCo>>
  BY DEF SetToCaller, Announce, Goto, Thread
<1>2. SomeOwner /\ Owner(c) /\ \A u \in Thread : Owner(u) <=> u = c
  <2>1. Owner(c) BY <1>1 DEF Owner, Executing
  <2> QED BY <2>1 DEF SomeOwner, OneOwner, Thread
<1>3. ~toCo[c] BY <1>1, <1>2 DEF DriverInv
<1>4. \A d \in Co : Toward(d)' <=> Toward(d)
  BY <1>1, <1>3 DEF Toward, Thread
<1>5. Back(c)' BY <1>1 DEF Back
<1>6. \A d \in Co \ {c} : Back(d)' <=> Back(d)
  BY <1>1 DEF Back, Thread
<1>7. \A u \in Thread : Pending(u)' <=> Pending(u)
  BY <1>1 DEF Pending
<1>8. \A d \in Co : Busy(d)' <=> Busy(d)
  BY <1>1, <1>4, <1>5, <1>6 DEF Busy, Thread
<1>9. \A u \in Thread : Owner(u)' <=> Owner(u)
  <2>1. Owner(c)' BY <1>5 DEF Owner
  <2>2. \A u \in Thread \ {c} : Owner(u)' <=> Owner(u)
    BY <1>1, <1>4, <1>6 DEF Owner, Thread
  <2> QED BY <1>2, <2>1, <2>2
<1>10. \A d \in Co : toCo'[d] => pc'[d] \in {"susp", "resumed"}
  BY <1>1, <1>2, <1>3 DEF DriverInv, Thread
<1>11. \A u \in Thread : /\ Pending(u) => target'[u] = target[u]
                         /\ pc[u] = "drive" => pc'[u] = "drive"
  BY <1>1
<1> QED BY <1>2, <1>4, <1>7, <1>8, <1>9, <1>10, <1>11, OwnerStays

\* A coroutine that is being resumed: control lies with its driver.
LEMMA OwnerResumed ==
  ASSUME OwnerInv, NEW c \in Co, Toward(c)
  PROVE  \E t \in Thread :
           /\ target[t] = c /\ pc[t] = "drive" /\ t # c
           /\ \A u \in Thread : Owner(u) <=> u = t
           /\ SomeOwner /\ ~Back(c)
           /\ \A d \in Co : Toward(d) => d = c
<1> USE CoAssumption DEF OwnerInv, LocalInv, TypeOK
<1>1. PICK t \in Thread : target[t] = c /\ pc[t] = "drive"
  BY DEF DriverInv
<1>2. t # c BY <1>1 DEF Toward
<1>3. \A u \in Thread : Owner(u) <=> u = t
  BY <1>1 DEF Owner, OneOwner
<1>4. ~Back(c) BY <1>2, <1>3 DEF Owner, Thread
<1>5. ASSUME NEW d \in Co, Toward(d) PROVE d = c
  <2>1. PICK u \in Thread : target[u] = d /\ pc[u] = "drive"
    BY <1>5 DEF DriverInv
  <2>2. Owner(u) BY <1>5, <2>1 DEF Owner
  <2> QED BY <1>1, <1>3, <2>1, <2>2
<1> QED BY <1>1, <1>2, <1>3, <1>4, <1>5 DEF SomeOwner

LEMMA OwnerWaitClearCo ==
  ASSUME OwnerInv, NEW c \in Co, WaitCo(c) \/ ClearCo(c)
  PROVE  DriverInv' /\ OneOwner' /\ LostOnlyByReentry'
<1> USE CoAssumption DEF OwnerInv, LocalInv, TypeOK
<1>1. Toward(c) BY DEF WaitCo, ClearCo, Goto, Toward
<1>2. PICK t \in Thread :
           /\ target[t] = c /\ pc[t] = "drive" /\ t # c
           /\ \A u \in Thread : Owner(u) <=> u = t
           /\ SomeOwner /\ ~Back(c)
           /\ \A d \in Co : Toward(d) => d = c
  BY <1>1, OwnerResumed
<1>3. /\ pc[c] \in {"susp", "resumed"} /\ pc'[c] \in {"resumed", "take"}
      /\ pc'[c] = "take" => ~toCo'[c]
      /\ \A u \in Thread \ {c} : pc'[u] = pc[u]
      /\ \A d \in Co \ {c} : toCo'[d] = toCo[d]
      /\ UNCHANGED <<target, toCaller>>
  BY DEF WaitCo, ClearCo, Goto, Thread, object
<1>4. \A d \in Co : Toward(d)' <=> Toward(d)
  BY <1>1, <1>3 DEF Toward, Thread
<1>5. \A d \in Co : Back(d)' <=> Back(d)
  BY <1>2, <1>3 DEF Back, Thread
<1>6. \A u \in Thread : Pending(u)' <=> Pending(u)
  BY <1>3 DEF Pending
<1>7. \A d \in Co : Busy(d)' <=> Busy(d)
  BY <1>1, <1>3, <1>4, <1>5 DEF Busy, Thread
<1>8. \A u \in Thread : Owner(u)' <=> Owner(u)
  <2>1. ~Owner(c) /\ ~Owner(c)'
    BY <1>2, <1>3, <1>5 DEF Owner, Executing, Thread
  <2>2. \A u \in Thread \ {c} : Owner(u)' <=> Owner(u)
    BY <1>3, <1>4, <1>5 DEF Owner, Thread
  <2> QED BY <2>1, <2>2
<1>9. \A d \in Co : toCo'[d] => pc'[d] \in {"susp", "resumed"}
  <2>1. \A d \in Co : toCo[d] => pc[d] \in {"susp", "resumed"}
    BY <1>2 DEF DriverInv
  <2>2. toCo'[c] => pc'[c] \in {"susp", "resumed"}
    BY <1>3
  <2>3. \A d \in Co \ {c} : toCo'[d] = toCo[d] /\ pc'[d] = pc[d]
    BY <1>3 DEF Thread
  <2> QED BY <2>1, <2>2, <2>3
<1>10. \A u \in Thread : /\ Pending(u) => target'[u] = target[u]
                         /\ pc[u] = "drive" => pc'[u] = "drive"
  BY <1>3
<1> QED BY <1>2, <1>4, <1>6, <1>7, <1>8, <1>9, <1>10, OwnerStays

\* The coroutine takes its value: control has moved to it.
LEMMA OwnerTake ==
  ASSUME OwnerInv, NEW c \in Co, Take(c)
  PROVE  DriverInv' /\ OneOwner' /\ LostOnlyByReentry'
<1> USE CoAssumption DEF OwnerInv, LocalInv, TypeOK
<1>1. Toward(c) BY DEF Take, Goto, Toward
<1>2. PICK t \in Thread :
           /\ target[t] = c /\ pc[t] = "drive" /\ t # c
           /\ \A u \in Thread : Owner(u) <=> u = t
           /\ SomeOwner /\ ~Back(c)
           /\ \A d \in Co : Toward(d) => d = c
  BY <1>1, OwnerResumed
<1>3. /\ pc[c] = "take" /\ pc'[c] \in {"run", "relay"}
      /\ \A u \in Thread \ {c} : pc'[u] = pc[u]
      /\ UNCHANGED <<target, toCo, toCaller>>
  BY DEF Take, Goto, Thread, object
<1>4. \A d \in Co : ~Toward(d)'
  BY <1>2, <1>3 DEF Toward, Thread
<1>5. \A d \in Co : Back(d)' <=> Back(d)
  BY <1>2, <1>3 DEF Back, Thread
<1>6. \A u \in Thread : Pending(u)' <=> Pending(u)
  BY <1>3 DEF Pending
<1>7. \A d \in Co : Busy(d)' <=> Busy(d)
  BY <1>1, <1>2, <1>3, <1>4, <1>5 DEF Busy, Thread
<1>8. \A u \in Thread : Owner(u)' <=> u = c
  <2>1. Owner(c)' BY <1>3 DEF Owner, Executing
  <2>2. ASSUME NEW u \in Thread \ {c}, Owner(u)' PROVE FALSE
    <3>1. u # Main => ~Back(u)'
      <4>1. t # Main => ~Back(t) BY <1>2 DEF Back, EventInv, Thread
      <4>2. u # t /\ u # Main => ~Back(u) BY <1>2 DEF Owner
      <4> QED BY <1>5, <4>1, <4>2 DEF Thread
    <3>2. pc'[u] \notin Executing
      <4>1. u # t => pc[u] \notin Executing BY <1>2 DEF Owner
      <4>2. pc[t] \notin Executing BY <1>2 DEF Executing
      <4> QED BY <1>3, <4>1, <4>2
    <3>3. pc'[u] = "drive" => target[u] \in Co /\ target'[u] = target[u]
      BY <1>3
    <3> QED BY <1>4, <2>2, <3>1, <3>2, <3>3 DEF Owner
  <2> QED BY <2>1, <2>2
<1>9. OneOwner' /\ LostOnlyByReentry'
  BY <1>8 DEF OneOwner, LostOnlyByReentry, Thread
<1>10. \A d \in Co : Busy(d)' => \E u \in Thread : target'[u] = d /\ Pending(u)'
  BY <1>3, <1>6, <1>7 DEF DriverInv
<1>11. /\ \A u, w \in Thread :
            Pending(u)' /\ Pending(w)' /\ target'[u] = target'[w] => u = w
       /\ \A u \in Thread : Pending(u)' => Busy(target[u])' /\ target'[u] = target[u]
  <2>1. \A u \in Thread : Pending(u) => target[u] \in Co
    BY DEF Pending
  <2> QED BY <1>2, <1>3, <1>6, <1>7, <2>1 DEF DriverInv
<1>12. \A d \in Co : toCo'[d] => pc'[d] \in {"susp", "resumed"}
  BY <1>2, <1>3 DEF DriverInv, Thread
<1> QED BY <1>4, <1>9, <1>10, <1>11, <1>12 DEF DriverInv

LEMMA EventAdvance ==
  ASSUME OwnerInv, NEW t \in Thread, Advance(t), LocalInv'
  PROVE  EventInv'
<1> USE CoAssumption DEF OwnerInv, LocalInv, TypeOK, EventInv, Goto, object
<1>1. CASE StartThread(t)
  <2>1. PICK c \in Co :
        /\ c = target[t] /\ c # t /\ pc[t] = "enter" /\ pc[c] = "fresh"
        /\ pc'[t] = "drive" /\ pc'[c] = "run" /\ started'[c]
        /\ \A u \in Thread \ {t, c} : pc'[u] = pc[u]
        /\ \A d \in Co \ {c} : started'[d] = started[d]
        /\ UNCHANGED <<target, toCaller, finished>>
    BY <1>1 DEF StartThread, Thread
  <2> QED BY <2>1 DEF Thread
<1>2. CASE StoreIn(t)     BY <1>2 DEF StoreIn, Thread
<1>3. CASE SetToCo(t)     BY <1>3 DEF SetToCo, Thread
<1>4. CASE WaitCaller(t)  BY <1>4 DEF WaitCaller, Thread
<1>5. CASE ClearCaller(t)
  <2>1. PICK c \in Co :
        /\ c = target[t] /\ c # t /\ pc[c] \in {"susp", "dead"} /\ SomeOwner
        /\ pc[t] = "woken"
    BY <1>5, OwnerAnswered DEF ClearCaller
  <2>2. /\ pc'[t] = "collect" /\ ~toCaller'[c]
        /\ \A u \in Thread \ {t} : pc'[u] = pc[u]
        /\ \A d \in Co \ {c} : toCaller'[d] = toCaller[d]
        /\ UNCHANGED <<target, started, finished>>
    BY <1>5, <2>1 DEF ClearCaller
  <2>3. \A u \in Thread : Pending(u) /\ target[u] = c => u = t
    BY <2>1 DEF DriverInv, Pending
  <2> QED BY <2>1, <2>2, <2>3 DEF Pending, Thread
<1>6. CASE Collect(t)     BY <1>6 DEF Collect, Thread
<1> QED BY <1>1, <1>2, <1>3, <1>4, <1>5, <1>6 DEF Advance

LEMMA EventEnter ==
  ASSUME OwnerInv, NEW t \in Thread, NEW from \in {"run", "relay"},
         NEW c \in Co, NEW v, NEW reply \in {"stop", "ended"},
         EnterAdvance(t, from, c, v, reply), LocalInv'
  PROVE  EventInv'
<1> USE CoAssumption DEF OwnerInv, LocalInv, TypeOK, EventInv, Goto, object
<1>1. CASE finished[c]  BY <1>1 DEF EnterAdvance, Thread
<1>2. CASE ~finished[c]
  <2>1. /\ pc[t] = from /\ pc'[t] = "enter" /\ target'[t] = c
        /\ \A u \in Thread \ {t} : pc'[u] = pc[u] /\ target'[u] = target[u]
        /\ UNCHANGED <<toCaller, started, finished>>
    BY <1>2 DEF EnterAdvance
  <2>2. \A d \in Co : toCaller'[d] => pc'[d] \in {"susp", "dead"}
    BY <2>1 DEF Thread
  <2>3. ASSUME NEW u \in Thread \ {t}
        PROVE  /\ pc'[u] = "woken" => toCaller'[target'[u]]
               /\ pc'[u] = "collect" => /\ pc'[target'[u]] \in {"susp", "dead"}
                                        /\ ~toCaller'[target'[u]]
               /\ pc'[u] \in {"enter", "stored"} => ~finished'[target'[u]]
               /\ pc'[u] = "stored" => started'[target'[u]]
    <3>1. pc[u] = "collect" => target[u] \in Co /\ target[u] # t
      BY <2>1
    <3> QED BY <2>1, <3>1 DEF Thread
  <2> QED BY <1>2, <2>1, <2>2, <2>3
<1> QED BY <1>1, <1>2

LEMMA EventSuspend ==
  ASSUME OwnerInv, NEW c \in Co, Suspend(c), LocalInv'
  PROVE  EventInv'
<1> USE CoAssumption DEF OwnerInv, LocalInv, TypeOK, EventInv, Goto, object
<1>1. CASE StoreOut(c)      BY <1>1 DEF StoreOut, Thread
<1>2. CASE SetToCaller(c)   BY <1>2 DEF SetToCaller, Thread
<1>3. CASE WaitCo(c)
  <2>1. ~Back(c) BY <1>3, OwnerResumed DEF WaitCo, Toward
  <2> QED BY <1>3, <2>1 DEF WaitCo, Back, Thread
<1>4. CASE ClearCo(c)       BY <1>4 DEF ClearCo, Thread
<1>5. CASE Take(c)          BY <1>5 DEF Take, Thread
<1>6. CASE StoreResult(c)   BY <1>6 DEF StoreResult, Thread
<1>7. CASE Finish(c)
  <2>1. \A t \in Thread : pc[t] \in {"enter", "stored"} => target[t] # c
    <3> SUFFICES ASSUME NEW t \in Thread, pc[t] \in {"enter", "stored"},
                        target[t] = c
                 PROVE  FALSE
      OBVIOUS
    <3>1. Owner(t) /\ Owner(c) /\ t # c
      BY <1>7 DEF Finish, Owner, Executing
    <3> QED BY <3>1 DEF OneOwner, Thread
  <2> QED BY <1>7, <2>1 DEF Finish, Thread
<1>8. CASE Announce(c)      BY <1>8 DEF Announce, Thread
<1>9. CASE RelaySent(c)
  <2>1. deleg[c] \in Co /\ c \in Thread
    BY <1>9 DEF RelaySent, Thread
  <2> QED BY <1>9, <2>1, EventEnter DEF RelaySent
<1>10. CASE RelayYielded(c) BY <1>10 DEF RelayYielded, Thread
<1>11. CASE RelayEnded(c)   BY <1>11 DEF RelayEnded, Thread
<1> QED BY <1>1, <1>2, <1>3, <1>4, <1>5, <1>6, <1>7, <1>8, <1>9, <1>10, <1>11
        DEF Suspend

LEMMA OwnerAdvance ==
  ASSUME OwnerInv, NEW t \in Thread, Advance(t)
  PROVE  OwnerInv'
<1>1. LocalInv' BY LocalAdvance DEF OwnerInv
<1>2. EventInv' BY <1>1, EventAdvance
<1>3. DriverInv' /\ OneOwner' /\ LostOnlyByReentry'
  <2>1. CASE StoreIn(t)
    <3>1. "stored" \in Executing /\ pc[t] \in Executing
      BY <2>1 DEF StoreIn, Goto, Executing
    <3> QED BY <2>1, <3>1, OwnerMoves DEF StoreIn, Goto
  <2> QED BY <2>1, OwnerStartThread, OwnerSetToCo, OwnerWaitClear, OwnerCollect
          DEF Advance
<1> QED BY <1>1, <1>2, <1>3 DEF OwnerInv

LEMMA OwnerEnter ==
  ASSUME OwnerInv, NEW t \in Thread, NEW from \in {"run", "relay"},
         NEW c \in Co, NEW v, NEW reply \in {"stop", "ended"},
         EnterAdvance(t, from, c, v, reply)
  PROVE  DriverInv' /\ OneOwner' /\ LostOnlyByReentry'
<1>1. pc[t] = from /\ pc[t] \in Executing
  BY DEF EnterAdvance, Goto, Executing
<1>2. \E x \in Executing : pc' = [pc EXCEPT ![t] = x]
  BY DEF EnterAdvance, Goto, Executing
<1>3. /\ UNCHANGED <<toCo, toCaller>>
      /\ \A u \in Thread \ {t} : target'[u] = target[u]
  BY DEF EnterAdvance, OwnerInv, LocalInv, TypeOK, object
<1> QED BY <1>1, <1>2, <1>3, OwnerMoves

LEMMA OwnerSuspend ==
  ASSUME OwnerInv, NEW c \in Co, Suspend(c)
  PROVE  OwnerInv'
<1>1. LocalInv' BY LocalSuspend DEF OwnerInv
<1>2. EventInv' BY <1>1, EventSuspend
<1>3. DriverInv' /\ OneOwner' /\ LostOnlyByReentry'
  <2>1. CASE StoreOut(c) \/ StoreResult(c) \/ Finish(c) \/ RelayYielded(c)
             \/ RelayEnded(c)
    <3>1. pc[c] \in Executing /\ \E x \in Executing : pc' = [pc EXCEPT ![c] = x]
      BY <2>1 DEF StoreOut, StoreResult, Finish, RelayYielded, RelayEnded, Goto,
                  Executing
    <3>2. UNCHANGED <<toCo, toCaller, target>>
      BY <2>1 DEF StoreOut, StoreResult, Finish, RelayYielded, RelayEnded, object
    <3> QED BY <3>1, <3>2, OwnerMoves DEF Thread
  <2>2. CASE RelaySent(c)
    <3>1. deleg[c] \in Co BY <2>2 DEF RelaySent, OwnerInv, LocalInv, Thread
    <3> QED BY <2>2, <3>1, OwnerEnter DEF RelaySent, Thread
  <2> QED BY <2>1, <2>2, OwnerPutsOut, OwnerWaitClearCo, OwnerTake DEF Suspend
<1> QED BY <1>1, <1>2, <1>3 DEF OwnerInv

LEMMA OwnerBody ==
  ASSUME OwnerInv, NEW t \in Thread, Body(t)
  PROVE  OwnerInv'
<1>1. LocalInv' BY LocalBody DEF OwnerInv
<1>2. PICK c \in Co, v \in Payload : EnterAdvance(t, "run", c, v, "stop")
  BY DEF Body, NextCo, SendCo, Payload
<1> QED BY <1>1, <1>2, EventEnter, OwnerEnter DEF OwnerInv

LEMMA OwnerCoBody ==
  ASSUME OwnerInv, NEW c \in Co, CoBody(c)
  PROVE  OwnerInv'
<1>1. LocalInv' BY LocalCoBody DEF OwnerInv
<1>2. ASSUME NEW v \in Payload, Yield(c, v) \/ Leave(c, v)
      PROVE  OwnerInv'
  <2>1. /\ pc[c] = "run" /\ pc[c] \in Executing
        /\ \E x \in {"yield", "leave"} : pc' = [pc EXCEPT ![c] = x]
        /\ UNCHANGED <<target, object>>
    BY <1>2 DEF Yield, Leave, Goto, Executing
  <2>2. EventInv'
    BY <2>1 DEF OwnerInv, EventInv, LocalInv, TypeOK, Thread, object
  <2>3. DriverInv' /\ OneOwner' /\ LostOnlyByReentry'
    <3>1. {"yield", "leave"} \subseteq Executing BY DEF Executing
    <3> QED BY <2>1, <3>1, OwnerMoves DEF Thread, object
  <2> QED BY <1>1, <2>2, <2>3 DEF OwnerInv
<1>3. ASSUME NEW s \in Co, YieldFrom(c, s) PROVE OwnerInv'
  <2>1. EnterAdvance(c, "run", s, Nil, "ended") /\ c \in Thread
    BY <1>3 DEF YieldFrom, Thread
  <2> QED BY <1>1, <2>1, EventEnter, OwnerEnter DEF OwnerInv
<1> QED BY <1>2, <1>3 DEF CoBody

LEMMA OwnerStep == OwnerInv /\ [Next]_vars => OwnerInv'
<1>1. ASSUME OwnerInv, Next PROVE OwnerInv'
  BY <1>1, NextSplit, OwnerAdvance, OwnerBody, OwnerSuspend, OwnerCoBody
  DEF AdvanceStep, BodyStep, SuspendStep, CoBodyStep
<1>2. ASSUME OwnerInv, UNCHANGED vars PROVE OwnerInv'
  BY <1>2 DEF OwnerInv, LocalInv, TypeOK, EventInv, DriverInv, OneOwner,
              LostOnlyByReentry, Owner, Toward, Back, Busy, Pending, SomeOwner,
              vars, object
<1> QED BY <1>1, <1>2

LEMMA OwnerAlways == Spec => []OwnerInv
<1>1. Init => OwnerInv BY LocalInit, OwnerInit DEF OwnerInv
<1> QED BY <1>1, OwnerStep, PTL DEF Spec

\* Whatever the program, one thread at a time executes Wyrm code or is in the
\* course of handing control over: the reason _call_stack, scopes and every
\* other piece of evaluator state need no lock.
THEOREM OneOwnerAlways == Spec => []OneOwner
<1>1. OwnerInv => OneOwner BY DEF OwnerInv
<1> QED BY <1>1, OwnerAlways, PTL

\* No wake-up is ever lost: everything can stop only if some coroutine has been
\* resumed while it was active.
THEOREM LostOnlyByReentryAlways == Spec => []LostOnlyByReentry
<1>1. OwnerInv => LostOnlyByReentry BY DEF OwnerInv
<1> QED BY <1>1, OwnerAlways, PTL

(***************************************************************************)
(* Programs that leave active coroutines alone never stop.                 *)
(***************************************************************************)
OneDriver == ~Reentrant =>
  \A t, u \in Thread : target[t] \in Co /\ target[t] = target[u] => t = u

LEMMA OneDriverStep == LocalInv /\ OneDriver /\ [Next]_vars => OneDriver'
<1> SUFFICES ASSUME LocalInv, OneDriver, ~Reentrant, [Next]_vars
             PROVE  \A t, u \in Thread :
                      target'[t] \in Co /\ target'[t] = target'[u] => t = u
  BY DEF OneDriver
<1> USE DEF LocalInv, TypeOK
<1>1. CASE UNCHANGED target BY <1>1 DEF OneDriver
<1>2. CASE \E t \in Thread : target' = [target EXCEPT ![t] = NoCo]
  BY <1>2, CoAssumption DEF OneDriver
<1>3. ASSUME NEW t \in Thread, NEW c \in Co, ~Driven(c),
             target' = [target EXCEPT ![t] = c]
      PROVE  \A w, u \in Thread :
               target'[w] \in Co /\ target'[w] = target'[u] => w = u
  BY <1>3 DEF OneDriver, Driven
<1>4. ASSUME NEW t \in Thread, NEW c \in Co, NEW from, NEW v, NEW reply,
             EnterAdvance(t, from, c, v, reply)
      PROVE  UNCHANGED target \/ (~Driven(c) /\ target' = [target EXCEPT ![t] = c])
  BY <1>4 DEF EnterAdvance, MayDrive
<1>5. ASSUME NEW t \in Thread, Advance(t)
      PROVE  UNCHANGED target \/ target' = [target EXCEPT ![t] = NoCo]
  BY <1>5 DEF Advance, StartThread, StoreIn, SetToCo, WaitCaller, ClearCaller,
              Collect
<1>6. ASSUME NEW c \in Co, Suspend(c), ~RelaySent(c)
      PROVE  UNCHANGED target
  BY <1>6 DEF Suspend, StoreOut, SetToCaller, WaitCo, ClearCo, Take, StoreResult,
              Finish, Announce, RelayYielded, RelayEnded
<1>7. ASSUME NEW c \in Co, RelaySent(c)
      PROVE  deleg[c] \in Co /\ EnterAdvance(c, "relay", deleg[c], heard[c].val, "ended")
  BY <1>7 DEF RelaySent, Thread
<1>8. CASE AdvanceStep BY <1>1, <1>2, <1>5, <1>8 DEF AdvanceStep
<1>9. CASE BodyStep
  <2>1. PICK t \in Thread, c \in Co, v \in Payload :
          EnterAdvance(t, "run", c, v, "stop")
    BY <1>9 DEF BodyStep, Body, NextCo, SendCo, Payload
  <2> QED BY <1>1, <1>3, <1>4, <2>1
<1>10. CASE SuspendStep
  <2>1. PICK c \in Co : Suspend(c) BY <1>10 DEF SuspendStep
  <2>2. CASE ~RelaySent(c) BY <1>1, <1>6, <2>1, <2>2
  <2>3. CASE RelaySent(c)
    <3>1. c \in Thread BY DEF Thread
    <3> QED BY <1>1, <1>3, <1>4, <1>7, <2>3, <3>1
  <2> QED BY <2>2, <2>3
<1>11. CASE CoBodyStep
  <2>1. PICK c \in Co : CoBody(c) BY <1>11 DEF CoBodyStep
  <2>2. CASE \E v \in Payload : Yield(c, v) \/ Leave(c, v)
    BY <1>1, <2>2 DEF Yield, Leave
  <2>3. CASE \E s \in Co : YieldFrom(c, s)
    <3>1. c \in Thread BY DEF Thread
    <3> QED BY <1>1, <1>3, <1>4, <2>3, <3>1 DEF YieldFrom
  <2> QED BY <2>1, <2>2, <2>3 DEF CoBody
<1> QED BY <1>1, <1>8, <1>9, <1>10, <1>11, NextSplit DEF vars

\* A program that never resumes an active coroutine keeps control for ever: no
\* interleaving of the events leaves every thread waiting.
THEOREM ControlKeptAlways == ~Reentrant => (Spec => []ControlKept)
<1> SUFFICES ASSUME ~Reentrant PROVE Spec => []ControlKept
  OBVIOUS
<1>1. Init => OneDriver
  BY CoAssumption DEF Init, OneDriver
<1>2. OwnerInv => LocalInv BY DEF OwnerInv
<1>3. OwnerInv /\ OneDriver => ControlKept
  BY DEF OwnerInv, OneDriver, LostOnlyByReentry, ControlKept, Thread
<1> QED BY <1>1, <1>2, <1>3, OneDriverStep, OwnerAlways, PTL DEF Spec

(***************************************************************************)
(* A coroutine ends once.                                                  *)
(***************************************************************************)

\* A finished coroutine stays finished, keeps its result and never runs again.
THEOREM FinishedForEverAlways == Spec => FinishedForEver
<1> DEFINE Keeps == \A c \in Co : finished[c] =>
                      /\ finished'[c] /\ result'[c] = result[c]
                      /\ pc'[c] \in {"announce", "dead"}
<1>1. ASSUME LocalInv, Next PROVE Keeps
  <2> DEFINE Flag == UNCHANGED finished \/
                       \E c \in Co : finished' = [finished EXCEPT ![c] = TRUE]
             Outcome == UNCHANGED result \/
                          \E c \in Co, v \in Payload : pc[c] = "leave" /\
                            result' = [result EXCEPT ![c] = v]
  <2>1. ASSUME NEW t \in Thread, Advance(t) PROVE Flag /\ Outcome
    BY <2>1 DEF Advance, StartThread, StoreIn, SetToCo, WaitCaller, ClearCaller,
                Collect, object
  <2>2. ASSUME NEW t \in Thread, NEW from, NEW c \in Co, NEW v, NEW reply,
               EnterAdvance(t, from, c, v, reply)
        PROVE  Flag /\ Outcome
    BY <2>2 DEF EnterAdvance, object
  <2>3. ASSUME NEW c \in Co, Suspend(c) PROVE Flag /\ Outcome
    <3>1. CASE Finish(c) BY <3>1 DEF Finish
    <3>2. CASE StoreResult(c)
      <4>1. arg[c] \in Payload BY <1>1 DEF LocalInv, TypeOK, Thread
      <4> QED BY <3>2, <4>1 DEF StoreResult, Goto
    <3> QED BY <2>3, <3>1, <3>2 DEF Suspend, StoreOut, SetToCaller, WaitCo,
               ClearCo, Take, Announce, RelaySent, EnterAdvance, RelayYielded,
               RelayEnded, object
  <2> HIDE DEF Flag, Outcome
  <2>4. Flag /\ Outcome
    <3>1. CASE AdvanceStep BY <2>1, <3>1 DEF AdvanceStep
    <3>2. CASE BodyStep
      <4>1. PICK t \in Thread, c \in Co, v \in Payload :
              EnterAdvance(t, "run", c, v, "stop")
        BY <3>2 DEF BodyStep, Body, NextCo, SendCo, Payload
      <4> QED BY <2>2, <4>1
    <3>3. CASE SuspendStep BY <2>3, <3>3 DEF SuspendStep
    <3>4. CASE CoBodyStep
      <4>1. PICK c \in Co : CoBody(c) BY <3>4 DEF CoBodyStep
      <4>2. CASE \E v \in Payload : Yield(c, v) \/ Leave(c, v)
        BY <4>2 DEF Yield, Leave, object, Flag, Outcome
      <4>3. CASE \E s \in Co : YieldFrom(c, s)
        BY <2>2, <4>3 DEF YieldFrom, Thread
      <4> QED BY <4>1, <4>2, <4>3 DEF CoBody
    <3> QED BY <1>1, <3>1, <3>2, <3>3, <3>4, NextSplit
  <2>5. LocalInv' BY <1>1, LocalStep
  <2>6. \A c \in Co : finished[c] => finished'[c] /\ result'[c] = result[c]
    BY <1>1, <2>4 DEF LocalInv, TypeOK, Flag, Outcome
  <2> QED BY <2>5, <2>6 DEF LocalInv
<1>2. LocalInv /\ [Next]_vars => [Keeps]_vars BY <1>1
<1> QED BY <1>2, LocalAlways, PTL DEF Spec, FinishedForEver

-----------------------------------------------------------------------------
(* What one step may change. *)

\* A driver that waits keeps what it handed over until it is answered; a
\* mailbox is written by a driver that is about to signal it; a signal comes
\* from the driver that has just written the mailbox.
DriverSide ==
  /\ \A t \in Thread : pc[t] = "drive" =>
       /\ target'[t] = target[t] /\ arg'[t] = arg[t]
       /\ pc'[t] = "drive" \/ (pc'[t] = "woken" /\ toCaller[target[t]])
  /\ \A c \in Co : inValue'[c] = inValue[c] \/ \E t \in Thread : pc[t] = "enter" /\ target[t] = c
  /\ \A c \in Co : (toCo'[c] => toCo[c] \/ \E t \in Thread :
                                  /\ pc[t] = "stored" /\ target[t] = c /\ pc'[t] = "drive"
                                  /\ target'[t] = c /\ arg'[t] = arg[t] /\ inValue' = inValue)
                   /\ (pc'[c] \in {"resumed", "take"} =>
                         pc[c] \in {"resumed", "take"} \/ (pc[c] = "susp" /\ toCo[c]))
  /\ \A t \in Thread : pc'[t] = "stored" =>
       \/ pc[t] = "stored" /\ target'[t] = target[t] /\ arg'[t] = arg[t]
       \/ pc[t] = "enter" /\ inValue'[target'[t]] = arg'[t]

\* What a coroutine puts out is what it was about to hand over.
CoroutineSide ==
  \A c \in Co :
    /\ pc'[c] \in {"publish", "susp", "resumed", "take"} =>
         \/ pc[c] \in {"publish", "susp", "resumed", "take"} /\ outValue'[c] = outValue[c]
            /\ arg'[c] = arg[c]
         \/ outValue'[c] = arg'[c]
    /\ pc'[c] \in {"settled", "announce", "dead"} =>
         \/ pc[c] \in {"settled", "announce", "dead"} /\ result'[c] = result[c] /\ arg'[c] = arg[c]
         \/ result'[c] = arg'[c]

LEMMA SidesAdvance == ASSUME LocalInv, NEW t \in Thread, Advance(t)
                      PROVE  DriverSide /\ CoroutineSide
<1> USE CoAssumption DEF LocalInv, TypeOK, Thread, Goto, object, DriverSide, CoroutineSide
<1>1. CASE StartThread(t)
  <2>1. PICK c \in Co :
          /\ c = target[t] /\ c # t /\ pc[t] = "enter" /\ pc[c] = "fresh"
          /\ pc'[t] = "drive" /\ pc'[c] = "run"
          /\ \A u \in Thread \ {t, c} : pc'[u] = pc[u]
          /\ UNCHANGED <<target, arg, toCo, toCaller, inValue, outValue, result>>
    BY <1>1 DEF StartThread
  <2> QED BY <2>1
<1>2. CASE StoreIn(t)      BY <1>2 DEF StoreIn
<1>3. CASE SetToCo(t)      BY <1>3 DEF SetToCo
<1>4. CASE WaitCaller(t)   BY <1>4 DEF WaitCaller
<1>5. CASE ClearCaller(t)  BY <1>5 DEF ClearCaller
<1>6. CASE Collect(t)      BY <1>6 DEF Collect
<1> QED BY <1>1, <1>2, <1>3, <1>4, <1>5, <1>6 DEF Advance

LEMMA SidesEnter ==
  ASSUME LocalInv, NEW t \in Thread, NEW from \in {"run", "relay"},
         NEW c \in Co, NEW v, NEW reply \in {"stop", "ended"},
         EnterAdvance(t, from, c, v, reply)
  PROVE  DriverSide /\ CoroutineSide
<1>1. /\ pc[t] = from /\ \E x \in {"run", "relay", "enter"} : pc' = [pc EXCEPT ![t] = x]
      /\ \A u \in Thread \ {t} : target'[u] = target[u] /\ arg'[u] = arg[u]
      /\ UNCHANGED <<toCo, toCaller, inValue, outValue, result>>
  BY DEF EnterAdvance, Goto, object, LocalInv, TypeOK
<1>2. /\ pc'[t] \in {"run", "relay", "enter"} /\ pc[t] \in {"run", "relay"}
      /\ \A u \in Thread \ {t} : pc'[u] = pc[u]
  BY <1>1 DEF LocalInv, TypeOK
<1> QED BY <1>1, <1>2 DEF DriverSide, CoroutineSide, Thread

LEMMA SidesSuspend == ASSUME LocalInv, NEW c \in Co, Suspend(c)
                      PROVE  DriverSide /\ CoroutineSide
<1> USE CoAssumption DEF LocalInv, TypeOK, Thread, Goto, object, DriverSide, CoroutineSide
<1>1. CASE StoreOut(c)      BY <1>1 DEF StoreOut
<1>2. CASE SetToCaller(c)   BY <1>2 DEF SetToCaller
<1>3. CASE WaitCo(c)        BY <1>3 DEF WaitCo
<1>4. CASE ClearCo(c)       BY <1>4 DEF ClearCo
<1>5. CASE Take(c)          BY <1>5 DEF Take
<1>6. CASE StoreResult(c)   BY <1>6 DEF StoreResult
<1>7. CASE Finish(c)        BY <1>7 DEF Finish
<1>8. CASE Announce(c)      BY <1>8 DEF Announce
<1>9. CASE RelaySent(c)
  <2>1. deleg[c] \in Co /\ c \in Thread BY <1>9 DEF RelaySent
  <2>2. EnterAdvance(c, "relay", deleg[c], heard[c].val, "ended") BY <1>9 DEF RelaySent
  <2> QED BY <2>1, <2>2, SidesEnter
<1>10. CASE RelayYielded(c) BY <1>10 DEF RelayYielded
<1>11. CASE RelayEnded(c)   BY <1>11 DEF RelayEnded
<1> QED BY <1>1, <1>2, <1>3, <1>4, <1>5, <1>6, <1>7, <1>8, <1>9, <1>10, <1>11
        DEF Suspend

LEMMA SidesCoBody == ASSUME LocalInv, NEW c \in Co, CoBody(c)
                     PROVE  DriverSide /\ CoroutineSide
<1> USE CoAssumption DEF LocalInv, TypeOK, Thread, Goto, object, DriverSide, CoroutineSide
<1>1. ASSUME NEW v \in Payload, Yield(c, v) PROVE DriverSide /\ CoroutineSide
  BY <1>1 DEF Yield
<1>2. ASSUME NEW v \in Payload, Leave(c, v) PROVE DriverSide /\ CoroutineSide
  BY <1>2 DEF Leave
<1>3. ASSUME NEW s \in Co, YieldFrom(c, s) PROVE DriverSide /\ CoroutineSide
  <2>1. EnterAdvance(c, "run", s, Nil, "ended") /\ c \in Thread BY <1>3 DEF YieldFrom
  <2> QED BY <2>1, SidesEnter
<1> QED BY <1>1, <1>2, <1>3 DEF CoBody

LEMMA Sides == LocalInv /\ Next => DriverSide /\ CoroutineSide
<1> SUFFICES ASSUME LocalInv, Next PROVE DriverSide /\ CoroutineSide
  OBVIOUS
<1>1. ASSUME NEW t \in Thread, Body(t) PROVE DriverSide /\ CoroutineSide
  <2>1. PICK c \in Co, v \in Payload : EnterAdvance(t, "run", c, v, "stop")
    BY <1>1 DEF Body, NextCo, SendCo, Payload
  <2> QED BY <2>1, SidesEnter
<1> QED BY <1>1, SidesAdvance, SidesSuspend, SidesCoBody, NextSplit
        DEF AdvanceStep, BodyStep, SuspendStep, CoBodyStep

-----------------------------------------------------------------------------
(***************************************************************************)
(* No leftovers.  While a coroutine is on its way to being resumed, its    *)
(* driver waits and the mailbox holds what that driver handed over; what a *)
(* coroutine put out, or ended with, stays what its driver will collect.   *)
(***************************************************************************)
Sent(c) == toCo[c] \/ pc[c] \in {"resumed", "take"}

SignalInv ==
  /\ \A c \in Co : Sent(c) =>
       \E t \in Thread : target[t] = c /\ pc[t] = "drive" /\ inValue[c] = arg[t]
  /\ \A t \in Thread : pc[t] = "stored" => inValue[target[t]] = arg[t]
  /\ \A c \in Co : /\ pc[c] \in {"publish", "susp", "resumed", "take"} => outValue[c] = arg[c]
                   /\ pc[c] \in {"settled", "announce", "dead"} => result[c] = arg[c]

\* While a driver writes or signals, nothing is on its way; nor when one is
\* answered.
LEMMA NothingSent ==
  ASSUME OwnerInv, NEW t \in Thread,
         \/ pc[t] \in Executing
         \/ pc[t] = "drive" /\ toCaller[target[t]]
  PROVE  \A c \in Co : ~Sent(c)
<1> SUFFICES ASSUME NEW c \in Co, Sent(c) PROVE FALSE
  OBVIOUS
<1>1. SomeOwner /\ \E u \in Thread : pc[u] # "drive" /\ Owner(u)
  <2>1. CASE pc[t] \in Executing BY <2>1 DEF SomeOwner, Owner, Executing
  <2>2. CASE pc[t] = "drive" /\ toCaller[target[t]]
    <3>1. /\ target[t] \in Thread /\ pc[target[t]] \in {"susp", "dead"} /\ SomeOwner
          /\ Owner(target[t])
      BY <2>2, OwnerAnswered DEF Thread
    <3> QED BY <3>1
  <2> QED BY <2>1, <2>2
<1>2. Toward(c) BY <1>1 DEF Sent, Toward, OwnerInv, DriverInv
<1>3. PICK w \in Thread : target[w] = c /\ pc[w] = "drive" BY <1>2 DEF OwnerInv, DriverInv
<1>4. Owner(w) BY <1>2, <1>3 DEF Owner
<1> QED BY <1>1, <1>3, <1>4 DEF OwnerInv, OneOwner

LEMMA SignalStep == OwnerInv /\ SignalInv /\ [Next]_vars => SignalInv'
<1> SUFFICES ASSUME OwnerInv, SignalInv, [Next]_vars PROVE SignalInv'
  OBVIOUS
<1>1. CASE UNCHANGED vars BY <1>1 DEF SignalInv, Sent, vars, object
<1>2. CASE Next
  <2>1. LocalInv /\ OneOwner BY DEF OwnerInv
  <2>2. DriverSide /\ CoroutineSide BY <1>2, <2>1, Sides
  <2>3. ASSUME NEW c \in Co, Sent(c)'
        PROVE  \E t \in Thread : target'[t] = c /\ pc'[t] = "drive" /\ inValue'[c] = arg'[t]
    <3>1. CASE Sent(c)
      <4>1. PICK t \in Thread : target[t] = c /\ pc[t] = "drive" /\ inValue[c] = arg[t]
        BY <3>1 DEF SignalInv
      <4>2. ~toCaller[target[t]] BY <3>1, <4>1, NothingSent
      <4>3. inValue'[c] = inValue[c]
        <5>1. ASSUME NEW u \in Thread, pc[u] = "enter" PROVE FALSE
          BY <3>1, <5>1, NothingSent DEF Executing
        <5> QED BY <2>2, <5>1 DEF DriverSide
      <4> QED BY <2>2, <4>1, <4>2, <4>3 DEF DriverSide
    <3>2. CASE ~Sent(c)
      <4>1. PICK t \in Thread : /\ pc[t] = "stored" /\ target[t] = c /\ pc'[t] = "drive"
                                /\ target'[t] = c /\ arg'[t] = arg[t] /\ inValue' = inValue
        BY <2>2, <2>3, <3>2 DEF Sent, DriverSide
      <4> QED BY <4>1 DEF SignalInv
    <3> QED BY <3>1, <3>2
  <2>4. ASSUME NEW t \in Thread, pc'[t] = "stored" PROVE inValue'[target'[t]] = arg'[t]
    <3>1. CASE pc[t] = "stored" /\ target'[t] = target[t] /\ arg'[t] = arg[t]
      <4>1. target[t] \in Co BY <2>1, <3>1 DEF LocalInv
      <4>2. ASSUME NEW u \in Thread, pc[u] = "enter" PROVE FALSE
        <5>1. Owner(t) /\ Owner(u) BY <3>1, <4>2 DEF Owner, Executing
        <5> QED BY <2>1, <3>1, <4>2, <5>1 DEF OneOwner
      <4>3. inValue'[target[t]] = inValue[target[t]] BY <2>2, <4>1, <4>2 DEF DriverSide
      <4> QED BY <3>1, <4>3 DEF SignalInv
    <3> QED BY <2>2, <2>4, <3>1 DEF DriverSide
  <2>5. ASSUME NEW c \in Co
        PROVE  /\ pc'[c] \in {"publish", "susp", "resumed", "take"} => outValue'[c] = arg'[c]
               /\ pc'[c] \in {"settled", "announce", "dead"} => result'[c] = arg'[c]
    BY <2>2 DEF SignalInv, CoroutineSide
  <2> QED BY <2>3, <2>4, <2>5 DEF SignalInv
<1> QED BY <1>1, <1>2

LEMMA SignalAlways == Spec => []SignalInv
<1>1. Init => SignalInv BY CoAssumption DEF Init, SignalInv, Sent, Thread
<1> QED BY <1>1, SignalStep, OwnerAlways, PTL DEF Spec

\* For every program, re-entrant or not, a signal is pending only for a thread
\* that will consume it as what it is: no wait is satisfied by a leftover.
THEOREM SignalsMatchAlways == Spec => []SignalsMatch
<1>1. OwnerInv /\ SignalInv => SignalsMatch
  <2> SUFFICES ASSUME OwnerInv, SignalInv, NEW c \in Co
               PROVE  /\ toCo[c] => \E t \in Thread :
                           target[t] = c /\ pc[t] = "drive" /\ inValue[c] = arg[t]
                      /\ toCaller[c] => IF finished[c] THEN result[c] = arg[c]
                                        ELSE outValue[c] = arg[c] /\ pc[c] = "susp"
    BY DEF SignalsMatch
  <2>1. toCaller[c] => pc[c] \in {"susp", "dead"} BY DEF OwnerInv, EventInv
  <2>2. finished[c] <=> pc[c] \in {"announce", "dead"} BY DEF OwnerInv, LocalInv
  <2> QED BY <2>1, <2>2 DEF SignalInv, Sent
<1> QED BY <1>1, OwnerAlways, SignalAlways, PTL

-----------------------------------------------------------------------------
(***************************************************************************)
(* Delegation.  From its 'yield from' to the end of its delegate, a        *)
(* coroutine either drives the delegate or passes on what the delegate has *)
(* put out, and the delegate is then suspended and nobody else's.          *)
(***************************************************************************)
Quiet(s) == pc[s] = "susp" /\ ~Driven(s)

PassesOn(c) ==
  LET s == deleg[c] IN
  \/ /\ pc[c] \in {"enter", "stored", "drive", "woken", "collect"}
     /\ target[c] = s
  \/ pc[c] = "relay" /\ heard[c].kind = "ended"
  \/ /\ Quiet(s)
     /\ \/ pc[c] = "relay" /\ heard[c].kind = "sent"
        \/ pc[c] = "relay" /\ heard[c].kind = "yielded" /\ heard[c].val = outValue[s]
        \/ pc[c] = "yield" /\ arg[c] = outValue[s]
        \/ pc[c] \in {"publish", "susp", "resumed", "take"} /\ outValue[c] = outValue[s]

Alone(c) ==
  ~finished[deleg[c]] => /\ \A t \in Thread \ {c} : target[t] # deleg[c]
                         /\ \A d \in Co \ {c} : deleg[d] # deleg[c]

DelegInv == ~Reentrant => \A c \in Co : deleg[c] \in Co => PassesOn(c) /\ Alone(c)

\* What a step of thread u leaves alone, and whom it may resume.
Frame(u) ==
  /\ \A t \in Thread \ {u} :
       /\ target'[t] = target[t] /\ deleg'[t] = deleg[t]
       /\ heard'[t] = heard[t] /\ arg'[t] = arg[t]
       /\ pc'[t] = pc[t] \/ pc[t] = "fresh"
  /\ \A c \in Co \ {u} : outValue'[c] = outValue[c]
  /\ \A c \in Co : finished[c] => finished'[c]
  /\ u \in Co /\ pc[u] = "susp" => toCo[u]
  /\ pc[u] # "yield" => outValue' = outValue
  /\ target'[u] \in {target[u], NoCo} \/ MayDrive(u, target'[u])
  /\ deleg'[u] \in {deleg[u], NoCo} \/ finished[deleg'[u]] \/ MayDrive(u, deleg'[u])

LEMMA FrameAdvance == ASSUME LocalInv, NEW t \in Thread, Advance(t) PROVE Frame(t)
<1> USE CoAssumption DEF LocalInv, TypeOK, Thread, Goto, object, Frame
<1>1. CASE StartThread(t)
  <2>1. PICK c \in Co :
          /\ c = target[t] /\ c # t /\ pc[t] = "enter" /\ pc[c] = "fresh"
          /\ \A u \in Thread \ {t, c} : pc'[u] = pc[u]
          /\ UNCHANGED <<target, deleg, arg, heard, toCo, outValue, finished>>
    BY <1>1 DEF StartThread
  <2> QED BY <2>1
<1>2. CASE StoreIn(t)      BY <1>2 DEF StoreIn
<1>3. CASE SetToCo(t)      BY <1>3 DEF SetToCo
<1>4. CASE WaitCaller(t)   BY <1>4 DEF WaitCaller
<1>5. CASE ClearCaller(t)  BY <1>5 DEF ClearCaller
<1>6. CASE Collect(t)      BY <1>6 DEF Collect
<1> QED BY <1>1, <1>2, <1>3, <1>4, <1>5, <1>6 DEF Advance

LEMMA FrameEnter ==
  ASSUME LocalInv, NEW t \in Thread, NEW from \in {"run", "relay"},
         NEW c \in Co, NEW v, NEW reply \in {"stop", "ended"},
         EnterAdvance(t, from, c, v, reply),
         deleg' = deleg \/ (t \in Co /\ deleg' = [deleg EXCEPT ![t] = c])
  PROVE  Frame(t)
<1>1. /\ pc[t] = from /\ \A u \in Thread \ {t} : pc'[u] = pc[u]
      /\ \A u \in Thread \ {t} : /\ target'[u] = target[u] /\ arg'[u] = arg[u]
                                 /\ heard'[u] = heard[u] /\ deleg'[u] = deleg[u]
      /\ UNCHANGED <<outValue, finished>>
  BY DEF EnterAdvance, Goto, object, LocalInv, TypeOK
<1>2. target'[t] = target[t] \/ (target'[t] = c /\ MayDrive(t, c))
  BY DEF EnterAdvance, LocalInv, TypeOK
<1>3. deleg'[t] = deleg[t] \/ (deleg'[t] = c /\ (finished[c] \/ MayDrive(t, c)))
  BY DEF EnterAdvance, LocalInv, TypeOK
<1> QED BY <1>1, <1>2, <1>3 DEF Frame

LEMMA FrameSuspend == ASSUME LocalInv, NEW c \in Co, Suspend(c) PROVE Frame(c)
<1> USE CoAssumption DEF LocalInv, TypeOK, Thread, Goto, object, Frame
<1>1. CASE StoreOut(c)      BY <1>1 DEF StoreOut
<1>2. CASE SetToCaller(c)   BY <1>2 DEF SetToCaller
<1>3. CASE WaitCo(c)        BY <1>3 DEF WaitCo
<1>4. CASE ClearCo(c)       BY <1>4 DEF ClearCo
<1>5. CASE Take(c)          BY <1>5 DEF Take
<1>6. CASE StoreResult(c)   BY <1>6 DEF StoreResult
<1>7. CASE Finish(c)        BY <1>7 DEF Finish
<1>8. CASE Announce(c)      BY <1>8 DEF Announce
<1>9. CASE RelaySent(c)
  <2>1. deleg[c] \in Co /\ c \in Thread BY <1>9 DEF RelaySent
  <2>2. EnterAdvance(c, "relay", deleg[c], heard[c].val, "ended") /\ deleg' = deleg
    BY <1>9 DEF RelaySent
  <2> QED BY <2>1, <2>2, FrameEnter
<1>10. CASE RelayYielded(c) BY <1>10 DEF RelayYielded
<1>11. CASE RelayEnded(c)   BY <1>11 DEF RelayEnded
<1> QED BY <1>1, <1>2, <1>3, <1>4, <1>5, <1>6, <1>7, <1>8, <1>9, <1>10, <1>11
        DEF Suspend

LEMMA FrameCoBody == ASSUME LocalInv, NEW c \in Co, CoBody(c) PROVE Frame(c)
<1> USE CoAssumption DEF LocalInv, TypeOK, Thread, Goto, object, Frame
<1>1. ASSUME NEW v \in Payload, Yield(c, v) PROVE Frame(c) BY <1>1 DEF Yield
<1>2. ASSUME NEW v \in Payload, Leave(c, v) PROVE Frame(c) BY <1>2 DEF Leave
<1>3. ASSUME NEW s \in Co, YieldFrom(c, s) PROVE Frame(c)
  <2>1. EnterAdvance(c, "run", s, Nil, "ended") /\ c \in Thread
        /\ deleg' = [deleg EXCEPT ![c] = s]
    BY <1>3 DEF YieldFrom
  <2> QED BY <2>1, FrameEnter
<1> QED BY <1>1, <1>2, <1>3 DEF CoBody

\* A delegation goes on undisturbed by the steps of other threads.
LEMMA DelegOthers ==
  ASSUME OwnerInv, SignalInv, DelegInv, ~Reentrant, NEW u \in Thread, Frame(u),
         NEW c \in Co \ {u}, deleg'[c] \in Co
  PROVE  PassesOn(c)'
<1>0. c \in Thread /\ deleg'[c] = deleg[c] BY DEF Frame, Thread
<1>1. PICK s \in Co : deleg[c] = s /\ deleg'[c] = s /\ PassesOn(c) /\ Alone(c)
  BY <1>0 DEF DelegInv
<1>2. /\ pc'[c] = pc[c] /\ target'[c] = target[c] /\ heard'[c] = heard[c]
      /\ arg'[c] = arg[c] /\ outValue'[c] = outValue[c]
  <2>1. pc[c] # "fresh" BY <1>1 DEF PassesOn
  <2> QED BY <1>0, <2>1 DEF Frame
<1>3. ASSUME Quiet(s) PROVE Quiet(s)' /\ outValue'[s] = outValue[s]
  <2>1. pc[s] = "susp" /\ s \in Thread /\ \A t \in Thread : target[t] # s
    BY <1>3 DEF Quiet, Driven, Thread
  <2>2. s # u
    <3>1. ~toCo[s] BY <1>1, <2>1 DEF SignalInv, Sent
    <3> QED BY <1>1, <2>1, <3>1 DEF Frame
  <2>3. pc'[s] = pc[s] /\ outValue'[s] = outValue[s] BY <1>1, <2>1, <2>2 DEF Frame
  <2>4. target'[u] # s
    <3>1. ~MayDrive(u, s) BY <1>1 DEF MayDrive
    <3>2. s # NoCo BY <1>1, CoAssumption
    <3> QED BY <2>1, <3>1, <3>2 DEF Frame
  <2>5. \A t \in Thread : target'[t] # s BY <2>1, <2>4 DEF Frame
  <2> QED BY <2>1, <2>3, <2>5 DEF Quiet, Driven
<1>4. PassesOn(c)' <=>
        \/ pc'[c] \in {"enter", "stored", "drive", "woken", "collect"} /\ target'[c] = s
        \/ pc'[c] = "relay" /\ heard'[c].kind = "ended"
        \/ /\ Quiet(s)'
           /\ \/ pc'[c] = "relay" /\ heard'[c].kind = "sent"
              \/ pc'[c] = "relay" /\ heard'[c].kind = "yielded" /\ heard'[c].val = outValue'[s]
              \/ pc'[c] = "yield" /\ arg'[c] = outValue'[s]
              \/ pc'[c] \in {"publish", "susp", "resumed", "take"} /\ outValue'[c] = outValue'[s]
  BY <1>1 DEF PassesOn, Quiet, Driven
<1> QED BY <1>1, <1>2, <1>3, <1>4 DEF PassesOn

\* A delegate that has not ended has no other driver and no other delegator.
LEMMA AloneStays ==
  ASSUME DelegInv, ~Reentrant, LocalInv, NEW u \in Thread, Frame(u),
         NEW c \in Co, deleg'[c] \in Co
  PROVE  Alone(c)'
<1> DEFINE s == deleg'[c]
<1> SUFFICES ASSUME ~finished'[s]
             PROVE  /\ \A t \in Thread \ {c} : target'[t] # s
                    /\ \A d \in Co \ {c} : deleg'[d] # s
  BY DEF Alone
<1>1. ~finished[s] /\ s # NoCo /\ c \in Thread BY CoAssumption DEF Frame, Thread
<1>2. CASE deleg[c] = s
  <2>1. /\ \A t \in Thread \ {c} : target[t] # s
        /\ \A d \in Co \ {c} : deleg[d] # s
    BY <1>1, <1>2 DEF DelegInv, Alone
  <2>2. CASE c = u BY <2>1, <2>2 DEF Frame, Thread
  <2>3. CASE c # u
    <3>1. ~MayDrive(u, s) BY <1>2, <2>3 DEF MayDrive
    <3> QED BY <1>1, <2>1, <3>1 DEF Frame, Thread
  <2> QED BY <2>2, <2>3
<1>3. CASE deleg[c] # s
  <2>1. c = u BY <1>1, <1>3 DEF Frame
  <2>2. MayDrive(u, s) BY <1>1, <1>3, <2>1 DEF Frame
  <2> QED BY <1>1, <2>1, <2>2 DEF Frame, MayDrive, Driven, Thread
<1> QED BY <1>2, <1>3

\* A coroutine's own steps within a delegation.
LEMMA DelegAdvance ==
  ASSUME OwnerInv, DelegInv, ~Reentrant, NEW c \in Co, Advance(c), deleg'[c] \in Co
  PROVE  PassesOn(c)'
<1>1. LocalInv /\ c \in Thread BY DEF OwnerInv, Thread
<1>2. deleg' = deleg
  BY DEF Advance, StartThread, StoreIn, SetToCo, WaitCaller, ClearCaller, Collect, object
<1>3. PICK s \in Co : deleg[c] = s /\ deleg'[c] = s /\ PassesOn(c) /\ Alone(c)
  BY <1>2 DEF DelegInv
<1>4. pc[c] \in {"enter", "stored", "drive", "woken", "collect"} /\ target[c] = s
  BY <1>3 DEF PassesOn, Advance, StartThread, StoreIn, SetToCo, WaitCaller, ClearCaller,
              Collect, Goto
<1>5. CASE ~Collect(c)
  <2>1. target' = target
    BY <1>5 DEF Advance, StartThread, StoreIn, SetToCo, WaitCaller, ClearCaller, object
  <2>2. pc'[c] \in {"enter", "stored", "drive", "woken", "collect"}
    <3>1. CASE StartThread(c)
      <4>1. target[c] # c /\ pc' = [pc EXCEPT ![c] = "drive", ![target[c]] = "run"]
        BY <1>1, <3>1 DEF StartThread, LocalInv
      <4> QED BY <1>1, <4>1 DEF LocalInv, TypeOK
    <3> QED BY <1>1, <1>5, <3>1 DEF Advance, StoreIn, SetToCo, WaitCaller, ClearCaller, Goto,
                                    LocalInv, TypeOK
  <2> QED BY <1>3, <1>4, <2>1, <2>2 DEF PassesOn
<1>6. CASE Collect(c)
  <2>1. /\ pc'[c] = "relay" /\ heard'[c] = Answer(c) /\ target'[c] = NoCo
        /\ \A t \in Thread \ {c} : pc'[t] = pc[t] /\ target'[t] = target[t]
        /\ UNCHANGED outValue /\ pc[c] = "collect"
    <3>1. s # NoCo BY CoAssumption
    <3> QED BY <1>1, <1>3, <1>6, <3>1 DEF Collect, Goto, object, LocalInv, TypeOK
  <2>2. s \in Thread /\ s # c /\ pc[s] \in {"susp", "dead"} /\ (finished[s] <=> pc[s] = "dead")
    <3>1. pc[s] \in {"susp", "dead"} BY <1>4, <2>1 DEF OwnerInv, EventInv, Thread
    <3> QED BY <1>1, <2>1, <3>1 DEF LocalInv, Thread
  <2>3. CASE finished[s]
    <3>1. heard'[c].kind = "ended" BY <1>3, <1>4, <2>1, <2>3 DEF Answer, Msg
    <3> QED BY <2>1, <3>1 DEF PassesOn
  <2>4. CASE ~finished[s]
    <3>1. heard'[c].kind = "yielded" /\ heard'[c].val = outValue[s]
      BY <1>4, <2>1, <2>4 DEF Answer, Msg
    <3>2. pc'[s] = "susp" BY <2>1, <2>2, <2>4
    <3>3. \A t \in Thread : target'[t] # s
      BY <1>3, <2>1, <2>4, CoAssumption DEF Alone
    <3>4. Quiet(s)' BY <3>2, <3>3 DEF Quiet, Driven
    <3> QED BY <1>3, <2>1, <3>1, <3>4 DEF PassesOn, Quiet, Driven
  <2> QED BY <2>3, <2>4
<1> QED BY <1>5, <1>6

\* Resuming the delegate, the first time or for a value sent in.
LEMMA DelegEnter ==
  ASSUME LocalInv, NEW c \in Co, NEW from \in {"run", "relay"}, NEW v,
         EnterAdvance(c, from, deleg'[c], v, "ended"), deleg'[c] \in Co
  PROVE  PassesOn(c)'
<1>1. c \in Thread BY DEF Thread
<1>2. CASE finished[deleg'[c]]
  <2>1. CASE pc'[c] = "relay" /\ heard'[c].kind = "ended" BY <2>1 DEF PassesOn
  <2>2. CASE pc'[c] = "enter" /\ target'[c] = deleg'[c] BY <2>2 DEF PassesOn
  <2> QED BY <1>1, <2>1, <2>2 DEF EnterAdvance, Goto, Msg, LocalInv, TypeOK
<1>3. CASE ~finished[deleg'[c]]
  <2>1. pc'[c] = "enter" /\ target'[c] = deleg'[c]
    BY <1>1, <1>3 DEF EnterAdvance, Goto, LocalInv, TypeOK
  <2> QED BY <2>1 DEF PassesOn
<1> QED BY <1>2, <1>3

LEMMA DelegSuspend ==
  ASSUME OwnerInv, DelegInv, ~Reentrant, NEW c \in Co, Suspend(c), deleg'[c] \in Co
  PROVE  PassesOn(c)'
<1>1. LocalInv /\ c \in Thread BY DEF OwnerInv, Thread
<1>2. CASE RelaySent(c)
  <2>1. deleg' = deleg BY <1>2 DEF RelaySent
  <2> QED BY <1>1, <1>2, <2>1, DelegEnter DEF RelaySent
<1>3. CASE RelayEnded(c)
  <2>1. deleg'[c] = NoCo BY <1>1, <1>3 DEF RelayEnded, LocalInv, TypeOK
  <2> QED BY <2>1, CoAssumption
<1>4. CASE ~RelaySent(c) /\ ~RelayEnded(c)
  <2>1. UNCHANGED <<deleg, target>>
    BY <1>4 DEF Suspend, StoreOut, SetToCaller, WaitCo, ClearCo, Take, StoreResult, Finish,
                Announce, RelayYielded, object
  <2>2. PICK s \in Co : deleg[c] = s /\ deleg'[c] = s /\ PassesOn(c) /\ Alone(c)
    BY <2>1 DEF DelegInv
  <2>3. /\ pc[c] \in {"yield", "publish", "susp", "resumed", "take", "relay"}
        /\ pc[c] = "relay" => heard[c].kind = "yielded"
        /\ pc[c] \notin {"enter", "stored", "drive", "woken", "collect"}
    <3>1. pc[c] \in {"yield", "publish", "susp", "resumed", "take", "leave", "settled",
                     "announce", "relay"}
      BY <1>4 DEF Suspend, StoreOut, SetToCaller, WaitCo, ClearCo, Take, StoreResult, Finish,
                  Announce, RelayYielded, Goto
    <3>2. pc[c] = "relay" => heard[c].kind = "yielded"
      BY <1>4 DEF Suspend, StoreOut, SetToCaller, WaitCo, ClearCo, Take, StoreResult, Finish,
                  Announce, RelayYielded, Goto
    <3> QED BY <2>2, <3>1, <3>2 DEF PassesOn
  <2>4. /\ Quiet(s)
        /\ \/ pc[c] = "relay" /\ heard[c].val = outValue[s]
           \/ pc[c] = "yield" /\ arg[c] = outValue[s]
           \/ pc[c] \in {"publish", "susp", "resumed", "take"} /\ outValue[c] = outValue[s]
    BY <2>2, <2>3 DEF PassesOn
  <2>5. s # c /\ s \in Thread
    <3>1. pc[c] = "susp" => ~toCo[c] \/ Driven(c)
      BY DEF OwnerInv, DriverInv, Toward, Driven
    <3> QED BY <1>4, <2>3, <2>4, <3>1 DEF Quiet, Thread, Suspend, StoreOut, SetToCaller, WaitCo,
               ClearCo, Take, StoreResult, Finish, Announce, RelayYielded, Goto
  <2>6. Quiet(s)' /\ outValue'[s] = outValue[s]
    <3>1. pc'[s] = pc[s] /\ outValue'[s] = outValue[s]
      BY <1>1, <1>4, <2>5 DEF Suspend, StoreOut, SetToCaller, WaitCo, ClearCo, Take, StoreResult,
         Finish, Announce, RelayYielded, Goto, object, LocalInv, TypeOK
    <3> QED BY <2>1, <2>4, <3>1 DEF Quiet, Driven
  <2>7. \/ pc'[c] = "yield" /\ arg'[c] = outValue[s]
        \/ pc'[c] \in {"publish", "susp", "resumed", "take"} /\ outValue'[c] = outValue[s]
        \/ pc'[c] = "relay" /\ heard'[c].kind = "sent"
    <3>1. CASE StoreOut(c)
      BY <1>1, <2>4, <3>1 DEF StoreOut, Goto, LocalInv, TypeOK
    <3>2. CASE SetToCaller(c) \/ WaitCo(c) \/ ClearCo(c)
      BY <1>1, <2>4, <3>2 DEF SetToCaller, WaitCo, ClearCo, Goto, object, LocalInv, TypeOK
    <3>3. CASE Take(c)
      <4>1. s # NoCo BY CoAssumption
      <4> QED BY <1>1, <2>2, <3>3, <4>1 DEF Take, Goto, Msg, LocalInv, TypeOK
    <3>4. CASE RelayYielded(c)
      BY <1>1, <2>4, <3>4 DEF RelayYielded, Goto, LocalInv, TypeOK
    <3> QED BY <1>4, <2>3, <3>1, <3>2, <3>3, <3>4 DEF Suspend, StoreResult, Finish, Announce, Goto
  <2> QED BY <2>2, <2>6, <2>7 DEF PassesOn, Quiet, Driven
<1> QED BY <1>2, <1>3, <1>4

\* A coroutine that runs Wyrm code delegates to nobody: it cannot resume
\* another one while it does, nor yield or end of itself.
LEMMA DelegBody ==
  ASSUME OwnerInv, DelegInv, ~Reentrant, NEW c \in Co, pc[c] = "run",
         deleg'[c] \in Co, deleg' = deleg \/ \E s \in Co : YieldFrom(c, s)
  PROVE  PassesOn(c)'
<1>1. LocalInv /\ c \in Thread BY DEF OwnerInv, Thread
<1>2. deleg[c] \notin Co BY DEF DelegInv, PassesOn
<1>3. PICK s \in Co : YieldFrom(c, s) BY <1>2
<1>4. deleg'[c] = s BY <1>1, <1>3 DEF YieldFrom, LocalInv, TypeOK
<1> QED BY <1>1, <1>3, <1>4, DelegEnter DEF YieldFrom

LEMMA DelegStep == OwnerInv /\ SignalInv /\ DelegInv /\ [Next]_vars => DelegInv'
<1> SUFFICES ASSUME OwnerInv, SignalInv, DelegInv, [Next]_vars, ~Reentrant,
                    NEW c \in Co, deleg'[c] \in Co
             PROVE  PassesOn(c)' /\ Alone(c)'
  BY DEF DelegInv
<1>1. LocalInv /\ c \in Thread BY DEF OwnerInv, Thread
<1>2. CASE UNCHANGED vars
  BY <1>2 DEF DelegInv, PassesOn, Alone, Quiet, Driven, vars, object
<1>3. ASSUME NEW t \in Thread, Advance(t) PROVE PassesOn(c)' /\ Alone(c)'
  <2>1. Frame(t) BY <1>1, <1>3, FrameAdvance
  <2> QED BY <1>1, <1>3, <2>1, DelegOthers, DelegAdvance, AloneStays
<1>4. ASSUME NEW t \in Thread, Body(t) PROVE PassesOn(c)' /\ Alone(c)'
  <2>1. PICK d \in Co, v \in Payload : EnterAdvance(t, "run", d, v, "stop") /\ deleg' = deleg
    BY <1>4 DEF Body, NextCo, SendCo, Payload
  <2>2. Frame(t) BY <1>1, <2>1, FrameEnter
  <2>3. pc[t] = "run" BY <2>1 DEF EnterAdvance, Goto
  <2> QED BY <1>1, <2>1, <2>2, <2>3, DelegOthers, DelegBody, AloneStays
<1>5. ASSUME NEW d \in Co, Suspend(d) PROVE PassesOn(c)' /\ Alone(c)'
  <2>1. Frame(d) /\ d \in Thread BY <1>1, <1>5, FrameSuspend DEF Thread
  <2> QED BY <1>1, <1>5, <2>1, DelegOthers, DelegSuspend, AloneStays
<1>6. ASSUME NEW d \in Co, CoBody(d) PROVE PassesOn(c)' /\ Alone(c)'
  <2>1. Frame(d) /\ d \in Thread BY <1>1, <1>6, FrameCoBody DEF Thread
  <2>2. pc[d] = "run" /\ (deleg' = deleg \/ \E s \in Co : YieldFrom(d, s))
    BY <1>6 DEF CoBody, Yield, Leave, YieldFrom, EnterAdvance, Goto
  <2> QED BY <1>1, <2>1, <2>2, DelegOthers, DelegBody, AloneStays
<1> QED BY <1>2, <1>3, <1>4, <1>5, <1>6, NextSplit
        DEF AdvanceStep, BodyStep, SuspendStep, CoBodyStep

\* In a program that resumes no active coroutine a delegation is transparent:
\* while a coroutine is suspended in one, so is its delegate, and what it last
\* put out is what the delegate put out.
THEOREM DelegationRelaysAlways == ~Reentrant => (Spec => []DelegationRelays)
<1> SUFFICES ASSUME ~Reentrant PROVE Spec => []DelegationRelays
  OBVIOUS
<1>1. Init => DelegInv BY CoAssumption DEF Init, DelegInv, Thread
<1>2. OwnerInv /\ DelegInv => DelegationRelays
  <2> SUFFICES ASSUME OwnerInv, DelegInv, NEW c \in Co, NEW s \in Co,
                      deleg[c] = s, pc[c] = "susp"
               PROVE  outValue[c] = outValue[s] /\ pc[s] = "susp" /\ ~finished[s]
    BY DEF DelegationRelays
  <2>1. pc[s] = "susp" /\ outValue[c] = outValue[s] BY DEF DelegInv, PassesOn, Quiet
  <2> QED BY <2>1 DEF OwnerInv, LocalInv
<1> QED BY <1>1, <1>2, DelegStep, OwnerAlways, SignalAlways, PTL DEF Spec

-----------------------------------------------------------------------------
(***************************************************************************)
(* The refinement.  Under OwnerInv the mapped runner is the one owner, and *)
(* a driver counts as waiting (Mapped) from the step that gives control to *)
(* its coroutine to the one that collects the answer; so each hand-over is *)
(* the one step in which the owner changes.                                *)
(***************************************************************************)
Waits(c) == \E t \in Thread : target[t] = c /\ Mapped(t)

LEMMA RunnerIs == ASSUME OneOwner, NEW t \in Thread, Owner(t) PROVE Runner = t
BY DEF OneOwner, Runner, ControlKept

LEMMA RunnerNext == ASSUME OneOwner', NEW t \in Thread, Owner(t)' PROVE Runner' = t
BY DEF OneOwner, Runner, ControlKept

\* Nothing is on its way while a thread executes.
LEMMA WhileExecuting ==
  ASSUME OwnerInv, NEW t \in Thread, pc[t] \in Executing
  PROVE  /\ Owner(t) /\ SomeOwner /\ Runner = t
         /\ \A u \in Thread : Owner(u) => u = t
         /\ \A c \in Co : ~Toward(c) /\ ~Back(c)
         /\ \A u \in Thread : Mapped(u) <=> Pending(u)
<1> USE CoAssumption DEF OwnerInv, LocalInv, TypeOK
<1>1. Owner(t) /\ \A u \in Thread : Owner(u) => u = t BY DEF Owner, OneOwner
<1>2. ASSUME NEW c \in Co, Toward(c) PROVE FALSE
  <2>1. PICK u \in Thread : target[u] = c /\ pc[u] = "drive" BY <1>2 DEF DriverInv
  <2> QED BY <1>1, <1>2, <2>1 DEF Owner, Executing
<1>3. ASSUME NEW c \in Co, Back(c) PROVE FALSE
  <2>1. c = t BY <1>1, <1>3 DEF Owner, Thread
  <2>2. pc[c] \in {"susp", "dead"} BY <1>3 DEF Back, EventInv
  <2> QED BY <2>1, <2>2 DEF Executing
<1>4. \A u \in Thread : Mapped(u) <=> Pending(u) BY <1>2 DEF Mapped, Pending
<1> QED BY <1>1, <1>2, <1>3, <1>4, RunnerIs DEF SomeOwner

\* The mapped driver and life of a step that leaves the waits alone.
LEMMA SameView ==
  ASSUME \A t \in Thread : /\ Mapped(t)' <=> Mapped(t)
                           /\ Mapped(t) => target'[t] = target[t],
         \A c \in Co : /\ started'[c] <=> started[c]
                       /\ Waits(c) \/ (pc'[c] = "dead" <=> pc[c] = "dead")
  PROVE  Drives' = Drives /\ Life' = Life
<1>1. Drives' = Drives BY DEF Drives
<1>2. \A c \in Co : Waits(c)' <=> Waits(c) BY DEF Waits
<1>3. Life' = Life BY <1>2 DEF Life, Waits
<1> QED BY <1>1, <1>3

\* The same of a step after which t waits for c and did not before.
LEMMA NewWait ==
  ASSUME NEW t \in Thread, NEW c \in Co, c # NoCo, Mapped(t)', target'[t] = c, ~Mapped(t),
         \A u \in Thread \ {t} : /\ Mapped(u)' <=> Mapped(u)
                                 /\ Mapped(u) => target'[u] = target[u],
         started'[c],
         \A d \in Co \ {c} : /\ started'[d] <=> started[d]
                             /\ pc'[d] = "dead" <=> pc[d] = "dead"
  PROVE  Drives' = [Drives EXCEPT ![t] = c] /\ Life' = [Life EXCEPT ![c] = "active"]
<1>1. Drives' = [Drives EXCEPT ![t] = c] BY DEF Drives
<1>2. Waits(c)' /\ \A d \in Co \ {c} : Waits(d)' <=> Waits(d) BY DEF Waits
<1>3. Life'[c] = "active" /\ \A d \in Co \ {c} : Life'[d] = Life[d]
  BY <1>2 DEF Life, Waits
<1>4. Life = [d \in Co |-> Life[d]] /\ Life' = [d \in Co |-> Life'[d]] BY DEF Life
<1>5. Life' = [Life EXCEPT ![c] = "active"] BY <1>3, <1>4
<1> QED BY <1>1, <1>5

\* A step the abstract coroutine does not see.
LEMMA Unseen ==
  ASSUME OwnerInv, OwnerInv', NEW t \in Thread, Owner(t), Owner(t)',
         Drives' = Drives, Life' = Life, arg' = arg, heard' = heard
  PROVE  UNCHANGED Abs!vars
<1>1. Runner = t /\ Runner' = t BY RunnerIs, RunnerNext DEF OwnerInv
<1> QED BY <1>1 DEF Abs!vars

\* A thread settles what it hands over.
LEMMA Speaks ==
  ASSUME OwnerInv, OwnerInv', NEW t \in Thread, NEW v \in Payload,
         pc[t] \in Executing, pc'[t] \in Executing,
         Drives' = Drives, Life' = Life, arg' = [arg EXCEPT ![t] = v], heard' = heard
  PROVE  Abs!Next
<1>1. Owner(t) /\ Owner(t)' BY DEF Owner
<1>2. Runner = t /\ Runner' = t BY <1>1, RunnerIs, RunnerNext DEF OwnerInv
<1>3. Abs!Speak(t, v) BY <1>2 DEF Abs!Speak
<1> QED BY <1>3 DEF Abs!Next, Abs!Thread, Abs!Payload, Thread, Payload

\* The driver's side, step by step: a first resumption,
LEMMA AbsStartThread ==
  ASSUME OwnerInv, OwnerInv', NEW t \in Thread, StartThread(t) PROVE Abs!Next
<1> USE CoAssumption DEF LocalInv, TypeOK
<1>0. LocalInv BY DEF OwnerInv
<1>1. PICK c \in Co :
      /\ c = target[t] /\ c # t /\ c # Main /\ pc[t] = "enter" /\ pc[c] = "fresh"
      /\ ~started[c] /\ started'[c] /\ \A d \in Co \ {c} : started'[d] = started[d]
      /\ pc'[t] = "drive" /\ pc'[c] = "run"
      /\ \A u \in Thread \ {t, c} : pc'[u] = pc[u]
      /\ UNCHANGED <<target, toCo, toCaller, arg, heard>>
  BY <1>0 DEF StartThread, Thread
<1>2. c \in Thread /\ pc[t] \in Executing /\ pc'[c] \in Executing BY <1>1 DEF Executing, Thread
<1>3. Runner = t /\ Runner' = c
  <2>1. Owner(c)' BY <1>2 DEF Owner
  <2> QED BY <1>2, <2>1, WhileExecuting, RunnerNext DEF OwnerInv
<1>4. \A d \in Co : Toward(d)' <=> Toward(d) BY <1>1 DEF Toward, Thread
<1>5. ~Toward(c) BY <1>1 DEF Toward
<1>6. Drives' = [Drives EXCEPT ![t] = c] /\ Life' = [Life EXCEPT ![c] = "active"]
  <2>1. Mapped(t)' /\ target'[t] = c /\ ~Mapped(t) BY <1>1, <1>4, <1>5 DEF Mapped
  <2>2. \A u \in Thread \ {t} : /\ Mapped(u)' <=> Mapped(u)
                                /\ Mapped(u) => target'[u] = target[u]
    BY <1>0, <1>1, <1>4 DEF Mapped
  <2>3. \A d \in Co \ {c} : /\ started'[d] <=> started[d]
                            /\ pc'[d] = "dead" <=> pc[d] = "dead"
    BY <1>1 DEF Thread
  <2> QED BY <1>1, <2>1, <2>2, <2>3, NewWait
<1>7. Life[c] = "fresh" BY <1>1 DEF Life
<1>8. Abs!Resume(t, c) BY <1>1, <1>3, <1>6, <1>7 DEF Abs!Resume
<1> QED BY <1>8 DEF Abs!Next, Abs!Thread, Thread

\* the signal to a suspended coroutine, which the abstract one does not see,
\* or to an active one, which loses control,
LEMMA AbsSetToCo ==
  ASSUME OwnerInv, OwnerInv', NEW t \in Thread, SetToCo(t)
  PROVE  Abs!Next \/ UNCHANGED Abs!vars
<1> USE CoAssumption DEF LocalInv, TypeOK
<1>0. LocalInv BY DEF OwnerInv
<1>1. PICK c \in Co :
      /\ c = target[t] /\ c # Main /\ pc[t] = "stored" /\ pc'[t] = "drive"
      /\ \A u \in Thread \ {t} : pc'[u] = pc[u]
      /\ \A d \in Co \ {c} : toCo'[d] = toCo[d]
      /\ toCo'[c]
      /\ UNCHANGED <<target, toCaller, arg, heard, started>>
      /\ started[c] /\ pc[c] \notin {"fresh", "dead"}
  <2>1. target[t] \in Co /\ target[t] # Main /\ pc[t] = "stored"
    BY <1>0 DEF SetToCo, Goto
  <2>2. ~finished[target[t]] /\ started[target[t]] BY <2>1 DEF OwnerInv, EventInv
  <2>3. pc[target[t]] \notin {"fresh", "dead"} BY <1>0, <2>1, <2>2
  <2>4. /\ pc' = [pc EXCEPT ![t] = "drive"]
        /\ toCo' = [toCo EXCEPT ![target[t]] = TRUE]
        /\ UNCHANGED <<target, toCaller, arg, heard, started>>
    BY DEF SetToCo, Goto
  <2>5. pc'[t] = "drive" /\ \A u \in Thread \ {t} : pc'[u] = pc[u] BY <1>0, <2>4
  <2>6. toCo'[target[t]] /\ \A d \in Co \ {target[t]} : toCo'[d] = toCo[d]
    BY <1>0, <2>1, <2>4
  <2> QED BY <2>1, <2>2, <2>3, <2>4, <2>5, <2>6
<1>2. pc[t] \in Executing /\ c \in Thread BY <1>1 DEF Executing, Thread
<1>3. /\ Owner(t) /\ SomeOwner /\ Runner = t
      /\ \A u \in Thread : Owner(u) => u = t
      /\ \A d \in Co : ~Toward(d) /\ ~Back(d)
      /\ \A u \in Thread : Mapped(u) <=> Pending(u)
  BY <1>2, WhileExecuting
<1>4. CASE pc[c] = "susp"
  <2>1. c # t BY <1>1, <1>4
  <2>2. Toward(c)' BY <1>1, <1>2, <1>4, <2>1 DEF Toward
  <2>3. Owner(t)' BY <1>1, <2>2 DEF Owner
  <2>4. ~Busy(c) BY <1>3, <1>4 DEF Busy
  <2>5. \A u \in Thread : Pending(u) => target[u] # c
    BY <1>3, <2>4 DEF OwnerInv, DriverInv
  <2>6. \A d \in Co \ {c} : Toward(d)' <=> Toward(d) BY <1>1 DEF Toward, Thread
  <2>7. \A u \in Thread : Mapped(u)' <=> Mapped(u)
    <3>1. ~Mapped(t) /\ ~Mapped(t)' BY <1>1, <2>2 DEF Mapped
    <3>2. ASSUME NEW u \in Thread \ {t} PROVE Mapped(u)' <=> Mapped(u)
      <4>1. CASE Pending(u)
        <5>1. target[u] \in Co \ {c} BY <1>0, <2>5, <4>1 DEF Pending
        <5> QED BY <1>1, <2>6, <5>1 DEF Mapped
      <4>2. CASE ~Pending(u) BY <1>1, <4>2 DEF Mapped, Pending
      <4> QED BY <4>1, <4>2
    <3> QED BY <3>1, <3>2
  <2>8. Drives' = Drives /\ Life' = Life
    BY <1>1, <2>7, SameView DEF Thread
  <2> QED BY <1>1, <1>3, <2>3, <2>8, Unseen
<1>5. CASE pc[c] # "susp"
  <2>1. Waits(c)
    <3>1. Busy(c) BY <1>1, <1>5 DEF Busy
    <3> QED BY <1>3, <3>1 DEF OwnerInv, DriverInv, Waits
  <2>2. \A d \in Co : ~Toward(d)'
    BY <1>1, <1>3, <1>5 DEF Toward, Thread
  <2>3. \A u \in Thread : ~Owner(u)'
    <3> SUFFICES ASSUME NEW u \in Thread, Owner(u)' PROVE FALSE
      OBVIOUS
    <3>1. pc'[u] \notin Executing BY <1>1, <1>3 DEF Owner, Executing
    <3>2. u # Main => ~Back(u)' BY <1>1, <1>3 DEF Back, Thread
    <3>3. pc'[u] = "drive" => target'[u] \in Co BY <1>0, <1>1
    <3> QED BY <2>2, <3>1, <3>2, <3>3 DEF Owner
  <2>4. Runner' = Nobody BY <2>3 DEF Runner, ControlKept
  <2>5. Mapped(t)' /\ ~Mapped(t) BY <1>1, <2>2 DEF Mapped
  <2>6. \A u \in Thread \ {t} : Mapped(u)' <=> Mapped(u)
    <3> SUFFICES ASSUME NEW u \in Thread \ {t} PROVE Mapped(u)' <=> Mapped(u)
      OBVIOUS
    <3>1. pc'[u] = pc[u] /\ target'[u] = target[u] BY <1>1
    <3>2. Mapped(u)' <=> Pending(u) BY <1>0, <2>2, <3>1 DEF Mapped, Pending
    <3> QED BY <1>3, <3>2
  <2>7. Life[c] = "active" BY <1>1, <2>1 DEF Life, Waits
  <2>8. Drives' = [Drives EXCEPT ![t] = c] /\ Life' = [Life EXCEPT ![c] = "active"]
    <3>1. c # NoCo /\ target'[t] = c /\ started'[c] BY <1>1
    <3>2. \A u \in Thread \ {t} : /\ Mapped(u)' <=> Mapped(u)
                                  /\ Mapped(u) => target'[u] = target[u]
      BY <1>1, <2>6
    <3>3. \A d \in Co \ {c} : /\ started'[d] <=> started[d]
                              /\ pc'[d] = "dead" <=> pc[d] = "dead"
      BY <1>1 DEF Thread
    <3> QED BY <2>5, <3>1, <3>2, <3>3, NewWait
  <2>9. [Life EXCEPT ![c] = "active"] = Life
    <3>1. Life = [d \in Co |-> Life[d]] BY DEF Life
    <3> QED BY <2>7, <3>1
  <2>10. Abs!Wedge(t, c) BY <1>1, <1>3, <2>4, <2>7, <2>8, <2>9 DEF Abs!Wedge
  <2> QED BY <2>10 DEF Abs!Next, Abs!Thread, Thread
<1> QED BY <1>4, <1>5

\* the wait and the clear, and the answer collected.
LEMMA AbsWaitClear ==
  ASSUME OwnerInv, OwnerInv', NEW t \in Thread, WaitCaller(t) \/ ClearCaller(t)
  PROVE  UNCHANGED Abs!vars
<1> USE CoAssumption DEF LocalInv, TypeOK
<1>0. LocalInv BY DEF OwnerInv
<1>1. PICK c \in Co :
      /\ c = target[t] /\ c # t /\ pc[c] \in {"susp", "dead"}
      /\ Back(c) /\ SomeOwner /\ \A u \in Thread : Owner(u) <=> u = c
      /\ \A d \in Co : ~Toward(d)
      /\ pc[t] \in {"drive", "woken"}
  BY OwnerAnswered DEF WaitCaller, ClearCaller, Goto
<1>2. /\ pc'[t] \in {"woken", "collect"}
      /\ \A u \in Thread \ {t} : pc'[u] = pc[u]
      /\ UNCHANGED <<target, toCo, arg, heard, started>>
  BY <1>0, <1>1 DEF WaitCaller, ClearCaller, Goto, object
<1>3. \A d \in Co : ~Toward(d)' BY <1>1, <1>2 DEF Toward, Thread
<1>4. Owner(c) /\ Owner(c)' /\ c \in Thread
  BY <1>1, <1>2 DEF Owner, Back, Thread
<1>5. \A u \in Thread : Mapped(u)' <=> Mapped(u)
  <2> SUFFICES ASSUME NEW u \in Thread PROVE Mapped(u)' <=> Mapped(u)
    OBVIOUS
  <2>1. target'[u] = target[u] /\ target[u] \in Co \cup {NoCo} BY <1>0, <1>2
  <2>2. Pending(u)' <=> Pending(u) BY <1>1, <1>2 DEF Pending
  <2> QED BY <1>1, <1>3, <2>1, <2>2 DEF Mapped, Pending
<1>6. Drives' = Drives /\ Life' = Life
  BY <1>1, <1>2, <1>5, SameView DEF Thread
<1> QED BY <1>2, <1>4, <1>6, Unseen

LEMMA AbsCollect ==
  ASSUME OwnerInv, OwnerInv', SignalInv, NEW t \in Thread, Collect(t) PROVE Abs!Next
<1> USE CoAssumption DEF LocalInv, TypeOK
<1>0. LocalInv BY DEF OwnerInv
<1>1. PICK c \in Co :
      /\ c = target[t] /\ c # t /\ pc[c] \in {"susp", "dead"} /\ c \in Thread
      /\ SomeOwner /\ \A u \in Thread : Owner(u) <=> u = c
      /\ \A d \in Co : ~Toward(d)
      /\ pc[t] = "collect" /\ started[c] /\ (finished[c] <=> pc[c] = "dead")
  BY <1>0, OwnerAnswered DEF Collect, Goto, Thread
<1>2. /\ pc'[t] \in {"run", "relay"} /\ target'[t] = NoCo
      /\ \A u \in Thread \ {t} : pc'[u] = pc[u] /\ target'[u] = target[u]
      /\ UNCHANGED <<toCo, toCaller, arg, started>>
      /\ heard' = [heard EXCEPT ![t] = Answer(t)]
  BY <1>0, <1>1 DEF Collect, Goto, object
<1>3. Runner = c /\ Runner' = t
  <2>1. Owner(c) /\ Owner(t)' BY <1>1, <1>2 DEF Owner, Executing
  <2> QED BY <1>1, <2>1, RunnerIs, RunnerNext DEF OwnerInv
<1>4. \A d \in Co : ~Toward(d)' BY <1>1, <1>2 DEF Toward, Thread
<1>5. \A u \in Thread : Pending(u) /\ target[u] = c => u = t
  BY <1>1 DEF OwnerInv, DriverInv, Pending
<1>6. Mapped(t) /\ ~Mapped(t)' BY <1>1, <1>2 DEF Mapped
<1>7. \A u \in Thread \ {t} : Mapped(u)' <=> Mapped(u)
  <2> SUFFICES ASSUME NEW u \in Thread \ {t} PROVE Mapped(u)' <=> Mapped(u)
    OBVIOUS
  <2>1. target'[u] = target[u] /\ target[u] \in Co \cup {NoCo} /\ pc'[u] = pc[u] BY <1>0, <1>2
  <2> QED BY <1>1, <1>4, <2>1 DEF Mapped
<1>8. Drives[t] = c /\ Drives' = [Drives EXCEPT ![t] = NoCo]
  BY <1>1, <1>2, <1>6, <1>7 DEF Drives
<1>9. ~Waits(c)' /\ \A d \in Co \ {c} : Waits(d)' <=> Waits(d)
  <2>1. ~Waits(c)' BY <1>2, <1>5, <1>6, <1>7 DEF Waits, Mapped, Pending
  <2> QED BY <1>1, <1>2, <1>6, <1>7, <2>1 DEF Waits
<1>10. Life' = [Life EXCEPT ![c] = IF finished[c] THEN "ended" ELSE "suspended"]
  <2>1. Life'[c] = IF finished[c] THEN "ended" ELSE "suspended"
    BY <1>1, <1>2, <1>9 DEF Life, Waits
  <2>2. \A d \in Co \ {c} : Life'[d] = Life[d]
    <3> SUFFICES ASSUME NEW d \in Co \ {c} PROVE Life'[d] = Life[d]
      OBVIOUS
    <3>1. pc'[d] = "dead" <=> pc[d] = "dead" BY <1>1, <1>2 DEF Thread
    <3> QED BY <1>2, <1>9, <3>1 DEF Life, Waits
  <2>3. Life = [d \in Co |-> Life[d]] /\ Life' = [d \in Co |-> Life'[d]] BY DEF Life
  <2> QED BY <2>1, <2>2, <2>3
<1>11. CASE ~finished[c]
  <2>1. Answer(t) = Abs!Msg("yielded", arg[c])
    BY <1>1, <1>11 DEF Answer, Msg, Abs!Msg, SignalInv
  <2>2. Abs!Yield(c, t)
    BY <1>2, <1>3, <1>8, <1>10, <1>11, <2>1 DEF Abs!Yield, Abs!HandBack
  <2> QED BY <2>2 DEF Abs!Next, Abs!Thread, Thread
<1>12. CASE finished[c]
  <2>1. Answer(t) \in {Abs!Msg("ended", arg[c]), Abs!Msg("stop", Nil)}
    BY <1>1, <1>12 DEF Answer, Msg, Abs!Msg, SignalInv
  <2>2. Abs!Return(c, t)
    BY <1>2, <1>3, <1>8, <1>10, <1>12, <2>1 DEF Abs!Return, Abs!HandBack
  <2> QED BY <1>1, <2>2 DEF Abs!Next, Abs!Thread, Thread
<1> QED BY <1>11, <1>12

\* Beginning to resume: a finished coroutine answers again, to another one the
\* thread is about to hand a value over.
LEMMA AbsEnter ==
  ASSUME OwnerInv, OwnerInv', SignalInv, NEW t \in Thread, NEW from \in {"run", "relay"},
         NEW c \in Co, NEW v \in Payload, NEW reply \in {"stop", "ended"},
         EnterAdvance(t, from, c, v, reply)
  PROVE  Abs!Next
<1> USE CoAssumption DEF LocalInv, TypeOK
<1>0. LocalInv BY DEF OwnerInv
<1>1. /\ pc[t] = from /\ pc'[t] \in {"run", "relay", "enter"}
      /\ \A u \in Thread \ {t} : pc'[u] = pc[u] /\ target'[u] = target[u]
      /\ UNCHANGED <<toCo, toCaller, started>>
  BY <1>0 DEF EnterAdvance, Goto, object
<1>2. pc[t] \in Executing /\ pc'[t] \in Executing BY <1>1 DEF Executing
<1>3. Runner = t /\ Runner' = t
  <2>1. Owner(t)' BY <1>2 DEF Owner
  <2> QED BY <1>2, <2>1, WhileExecuting, RunnerNext DEF OwnerInv
<1>4. Drives' = Drives /\ Life' = Life
  <2>1. \A d \in Co : Toward(d)' <=> Toward(d) BY <1>1 DEF Toward, Thread
  <2>2. \A u \in Thread : /\ Mapped(u)' <=> Mapped(u)
                          /\ Mapped(u) => target'[u] = target[u]
    BY <1>0, <1>1, <2>1 DEF Mapped
  <2>3. \A d \in Co : /\ started'[d] <=> started[d]
                      /\ pc'[d] = "dead" <=> pc[d] = "dead"
    BY <1>1 DEF Thread
  <2> QED BY <2>2, <2>3, SameView
<1>5. CASE finished[c]
  <2>1. /\ heard' = [heard EXCEPT ![t] = Msg(reply, IF reply = "ended" THEN result[c] ELSE Nil)]
        /\ arg' = arg
    BY <1>5 DEF EnterAdvance
  <2>2. pc[c] = "dead" /\ started[c]
    <3>1. pc[c] \in {"announce", "dead"} /\ c \in Thread BY <1>0, <1>5 DEF Thread
    <3>2. pc[c] # "announce"
      BY <1>1, <1>2, <3>1, WhileExecuting DEF Owner, Executing
    <3> QED BY <1>0, <3>1, <3>2
  <2>3. ~Waits(c)
    <3>1. ~Busy(c) BY <1>2, <2>2, WhileExecuting DEF Busy
    <3> QED BY <1>2, <3>1, WhileExecuting DEF Waits, OwnerInv, DriverInv
  <2>4. Life[c] = "ended" BY <2>2, <2>3 DEF Life, Waits
  <2>5. \E m \in {Abs!Msg("ended", arg[c]), Abs!Msg("stop", Nil)} : heard' = [heard EXCEPT ![t] = m]
    <3>1. result[c] = arg[c] BY <2>2 DEF SignalInv
    <3> QED BY <2>1, <3>1 DEF Msg, Abs!Msg
  <2>6. Abs!Replay(t, c) BY <1>3, <1>4, <2>1, <2>4, <2>5 DEF Abs!Replay
  <2> QED BY <2>6 DEF Abs!Next, Abs!Thread, Thread
<1>6. CASE ~finished[c]
  <2>1. arg' = [arg EXCEPT ![t] = v] /\ heard' = heard BY <1>6 DEF EnterAdvance
  <2> QED BY <1>2, <1>4, <2>1, Speaks
<1> QED BY <1>5, <1>6

\* The coroutine's side: what it puts out,
LEMMA AbsPutsOut ==
  ASSUME OwnerInv, OwnerInv', NEW c \in Co, SetToCaller(c) \/ Announce(c)
  PROVE  UNCHANGED Abs!vars
<1> USE CoAssumption DEF LocalInv, TypeOK
<1>0. LocalInv /\ c \in Thread BY DEF OwnerInv, Thread
<1>1. /\ pc[c] \in {"publish", "announce"} /\ pc'[c] \in {"susp", "dead"}
      /\ \A u \in Thread \ {c} : pc'[u] = pc[u]
      /\ toCaller'[c]
      /\ UNCHANGED <<target, toCo, arg, heard, started>>
  BY <1>0 DEF SetToCaller, Announce, Goto
<1>2. pc[c] \in Executing BY <1>1 DEF Executing
<1>3. /\ Owner(c) /\ SomeOwner
      /\ \A d \in Co : ~Toward(d) /\ ~Back(d)
      /\ \A u \in Thread : Mapped(u) <=> Pending(u)
  BY <1>0, <1>2, WhileExecuting
<1>4. Owner(c)' BY <1>0, <1>1 DEF Owner, Back
<1>5. \A d \in Co : Toward(d)' <=> Toward(d)
  <2>1. ~toCo[c] BY <1>1, <1>3 DEF OwnerInv, DriverInv
  <2> QED BY <1>1, <2>1 DEF Toward, Thread
<1>6. Waits(c)
  <2>1. Busy(c) BY <1>1 DEF Busy
  <2> QED BY <1>3, <2>1 DEF OwnerInv, DriverInv, Waits
<1>7. \A u \in Thread : Mapped(u)' <=> Mapped(u) BY <1>0, <1>1, <1>5 DEF Mapped
<1>8. Drives' = Drives /\ Life' = Life
  <2>1. \A d \in Co : Waits(d) \/ (pc'[d] = "dead" <=> pc[d] = "dead")
    BY <1>1, <1>6 DEF Thread
  <2> QED BY <1>1, <1>7, <2>1, SameView
<1> QED BY <1>0, <1>1, <1>3, <1>4, <1>8, Unseen

\* its waking up,
LEMMA AbsWaitClearCo ==
  ASSUME OwnerInv, OwnerInv', NEW c \in Co, WaitCo(c) \/ ClearCo(c)
  PROVE  UNCHANGED Abs!vars
<1> USE CoAssumption DEF LocalInv, TypeOK
<1>0. LocalInv /\ c \in Thread BY DEF OwnerInv, Thread
<1>1. Toward(c) BY DEF WaitCo, ClearCo, Goto, Toward
<1>2. PICK t \in Thread :
        /\ target[t] = c /\ pc[t] = "drive" /\ t # c
        /\ \A u \in Thread : Owner(u) <=> u = t
  BY <1>1, OwnerResumed
<1>3. /\ pc[c] \in {"susp", "resumed"} /\ pc'[c] \in {"resumed", "take"}
      /\ \A u \in Thread \ {c} : pc'[u] = pc[u]
      /\ \A d \in Co \ {c} : toCo'[d] = toCo[d]
      /\ UNCHANGED <<target, arg, heard, started>>
  BY <1>0 DEF WaitCo, ClearCo, Goto, object
<1>4. \A d \in Co : Toward(d)' <=> Toward(d) BY <1>1, <1>3 DEF Toward, Thread
<1>5. Owner(t) /\ Owner(t)' BY <1>1, <1>2, <1>3, <1>4 DEF Owner
<1>6. \A u \in Thread : Mapped(u)' <=> Mapped(u) BY <1>0, <1>3, <1>4 DEF Mapped
<1>7. Drives' = Drives /\ Life' = Life BY <1>3, <1>6, SameView DEF Thread
<1> QED BY <1>3, <1>5, <1>7, Unseen

\* and its taking what was sent: control is with it.
LEMMA AbsTake ==
  ASSUME OwnerInv, OwnerInv', SignalInv, NEW c \in Co, Take(c) PROVE Abs!Next
<1> USE CoAssumption DEF LocalInv, TypeOK
<1>0. LocalInv /\ c \in Thread /\ c # NoCo BY DEF OwnerInv, Thread
<1>1. Toward(c) BY DEF Take, Goto, Toward
<1>2. PICK t \in Thread :
        /\ target[t] = c /\ pc[t] = "drive" /\ t # c
        /\ \A u \in Thread : Owner(u) <=> u = t
        /\ SomeOwner
        /\ \A d \in Co : Toward(d) => d = c
  BY <1>1, OwnerResumed
<1>3. /\ pc[c] = "take" /\ pc'[c] \in {"run", "relay"}
      /\ \A u \in Thread \ {c} : pc'[u] = pc[u]
      /\ UNCHANGED <<target, toCo, arg, started>>
      /\ heard' = [heard EXCEPT ![c] = Msg("sent", inValue[c])]
      /\ started[c]
  BY <1>0 DEF Take, Goto, object
<1>4. \A u \in Thread : Pending(u) /\ target[u] = c => u = t
  BY <1>2 DEF OwnerInv, DriverInv, Pending
<1>5. inValue[c] = arg[t]
  BY <1>3, <1>4 DEF SignalInv, Sent, Pending
<1>6. Runner = t /\ Runner' = c
  <2>1. Owner(t) /\ Owner(c)' BY <1>2, <1>3 DEF Owner, Executing
  <2> QED BY <1>0, <2>1, RunnerIs, RunnerNext DEF OwnerInv
<1>7. \A d \in Co : ~Toward(d)' /\ (Toward(d) <=> d = c)
  BY <1>1, <1>2, <1>3 DEF Toward, Thread
<1>8. Mapped(t)' /\ ~Mapped(t) BY <1>0, <1>1, <1>2, <1>3, <1>7 DEF Mapped
<1>9. \A u \in Thread \ {t} : Mapped(u)' <=> Mapped(u)
  <2> SUFFICES ASSUME NEW u \in Thread \ {t} PROVE Mapped(u)' <=> Mapped(u)
    OBVIOUS
  <2>1. target'[u] = target[u] /\ target[u] \in Co \cup {NoCo} BY <1>0, <1>3
  <2>2. Pending(u)' <=> Pending(u) BY <1>3 DEF Pending
  <2>3. Pending(u) => target[u] # c BY <1>4
  <2> QED BY <1>7, <2>1, <2>2, <2>3 DEF Mapped, Pending
<1>10. ~Waits(c) BY <1>1 DEF Waits, Mapped
<1>11. Life[c] = "suspended" BY <1>3, <1>10 DEF Life, Waits
<1>12. Drives' = [Drives EXCEPT ![t] = c] /\ Life' = [Life EXCEPT ![c] = "active"]
  <2>1. target'[t] = c /\ started'[c] BY <1>2, <1>3
  <2>2. \A u \in Thread \ {t} : /\ Mapped(u)' <=> Mapped(u)
                                /\ Mapped(u) => target'[u] = target[u]
    BY <1>3, <1>9
  <2>3. \A d \in Co \ {c} : /\ started'[d] <=> started[d]
                            /\ pc'[d] = "dead" <=> pc[d] = "dead"
    BY <1>3 DEF Thread
  <2> QED BY <1>0, <1>8, <2>1, <2>2, <2>3, NewWait
<1>13. Abs!Resume(t, c)
  BY <1>3, <1>5, <1>6, <1>11, <1>12 DEF Abs!Resume, Msg, Abs!Msg
<1> QED BY <1>13 DEF Abs!Next, Abs!Thread, Thread

\* A thread that goes on executing starts or stops no wait.
LEMMA Executes ==
  ASSUME OwnerInv, OwnerInv', NEW t \in Thread, NEW x \in Executing,
         pc[t] \in Executing, pc' = [pc EXCEPT ![t] = x], UNCHANGED <<target, toCo, started>>
  PROVE  /\ Owner(t) /\ Owner(t)' /\ pc'[t] \in Executing
         /\ Drives' = Drives /\ Life' = Life
<1> USE DEF LocalInv, TypeOK
<1>1. /\ pc'[t] = x /\ \A u \in Thread \ {t} : pc'[u] = pc[u] BY DEF OwnerInv
<1>2. Owner(t) /\ Owner(t)' BY <1>1 DEF Owner
<1>3. \A d \in Co : Toward(d)' <=> Toward(d) BY <1>1 DEF Toward, Executing, Thread
<1>4. \A u \in Thread : Mapped(u)' <=> Mapped(u)
  <2> SUFFICES ASSUME NEW u \in Thread PROVE Mapped(u)' <=> Mapped(u)
    OBVIOUS
  <2>1. target'[u] = target[u] /\ target[u] \in Co \cup {NoCo} BY DEF OwnerInv
  <2>2. Pending(u)' <=> Pending(u) BY <1>1 DEF Pending, Executing
  <2> QED BY <1>3, <2>1, <2>2 DEF Mapped, Pending
<1>5. \A d \in Co : pc'[d] = "dead" <=> pc[d] = "dead" BY <1>1 DEF Executing, Thread
<1> QED BY <1>1, <1>2, <1>4, <1>5, SameView

LEMMA AbsSuspend ==
  ASSUME OwnerInv, OwnerInv', SignalInv, NEW c \in Co, Suspend(c)
  PROVE  Abs!Next \/ UNCHANGED Abs!vars
<1>0. LocalInv /\ c \in Thread BY DEF OwnerInv, Thread
<1>1. CASE StoreOut(c) \/ StoreResult(c) \/ Finish(c) \/ RelayEnded(c)
  <2>1. /\ pc[c] \in Executing /\ \E x \in Executing : pc' = [pc EXCEPT ![c] = x]
        /\ UNCHANGED <<target, toCo, started, arg, heard>>
    BY <1>1 DEF StoreOut, StoreResult, Finish, RelayEnded, Goto, Executing, object
  <2> QED BY <1>0, <2>1, Executes, Unseen
<1>2. CASE RelayYielded(c)
  <2>1. /\ pc[c] \in Executing /\ \E x \in Executing : pc' = [pc EXCEPT ![c] = x]
        /\ UNCHANGED <<target, toCo, started, heard>>
        /\ arg' = [arg EXCEPT ![c] = heard[c].val]
    BY <1>2 DEF RelayYielded, Goto, Executing, object
  <2>2. heard[c].val \in Payload BY <1>0 DEF LocalInv, TypeOK, Message
  <2> QED BY <1>0, <2>1, <2>2, Executes, Speaks
<1>3. CASE RelaySent(c)
  <2>1. deleg[c] \in Co /\ heard[c].val \in Payload
    BY <1>0, <1>3 DEF RelaySent, LocalInv, TypeOK, Message
  <2> QED BY <1>0, <1>3, <2>1, AbsEnter DEF RelaySent
<1> QED BY <1>1, <1>2, <1>3, AbsPutsOut, AbsWaitClearCo, AbsTake DEF Suspend

LEMMA AbsAdvance ==
  ASSUME OwnerInv, OwnerInv', SignalInv, NEW t \in Thread, Advance(t)
  PROVE  Abs!Next \/ UNCHANGED Abs!vars
<1>1. CASE StoreIn(t)
  <2>1. /\ pc[t] \in Executing /\ \E x \in Executing : pc' = [pc EXCEPT ![t] = x]
        /\ UNCHANGED <<target, toCo, started, arg, heard>>
    BY <1>1 DEF StoreIn, Goto, Executing
  <2> QED BY <2>1, Executes, Unseen
<1> QED BY <1>1, AbsStartThread, AbsSetToCo, AbsWaitClear, AbsCollect DEF Advance

LEMMA AbsBody ==
  ASSUME OwnerInv, OwnerInv', SignalInv, BodyStep \/ CoBodyStep PROVE Abs!Next
<1>1. CASE BodyStep
  <2>1. PICK t \in Thread, c \in Co, v \in Payload : EnterAdvance(t, "run", c, v, "stop")
    BY <1>1 DEF BodyStep, Body, NextCo, SendCo, Payload
  <2> QED BY <2>1, AbsEnter
<1>2. CASE CoBodyStep
  <2>1. PICK c \in Co : CoBody(c) BY <1>2 DEF CoBodyStep
  <2>2. ASSUME NEW v \in Payload, Yield(c, v) \/ Leave(c, v) PROVE Abs!Next
    <3>1. /\ pc[c] \in Executing /\ \E x \in Executing : pc' = [pc EXCEPT ![c] = x]
          /\ UNCHANGED <<target, toCo, started, heard>>
          /\ arg' = [arg EXCEPT ![c] = v]
      BY <2>2 DEF Yield, Leave, Goto, Executing, object
    <3> QED BY <3>1, Executes, Speaks DEF Thread
  <2>3. ASSUME NEW s \in Co, YieldFrom(c, s) PROVE Abs!Next
    <3>1. EnterAdvance(c, "run", s, Nil, "ended") /\ c \in Thread /\ Nil \in Payload
      BY <2>3 DEF YieldFrom, Thread, Payload
    <3> QED BY <3>1, AbsEnter
  <2> QED BY <2>1, <2>2, <2>3 DEF CoBody
<1> QED BY <1>1, <1>2

LEMMA AbsInit == Init => Abs!Init
<1> SUFFICES ASSUME Init PROVE Abs!Init
  OBVIOUS
<1> USE CoAssumption DEF Init, Thread
<1>1. \A t \in Thread : ~Mapped(t) /\ (Owner(t) <=> t = Main)
  BY DEF Mapped, Owner, Executing, Back
<1>2. OneOwner BY <1>1 DEF OneOwner
<1>3. Runner = Main BY <1>1, <1>2, RunnerIs
<1>4. Drives = [t \in Thread |-> NoCo] BY <1>1 DEF Drives
<1>5. Life = [c \in Co |-> "fresh"] BY DEF Life
<1> QED BY <1>3, <1>4, <1>5 DEF Abs!Init, Abs!Thread, Abs!Msg, Msg

\* The events, mailboxes and flags of every program's coroutines implement the
\* abstract coroutine: whatever the threads do in between, each hand-over
\* appears as one step that moves control and one value to where the program
\* meant them to go, or, when an active coroutine is resumed, loses control.
THEOREM ImplementsAbs == Spec => AbsSpec
<1>1. OwnerInv /\ OwnerInv' /\ SignalInv /\ [Next]_vars => [Abs!Next]_(Abs!vars)
  <2> SUFFICES ASSUME OwnerInv, OwnerInv', SignalInv, [Next]_vars
               PROVE  Abs!Next \/ UNCHANGED Abs!vars
    OBVIOUS
  <2>1. CASE UNCHANGED vars
    BY <2>1 DEF vars, object, Abs!vars, Runner, ControlKept, Owner, Toward, Back,
                Drives, Life, Mapped
  <2> QED BY <2>1, NextSplit, AbsAdvance, AbsSuspend, AbsBody DEF AdvanceStep, SuspendStep
<1> QED BY <1>1, AbsInit, OwnerAlways, SignalAlways, PTL DEF Spec, AbsSpec, Abs!Spec
=============================================================================

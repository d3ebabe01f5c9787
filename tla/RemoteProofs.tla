---------------------------- MODULE RemoteProofs ----------------------------
(***************************************************************************)
(* Theorems about Remote for any set of threads, any set of calls and any  *)
(* bound on the signals of a handler.                                      *)
(***************************************************************************)
EXTENDS Remote, FiniteSetTheorems, SequenceTheorems, TLAPS

Signals(c) == {e \in Event : e.kind = "signal" /\ e.of = c}
LoadError  == [kind |-> "load_error", of |-> "load"]

\* A call the child has yet to answer, and one it has said something about.
Unanswered(c) ==
  /\ child # "ended"
  /\ (\E i \in 1 .. Len(callQ) : callQ[i] = c) \/ (child = "working" /\ serving = c)
Mentioned(c) == \E i \in 1 .. Len(eventQ) : eventQ[i].of = c

\* A call is under way in one place, and without an answer as long as it is.
StacksApart ==
  /\ \A t, u \in Thread : \A i \in 1 .. Len(waiting[t]), j \in 1 .. Len(waiting[u]) :
       waiting[t][i] = waiting[u][j] => t = u /\ i = j
  /\ \A c \in UnderWay : answer[c] = "none" /\ c \notin abandoned

\* A thread runs a callback for a call.
CallbacksCalled == \A t \in inCallback : waiting[t] # <<>>

\* A module that does not load says so and nothing else.
LoadingSilent ==
  /\ child = "loading" => eventQ = <<>>
  /\ (\E i \in 1 .. Len(eventQ) : eventQ[i].kind = "load_error") =>
       child = "ended" /\ eventQ = <<LoadError>>

\* Answers and calls balance; a child that has ended answers at most as many.
Expected == Cardinality(UnderWay) + Cardinality(abandoned)
Working == IF child = "working" THEN 1 ELSE 0
Balance ==
  /\ IsFiniteSet(UnderWay) /\ IsFiniteSet(abandoned) /\ IsFiniteSet(lost)
  /\ child # "ended" =>
       Expected = Len(callQ) + Working + Count(eventQ, Answers) + Cardinality(lost)
  /\ child = "ended" =>
       \/ Count(eventQ, Answers) + Cardinality(lost) <= Expected
       \/ eventQ = <<>> \/ eventQ = <<LoadError>>

\* A signal is never the last word of a handler whose result is not dropped.
SignalsAnswered ==
  lost = {} =>
    \A i \in 1 .. Len(eventQ) : eventQ[i].kind = "signal" =>
      child = "working" \/ \E j \in i + 1 .. Len(eventQ) : eventQ[j].kind # "signal"

\* The child knows of no call but those made, and handles each once.
EachOnce ==
  /\ \A c \in Request : Unanswered(c) \/ Mentioned(c) => c \in Made
  /\ \A c \in lost : c \in Made /\ ~Unanswered(c)
  /\ child # "ended" =>
       \A i \in 1 .. Len(callQ) :
         /\ ~Mentioned(callQ[i])
         /\ child = "working" => serving # callQ[i]
         /\ \A j \in 1 .. Len(callQ) : callQ[i] = callQ[j] => i = j

\* While a call is alone under way there is no trace of any other ...
AloneWhile ==
  \A c \in UnderWay \ overlapping :
    /\ UnderWay = {c} /\ abandoned = {}
    /\ \A d \in Request : Unanswered(d) \/ Mentioned(d) => d = c

\* ... and once it is answered none of its own.
AloneAfter ==
  \A c \in Request \ overlapping : answer[c] # "none" =>
    answer[c] \in {"load", c} /\ ~Unanswered(c) /\ ~Mentioned(c)

\* unseen counts the signals in the queue.
UnseenCounted ==
  /\ \A c \in Request : unseen[c] = Count(eventQ, Signals(c))
  /\ child = "working" => unseen[serving] <= emitted

RemoteInv ==
  /\ TypeOK /\ StacksApart /\ CallbacksCalled /\ LoadingSilent /\ Balance /\ SignalsAnswered
  /\ EachOnce /\ AloneWhile /\ AloneAfter /\ UnseenCounted

-----------------------------------------------------------------------------
(* Counting in a queue. *)

LEMMA CountType ==
  ASSUME NEW S, NEW s \in Seq(S), NEW T
  PROVE  /\ IsFiniteSet({i \in 1 .. Len(s) : s[i] \in T})
         /\ Count(s, T) \in Nat
         /\ Count(s, T) = 0 => \A i \in 1 .. Len(s) : s[i] \notin T
<1> DEFINE D == {i \in 1 .. Len(s) : s[i] \in T}
<1>1. IsFiniteSet(1 .. Len(s)) BY FS_Interval
<1>2. IsFiniteSet(D) BY <1>1, FS_Subset
<1>3. Cardinality(D) = 0 => D = {} BY <1>2, FS_EmptySet
<1> QED BY <1>2, <1>3, FS_CardinalityType DEF Count

LEMMA CountEmpty == ASSUME NEW T PROVE Count(<<>>, T) = 0
<1>1. {i \in 1 .. Len(<<>>) : <<>>[i] \in T} = {} OBVIOUS
<1> QED BY <1>1, FS_EmptySet DEF Count

LEMMA CountAppend ==
  ASSUME NEW S, NEW s \in Seq(S), NEW e \in S, NEW T
  PROVE  Count(Append(s, e), T) = Count(s, T) + (IF e \in T THEN 1 ELSE 0)
<1> DEFINE D == {i \in 1 .. Len(s) : s[i] \in T}
           n == Len(s) + 1
           E == {i \in 1 .. Len(Append(s, e)) : Append(s, e)[i] \in T}
<1>1. E = IF e \in T THEN D \cup {n} ELSE D OBVIOUS
<1>2. n \notin D OBVIOUS
<1>3. IsFiniteSet(D) BY CountType
<1> HIDE DEF D, n, E
<1>4. Cardinality(D \cup {n}) = Cardinality(D) + 1 BY <1>2, <1>3, FS_AddElement
<1>5. Cardinality(D) \in Nat BY <1>3, FS_CardinalityType
<1>6. Cardinality(E) = Cardinality(D) + (IF e \in T THEN 1 ELSE 0)
  BY <1>1, <1>4, <1>5
<1> QED BY <1>6 DEF Count, D, E

LEMMA CountTail ==
  ASSUME NEW S, NEW s \in Seq(S), s # <<>>, NEW T
  PROVE  Count(Tail(s), T) = Count(s, T) - (IF Head(s) \in T THEN 1 ELSE 0)
<1> DEFINE D == {i \in 1 .. Len(s) : s[i] \in T}
           E == {i \in 1 .. Len(Tail(s)) : Tail(s)[i] \in T}
           F == D \ {1}
           f == [i \in E |-> i + 1]
<1>1. IsFiniteSet(D) /\ IsFiniteSet(E)
  <2>1. Tail(s) \in Seq(S) OBVIOUS
  <2> QED BY <2>1, CountType
<1>2. f \in Bijection(E, F)
  <2>1. f \in [E -> F] OBVIOUS
  <2>2. \A i, j \in E : f[i] = f[j] => i = j OBVIOUS
  <2>3. \A k \in F : k - 1 \in E /\ f[k - 1] = k OBVIOUS
  <2>4. \A k \in F : \E i \in E : f[i] = k BY <2>3
  <2> HIDE DEF f, E, F
  <2> QED BY <2>1, <2>2, <2>4 DEF Bijection, Injection, Surjection, IsInjective
<1>3. Cardinality(E) = Cardinality(F)
  <2> HIDE DEF f, E, F
  <2>1. ExistsBijection(E, F) BY <1>2 DEF ExistsBijection
  <2> QED BY <1>1, <2>1, FS_Bijection
<1>4. 1 \in D <=> Head(s) \in T OBVIOUS
<1> HIDE DEF D, E
<1>5. Cardinality(F) = Cardinality(D) - (IF 1 \in D THEN 1 ELSE 0)
  BY <1>1, FS_RemoveElement, FS_CardinalityType
<1> QED BY <1>3, <1>4, <1>5 DEF Count, D, E

-----------------------------------------------------------------------------
(* What the steps do to the calls under way. *)

LEMMA StackMembers ==
  ASSUME NEW w \in [Thread -> Seq(Request)]
  PROVE  \A c : c \in UNION {Range(w[t]) : t \in Thread} <=>
                  \E t \in Thread : \E i \in 1 .. Len(w[t]) : w[t][i] = c
<1>1. \A t \in Thread : Range(w[t]) = {w[t][i] : i \in 1 .. Len(w[t])}
  BY RangeEquality
<1> QED BY <1>1

LEMMA CallViews ==
  ASSUME RemoteInv, NEW t \in Thread, NEW c \in Request, Call(t, c)
  PROVE  /\ TypeOK' /\ StacksApart' /\ CallbacksCalled'
         /\ c \notin UnderWay /\ UnderWay' = UnderWay \cup {c}
         /\ c \notin Made /\ Made' = Made \cup {c}
<1> DEFINE n == Len(waiting[t])
<1>0. StacksApart BY DEF RemoteInv
<1>1. /\ waiting' = [waiting EXCEPT ![t] = Append(waiting[t], c)]
      /\ c \notin Made /\ answer' = answer /\ abandoned' = abandoned
      /\ inCallback' = inCallback \ {t}
  BY DEF Call
<1>2. waiting \in [Thread -> Seq(Request)] BY DEF RemoteInv, TypeOK
<1>3. /\ Append(waiting[t], c) \in Seq(Request)
      /\ Len(Append(waiting[t], c)) = n + 1
      /\ Append(waiting[t], c)[n + 1] = c
      /\ \A i \in 1 .. n : Append(waiting[t], c)[i] = waiting[t][i]
  BY <1>2, AppendProperties
<1>4. waiting' \in [Thread -> Seq(Request)] BY <1>1, <1>2, <1>3
<1>5. TypeOK'
  <2>0. TypeOK BY DEF RemoteInv
  <2>1. callQ' \in Seq(Request) /\ lost' \subseteq Request
    <3>1. callQ \in Seq(Request) /\ lost \subseteq Request BY <2>0 DEF TypeOK
    <3>2. Append(callQ, c) \in Seq(Request) BY <3>1, AppendProperties
    <3> QED BY <3>1, <3>2 DEF Call
  <2>2. overlapping' \subseteq Request
    <3>1. \A d \in UnderWay : d \in Request BY <1>2, RangeOfSeq DEF UnderWay
    <3> QED BY <2>0, <3>1 DEF Call, TypeOK
  <2>3. UNCHANGED <<eventQ, child, serving, emitted, answer, abandoned, unseen>> BY DEF Call
  <2>4. inCallback' \subseteq Thread BY <1>1, <2>0 DEF TypeOK
  <2> QED BY <1>4, <2>0, <2>1, <2>2, <2>3, <2>4 DEF TypeOK
<1>6. /\ Len(waiting'[t]) = n + 1
      /\ waiting'[t][n + 1] = c
      /\ \A i \in 1 .. n : waiting'[t][i] = waiting[t][i]
      /\ \A u \in Thread \ {t} : waiting'[u] = waiting[u]
  BY <1>1, <1>2, <1>3
<1>7. \A u \in Thread : Len(waiting[u]) \in Nat BY <1>2, LenProperties
<1>8. \A d : d \in UnderWay <=>
               \E u \in Thread : \E i \in 1 .. Len(waiting[u]) : waiting[u][i] = d
  BY <1>2, StackMembers DEF UnderWay
<1>9. \A d : d \in UnderWay' <=>
               \E u \in Thread : \E i \in 1 .. Len(waiting'[u]) : waiting'[u][i] = d
  BY <1>4, StackMembers DEF UnderWay
<1>10. \A u \in Thread : \A i \in 1 .. Len(waiting'[u]) :
         \/ i \in 1 .. Len(waiting[u]) /\ waiting'[u][i] = waiting[u][i]
         \/ u = t /\ i = n + 1 /\ waiting'[u][i] = c
  <2> TAKE u \in Thread
  <2>1. CASE u = t BY <1>6, <1>7, <2>1
  <2>2. CASE u # t BY <1>6, <2>2
  <2> QED BY <2>1, <2>2
<1>11. UnderWay' = UnderWay \cup {c}
  <2>1. ASSUME NEW d \in UnderWay' PROVE d \in UnderWay \cup {c}
    BY <1>8, <1>9, <1>10, <2>1
  <2>2. ASSUME NEW d \in UnderWay PROVE d \in UnderWay'
    <3>0. PICK u \in Thread : \E i \in 1 .. Len(waiting[u]) : waiting[u][i] = d
      BY <1>8, <2>2
    <3>1. CASE u = t BY <1>6, <1>7, <1>9, <3>0, <3>1
    <3>2. CASE u # t BY <1>6, <1>9, <3>0, <3>2
    <3> QED BY <3>1, <3>2
  <2>3. c \in UnderWay' BY <1>6, <1>7, <1>9
  <2> QED BY <2>1, <2>2, <2>3
<1>12. c \notin UnderWay BY <1>1 DEF Made
<1>13. StacksApart'
  <2>1. ASSUME NEW u \in Thread, NEW v \in Thread, NEW i \in 1 .. Len(waiting'[u]),
               NEW j \in 1 .. Len(waiting'[v]), waiting'[u][i] = waiting'[v][j]
        PROVE  u = v /\ i = j
    BY <1>0, <1>8, <1>10, <1>12, <2>1 DEF StacksApart
  <2>2. \A d \in UnderWay' : answer'[d] = "none"
    BY <1>0, <1>1, <1>11 DEF StacksApart, Made
  <2>3. \A d \in UnderWay' : d \notin abandoned'
    BY <1>0, <1>1, <1>11 DEF StacksApart, Made
  <2> QED BY <2>1, <2>2, <2>3 DEF StacksApart
<1>14. CallbacksCalled' BY <1>1, <1>6 DEF RemoteInv, TypeOK, CallbacksCalled
<1>15. Made' = Made \cup {c} BY <1>1, <1>11 DEF Made
<1> QED BY <1>1, <1>5, <1>11, <1>12, <1>13, <1>14, <1>15

LEMMA PopViews ==
  ASSUME RemoteInv, NEW t \in Thread, waiting[t] # <<>>,
         waiting' = [waiting EXCEPT ![t] = Front(waiting[t])]
  PROVE  /\ waiting' \in [Thread -> Seq(Request)]
         /\ Innermost(t) \in UnderWay /\ Innermost(t) \in Request
         /\ UnderWay' = UnderWay \ {Innermost(t)}
         /\ \A u, v \in Thread : \A i \in 1 .. Len(waiting'[u]), j \in 1 .. Len(waiting'[v]) :
              waiting'[u][i] = waiting'[v][j] => u = v /\ i = j
         /\ \A u \in Thread \ {t} : waiting'[u] = waiting[u]
         /\ Len(waiting[t]) > 1 => waiting'[t] # <<>>
<1> DEFINE c == Innermost(t)
           n == Len(waiting[t])
<1>0. StacksApart BY DEF RemoteInv
<1>1. waiting \in [Thread -> Seq(Request)] BY DEF RemoteInv, TypeOK
<1>3. n \in Nat \ {0} /\ c = waiting[t][n] /\ c \in Request
  BY <1>1 DEF Innermost, Last
<1>5. /\ Front(waiting[t]) \in Seq(Request) /\ Len(Front(waiting[t])) = n - 1
      /\ \A i \in 1 .. n - 1 : Front(waiting[t])[i] = waiting[t][i]
  <2>1. \A i \in 1 .. n - 1 : waiting[t][i] \in Request BY <1>1, <1>3, ElementOfSeq
  <2> HIDE DEF n
  <2>2. Front(waiting[t]) = SubSeq(waiting[t], 1, n - 1) BY DEF Front, n
  <2>3. /\ SubSeq(waiting[t], 1, n - 1) \in Seq(Request)
        /\ Len(SubSeq(waiting[t], 1, n - 1)) = IF 1 <= n - 1 THEN n - 1 - 1 + 1 ELSE 0
        /\ \A i \in 1 .. n - 1 - 1 + 1 : SubSeq(waiting[t], 1, n - 1)[i] = waiting[t][1 + i - 1]
    BY <1>3, <2>1, SubSeqProperties
  <2> QED BY <1>3, <2>2, <2>3
<1> HIDE DEF c
<1>7. waiting' \in [Thread -> Seq(Request)] BY <1>1, <1>5
<1>8. /\ Len(waiting'[t]) = n - 1
      /\ \A i \in 1 .. n - 1 : waiting'[t][i] = waiting[t][i]
      /\ \A u \in Thread \ {t} : waiting'[u] = waiting[u]
  BY <1>1, <1>5
<1>9. \A u \in Thread : \A i \in 1 .. Len(waiting'[u]) :
        /\ i \in 1 .. Len(waiting[u]) /\ waiting'[u][i] = waiting[u][i]
        /\ u = t => i # n
  <2> TAKE u \in Thread
  <2>1. CASE u = t BY <1>3, <1>8, <2>1
  <2>2. CASE u # t BY <1>8, <2>2
  <2> QED BY <2>1, <2>2
<1>10. \A d : d \in UnderWay <=>
               \E u \in Thread : \E i \in 1 .. Len(waiting[u]) : waiting[u][i] = d
  BY <1>1, StackMembers DEF UnderWay
<1>11. \A d : d \in UnderWay' <=>
               \E u \in Thread : \E i \in 1 .. Len(waiting'[u]) : waiting'[u][i] = d
  BY <1>7, StackMembers DEF UnderWay
<1>12. UnderWay' = UnderWay \ {c}
  <2>1. ASSUME NEW d \in UnderWay' PROVE d \in UnderWay /\ d # c
    <3>1. PICK u \in Thread : \E i \in 1 .. Len(waiting'[u]) : waiting'[u][i] = d
      BY <1>11, <2>1
    <3>2. PICK i \in 1 .. Len(waiting'[u]) : waiting'[u][i] = d BY <3>1
    <3>3. i \in 1 .. Len(waiting[u]) /\ waiting[u][i] = d /\ (u = t => i # n)
      BY <1>9, <3>2
    <3>4. n \in 1 .. Len(waiting[t]) BY <1>3
    <3> QED BY <1>0, <1>3, <1>10, <3>3, <3>4 DEF StacksApart
  <2>2. ASSUME NEW d \in UnderWay, d # c PROVE d \in UnderWay'
    <3>1. PICK u \in Thread : \E i \in 1 .. Len(waiting[u]) : waiting[u][i] = d
      BY <1>10, <2>2
    <3>2. CASE u = t
      <4>1. PICK i \in 1 .. n : waiting[t][i] = d BY <3>1, <3>2
      <4>2. i \in 1 .. n - 1 BY <1>3, <2>2, <4>1
      <4>3. i \in 1 .. Len(waiting'[t]) /\ waiting'[t][i] = d BY <1>8, <4>1, <4>2
      <4> QED BY <1>11, <4>3
    <3>3. CASE u # t BY <1>8, <1>11, <3>1, <3>3
    <3> QED BY <3>2, <3>3
  <2> QED BY <2>1, <2>2
<1>13. c \in UnderWay
  <2>1. n \in 1 .. Len(waiting[t]) BY <1>3
  <2> QED BY <1>3, <1>10, <2>1
<1>14. ASSUME NEW u \in Thread, NEW v \in Thread, NEW i \in 1 .. Len(waiting'[u]),
              NEW j \in 1 .. Len(waiting'[v]), waiting'[u][i] = waiting'[v][j]
       PROVE  u = v /\ i = j
  BY <1>0, <1>9, <1>14 DEF StacksApart
<1>15. n > 1 => waiting'[t] # <<>>
  <2>1. waiting'[t] = <<>> => Len(waiting'[t]) = 0 OBVIOUS
  <2> QED BY <1>3, <1>8, <2>1
<1> QED BY <1>3, <1>7, <1>8, <1>12, <1>13, <1>14, <1>15 DEF c

LEMMA AnswerViews ==
  ASSUME RemoteInv, NEW t \in Thread, TakeAnswer(t)
  PROVE  /\ TypeOK' /\ StacksApart' /\ CallbacksCalled'
         /\ Innermost(t) \in UnderWay /\ Innermost(t) \in Request
         /\ UnderWay' = UnderWay \ {Innermost(t)} /\ Made' = Made
         /\ answer' = [answer EXCEPT ![Innermost(t)] = Head(eventQ).of]
<1> USE RemoteAssumption
<1> DEFINE c == Innermost(t)
<1>0. StacksApart BY DEF RemoteInv
<1>1. /\ eventQ \in Seq(Event) /\ waiting \in [Thread -> Seq(Request)]
      /\ answer \in [Request -> {"none", "load"} \cup Request]
  BY DEF RemoteInv, TypeOK
<1>2. /\ eventQ # <<>> /\ waiting[t] # <<>> /\ eventQ' = Tail(eventQ)
      /\ waiting' = [waiting EXCEPT ![t] = Front(waiting[t])]
      /\ answer' = [answer EXCEPT ![c] = Head(eventQ).of]
      /\ inCallback' = IF Len(waiting[t]) > 1 THEN inCallback \cup {t} ELSE inCallback
      /\ t \notin inCallback
      /\ UNCHANGED <<callQ, child, serving, emitted, abandoned, lost, unseen, overlapping>>
  BY DEF TakeAnswer, Draining
<1>3. /\ Head(eventQ) \in Event /\ Head(eventQ).of \in {"load"} \cup Request
      /\ Tail(eventQ) \in Seq(Event)
  BY <1>1, <1>2, HeadTailProperties DEF Event
<1>4. /\ waiting' \in [Thread -> Seq(Request)] /\ c \in UnderWay /\ c \in Request
      /\ UnderWay' = UnderWay \ {c}
      /\ \A u, v \in Thread : \A i \in 1 .. Len(waiting'[u]), j \in 1 .. Len(waiting'[v]) :
           waiting'[u][i] = waiting'[v][j] => u = v /\ i = j
      /\ \A u \in Thread \ {t} : waiting'[u] = waiting[u]
      /\ Len(waiting[t]) > 1 => waiting'[t] # <<>>
  BY <1>2, PopViews
<1> HIDE DEF c
<1>5. TypeOK'
  <2>1. answer' \in [Request -> {"none", "load"} \cup Request] BY <1>1, <1>2, <1>3, <1>4
  <2> QED BY <1>2, <1>3, <1>4, <2>1 DEF RemoteInv, TypeOK
<1>6. StacksApart'
  <2>1. \A d \in UnderWay : d \in Request BY <1>1, RangeOfSeq DEF UnderWay
  <2>2. \A d \in UnderWay' : answer'[d] = "none" /\ d \notin abandoned'
    BY <1>0, <1>1, <1>2, <1>4, <2>1 DEF StacksApart
  <2> QED BY <1>4, <2>2 DEF StacksApart
<1>7. CallbacksCalled' BY <1>2, <1>4 DEF RemoteInv, TypeOK, CallbacksCalled
<1>8. Made' = Made
  <2>1. answer'[c] # "none" BY <1>1, <1>2, <1>3, <1>4
  <2>2. \A d \in Request \ {c} : answer'[d] = answer[d] BY <1>1, <1>2
  <2> QED BY <1>2, <1>4, <2>1, <2>2 DEF Made
<1> QED BY <1>2, <1>4, <1>5, <1>6, <1>7, <1>8 DEF c

LEMMA RaiseViews ==
  ASSUME RemoteInv, NEW t \in Thread, CallbackRaises(t)
  PROVE  /\ TypeOK' /\ StacksApart' /\ CallbacksCalled'
         /\ Innermost(t) \in UnderWay /\ Innermost(t) \notin abandoned
         /\ UnderWay' = UnderWay \ {Innermost(t)} /\ Made' = Made
<1> DEFINE c == Innermost(t)
<1>0. StacksApart /\ CallbacksCalled /\ TypeOK BY DEF RemoteInv
<1>1. /\ waiting' = [waiting EXCEPT ![t] = Front(waiting[t])] /\ waiting[t] # <<>>
      /\ inCallback' = IF Len(waiting[t]) > 1 THEN inCallback ELSE inCallback \ {t}
      /\ abandoned' = abandoned \cup {c}
      /\ UNCHANGED <<callQ, eventQ, child, serving, emitted, answer, lost, unseen, overlapping>>
  BY <1>0 DEF CallbackRaises, CallbacksCalled
<1>2. /\ waiting' \in [Thread -> Seq(Request)] /\ c \in UnderWay /\ c \in Request
      /\ UnderWay' = UnderWay \ {c}
      /\ \A u, v \in Thread : \A i \in 1 .. Len(waiting'[u]), j \in 1 .. Len(waiting'[v]) :
           waiting'[u][i] = waiting'[v][j] => u = v /\ i = j
      /\ \A u \in Thread \ {t} : waiting'[u] = waiting[u]
      /\ Len(waiting[t]) > 1 => waiting'[t] # <<>>
  BY <1>1, PopViews
<1> HIDE DEF c
<1>3. TypeOK' BY <1>0, <1>1, <1>2 DEF TypeOK
<1>4. StacksApart' BY <1>0, <1>1, <1>2 DEF StacksApart
<1>5. CallbacksCalled' BY <1>0, <1>1, <1>2 DEF TypeOK, CallbacksCalled
<1>6. Made' = Made BY <1>1, <1>2 DEF Made
<1>7. c \notin abandoned BY <1>0, <1>2 DEF StacksApart
<1> QED BY <1>2, <1>3, <1>4, <1>5, <1>6, <1>7 DEF c

LEMMA SameViews ==
  ASSUME UNCHANGED <<waiting, answer, abandoned>>
  PROVE  /\ UnderWay' = UnderWay /\ Made' = Made /\ Expected' = Expected
         /\ StacksApart => StacksApart'
         /\ CallbacksCalled /\ inCallback' = inCallback => CallbacksCalled'
BY DEF UnderWay, Made, Expected, StacksApart, CallbacksCalled

\* What the books add up.
LEMMA Numbers ==
  ASSUME RemoteInv
  PROVE  /\ Len(callQ) \in Nat /\ Len(eventQ) \in Nat /\ Count(eventQ, Answers) \in Nat
         /\ Cardinality(UnderWay) \in Nat /\ Cardinality(abandoned) \in Nat
         /\ Cardinality(lost) \in Nat /\ Expected \in Nat
<1>1. Len(callQ) \in Nat /\ Len(eventQ) \in Nat BY LenProperties DEF RemoteInv, TypeOK
<1>2. Count(eventQ, Answers) \in Nat BY CountType DEF RemoteInv, TypeOK
<1>3. IsFiniteSet(UnderWay) /\ IsFiniteSet(abandoned) /\ IsFiniteSet(lost)
  BY DEF RemoteInv, Balance
<1>4. /\ Cardinality(UnderWay) \in Nat /\ Cardinality(abandoned) \in Nat
      /\ Cardinality(lost) \in Nat
  BY <1>3, FS_CardinalityType
<1> QED BY <1>1, <1>2, <1>4 DEF Expected

-----------------------------------------------------------------------------
(* What the steps do to the queue of events. *)

LEMMA SayEvent ==
  ASSUME eventQ \in Seq(Event), NEW e \in Event, Put(e)
  PROVE  /\ eventQ' \in Seq(Event) /\ Len(eventQ') = Len(eventQ) + 1
         /\ eventQ'[Len(eventQ) + 1] = e
         /\ \A i \in 1 .. Len(eventQ) : eventQ'[i] = eventQ[i]
         /\ \A c : Mentioned(c)' <=> Mentioned(c) \/ e.of = c
         /\ \A T : Count(eventQ', T) = Count(eventQ, T) + (IF e \in T THEN 1 ELSE 0)
<1>1. eventQ' = Append(eventQ, e) BY DEF Put
<1>2. /\ eventQ' \in Seq(Event) /\ Len(eventQ') = Len(eventQ) + 1
      /\ eventQ'[Len(eventQ) + 1] = e
      /\ \A i \in 1 .. Len(eventQ) : eventQ'[i] = eventQ[i]
  BY <1>1, AppendProperties
<1>3. Len(eventQ) \in Nat BY LenProperties
<1>4. \A c : Mentioned(c)' <=> Mentioned(c) \/ e.of = c
  <2> TAKE c
  <2>1. Mentioned(c)' => Mentioned(c) \/ e.of = c BY <1>2, <1>3 DEF Mentioned
  <2>2. Mentioned(c) => Mentioned(c)'
    <3>1. ASSUME NEW i \in 1 .. Len(eventQ), eventQ[i].of = c
          PROVE  \E j \in 1 .. Len(eventQ') : eventQ'[j].of = c
      <4>1. i \in 1 .. Len(eventQ') BY <1>2, <1>3
      <4> QED BY <1>2, <3>1, <4>1
    <3> QED BY <3>1 DEF Mentioned
  <2>3. e.of = c => Mentioned(c)'
    <3>1. Len(eventQ) + 1 \in 1 .. Len(eventQ') BY <1>2, <1>3
    <3> QED BY <1>2, <3>1 DEF Mentioned
  <2> QED BY <2>1, <2>2, <2>3
<1> QED BY <1>1, <1>2, <1>4, CountAppend

LEMMA TakeEvent ==
  ASSUME eventQ \in Seq(Event), eventQ # <<>>, eventQ' = Tail(eventQ)
  PROVE  /\ eventQ' \in Seq(Event) /\ Len(eventQ') = Len(eventQ) - 1
         /\ Head(eventQ) = eventQ[1] /\ eventQ[1] \in Event /\ Len(eventQ) \in Nat \ {0}
         /\ \A i \in 1 .. Len(eventQ') : eventQ'[i] = eventQ[i + 1]
         /\ \A c : Mentioned(c)' => Mentioned(c)
         /\ \A T : Count(eventQ', T) = Count(eventQ, T)
                                         - (IF Head(eventQ) \in T THEN 1 ELSE 0)
         /\ SignalsAnswered /\ child' = child /\ lost' = lost => SignalsAnswered'
         /\ LoadingSilent /\ child' = child => LoadingSilent'
<1>1. /\ eventQ' \in Seq(Event) /\ Len(eventQ') = Len(eventQ) - 1
      /\ \A i \in 1 .. Len(eventQ') : eventQ'[i] = eventQ[i + 1]
  BY HeadTailProperties
<1>2. Len(eventQ) \in Nat \ {0} BY EmptySeq
<1>3. \A i \in 1 .. Len(eventQ') : i + 1 \in 1 .. Len(eventQ) BY <1>1, <1>2
<1>4. Head(eventQ) = eventQ[1] /\ eventQ[1] \in Event BY <1>2
<1>5. \A c : Mentioned(c)' => Mentioned(c) BY <1>1, <1>3 DEF Mentioned
<1>6. SignalsAnswered /\ child' = child /\ lost' = lost => SignalsAnswered'
  <2> SUFFICES ASSUME SignalsAnswered, child' = child, lost' = lost, lost = {}, child # "working",
                      NEW i \in 1 .. Len(eventQ'), eventQ'[i].kind = "signal"
               PROVE  \E j \in i + 1 .. Len(eventQ') : eventQ'[j].kind # "signal"
    BY DEF SignalsAnswered
  <2>1. PICK k \in i + 1 + 1 .. Len(eventQ) : eventQ[k].kind # "signal"
    BY <1>1, <1>3 DEF SignalsAnswered
  <2>2. k - 1 \in i + 1 .. Len(eventQ') /\ k - 1 \in 1 .. Len(eventQ') /\ k - 1 + 1 = k
    BY <1>1, <1>2
  <2> QED BY <1>1, <2>1, <2>2
<1>7. LoadingSilent /\ child' = child => LoadingSilent'
  <2> SUFFICES ASSUME LoadingSilent, child' = child PROVE LoadingSilent'
    OBVIOUS
  <2>1. child # "loading" BY DEF LoadingSilent
  <2>2. \A i \in 1 .. Len(eventQ') : eventQ'[i].kind # "load_error"
    <3>1. ASSUME NEW i \in 1 .. Len(eventQ'), eventQ'[i].kind = "load_error" PROVE FALSE
      <4>1. eventQ = <<LoadError>> BY <1>1, <1>3, <3>1 DEF LoadingSilent
      <4>2. Len(eventQ) = 1 BY <4>1
      <4> QED BY <1>1, <4>2
    <3> QED BY <3>1
  <2> QED BY <2>1, <2>2 DEF LoadingSilent
<1> QED BY <1>1, <1>2, <1>4, <1>5, <1>6, <1>7, CountTail

-----------------------------------------------------------------------------
(* Every step keeps the invariant. *)

LEMMA QuietStep ==
  ASSUME RemoteInv,
         UNCHANGED <<callQ, eventQ, serving, waiting, answer, abandoned, lost, unseen,
                     overlapping>>,
         emitted' \in 0 .. MaxSignals, emitted <= emitted', inCallback' \subseteq inCallback,
         child' = child \/ (child = "loading" /\ child' \in {"serving", "ended"})
  PROVE  RemoteInv'
<1>1. UnderWay' = UnderWay /\ Made' = Made /\ Expected' = Expected /\ StacksApart'
  BY SameViews DEF RemoteInv
<1>2. TypeOK' BY DEF RemoteInv, TypeOK
<1>3. \A c : (Unanswered(c)' => Unanswered(c)) /\ (Mentioned(c)' <=> Mentioned(c))
  BY DEF Unanswered, Mentioned
<1>4. LoadingSilent'
  <2>1. child = "loading" => eventQ = <<>> BY DEF RemoteInv, LoadingSilent
  <2>2. Len(<<>>) = 0 OBVIOUS
  <2>3. child = "loading" => ~ \E i \in 1 .. Len(eventQ) : eventQ[i].kind = "load_error"
    BY <2>1, <2>2
  <2> QED BY <2>1, <2>3 DEF RemoteInv, LoadingSilent
<1>5. Balance'
  <2>1. CASE child' = child BY <1>1, <2>1 DEF RemoteInv, Balance, Working
  <2>2. CASE child = "loading" /\ child' = "serving"
    BY <1>1, <2>2 DEF RemoteInv, Balance, Working
  <2>3. CASE child = "loading" /\ child' = "ended"
    <3>1. Count(eventQ, Answers) = 0 BY <2>3, CountEmpty DEF RemoteInv, LoadingSilent
    <3>2. Count(eventQ', Answers') = Count(eventQ, Answers) BY DEF Answers, Count
    <3> QED BY <1>1, <2>3, <3>1, <3>2, Numbers DEF RemoteInv, Balance, Working
  <2> QED BY <2>1, <2>2, <2>3
<1>6. SignalsAnswered'
  <2>1. CASE child' = child BY <2>1 DEF RemoteInv, SignalsAnswered
  <2>2. CASE child = "loading"
    <3>1. eventQ' = <<>> BY <2>2 DEF RemoteInv, LoadingSilent
    <3>2. Len(eventQ') = 0 BY <3>1
    <3> QED BY <3>2 DEF SignalsAnswered
  <2> QED BY <2>1, <2>2
<1>7. EachOnce' BY <1>1, <1>3 DEF RemoteInv, EachOnce
<1>8. AloneWhile' BY <1>1, <1>3 DEF RemoteInv, AloneWhile
<1>9. AloneAfter' BY <1>1, <1>3 DEF RemoteInv, AloneAfter
<1>10. UnseenCounted'
  <2>1. child' = "working" => unseen[serving] <= emitted'
    <3>1. unseen[serving] \in Nat /\ emitted \in Nat BY RemoteAssumption DEF RemoteInv, TypeOK
    <3> QED BY <3>1, RemoteAssumption DEF RemoteInv, UnseenCounted
  <2> QED BY <2>1 DEF RemoteInv, UnseenCounted, Signals
<1>11. CallbacksCalled' BY DEF RemoteInv, CallbacksCalled
<1> QED BY <1>1, <1>2, <1>4, <1>5, <1>6, <1>7, <1>8, <1>9, <1>10, <1>11 DEF RemoteInv

LEMMA LoadFailsStep == RemoteInv /\ LoadFails => RemoteInv'
<1> SUFFICES ASSUME RemoteInv, LoadFails PROVE RemoteInv'
  OBVIOUS
<1>1. /\ child = "loading" /\ child' = "ended" /\ Put(LoadError)
      /\ UNCHANGED <<callQ, serving, emitted, waiting, inCallback, answer, abandoned, lost,
                     unseen, overlapping>>
  BY DEF LoadFails, LoadError, parent
<1>2. eventQ = <<>> /\ eventQ \in Seq(Event) /\ LoadError \in Event
  BY <1>1 DEF RemoteInv, LoadingSilent, TypeOK, LoadError, Event
<1>3. /\ eventQ' \in Seq(Event) /\ eventQ' = <<LoadError>>
      /\ \A c : Mentioned(c)' <=> c = "load"
      /\ \A T : Count(eventQ', T) = Count(eventQ, T) + (IF LoadError \in T THEN 1 ELSE 0)
  <2>1. ~ \E c : Mentioned(c)
    <3>1. Len(eventQ) = 0 BY <1>2
    <3> QED BY <3>1 DEF Mentioned
  <2>2. eventQ' = <<LoadError>> BY <1>1, <1>2 DEF Put
  <2> QED BY <1>1, <1>2, <2>1, <2>2, SayEvent DEF LoadError
<1>4. /\ UnderWay' = UnderWay /\ Made' = Made /\ Expected' = Expected
      /\ StacksApart' /\ CallbacksCalled'
  BY <1>1, SameViews DEF RemoteInv
<1>5. TypeOK' BY <1>1, <1>3 DEF RemoteInv, TypeOK
<1>6. \A c \in Request : ~Unanswered(c)' /\ ~Mentioned(c)'
  BY <1>1, <1>3, RemoteAssumption DEF Unanswered
<1>7. LoadingSilent' BY <1>1, <1>3 DEF LoadingSilent
<1>8. Balance' BY <1>1, <1>3, <1>4 DEF RemoteInv, Balance
<1>9. SignalsAnswered'
  <2>1. Len(eventQ') = 1 /\ eventQ'[1].kind = "load_error" BY <1>3 DEF LoadError
  <2> QED BY <2>1 DEF SignalsAnswered
<1>10. EachOnce' BY <1>1, <1>4, <1>6 DEF RemoteInv, TypeOK, EachOnce
<1>11. AloneWhile' BY <1>1, <1>4, <1>6 DEF RemoteInv, AloneWhile
<1>12. AloneAfter' BY <1>1, <1>6 DEF RemoteInv, AloneAfter
<1>13. UnseenCounted'
  <2>1. \A c : LoadError \notin Signals(c) BY DEF Signals, LoadError
  <2>2. \A c \in Request : Count(eventQ', Signals(c)) = Count(eventQ, Signals(c))
    <3>1. \A c \in Request : Count(eventQ, Signals(c)) \in Nat BY <1>2, CountType
    <3> QED BY <1>3, <2>1, <3>1
  <2> QED BY <1>1, <2>2 DEF RemoteInv, UnseenCounted, Signals
<1> QED BY <1>4, <1>5, <1>7, <1>8, <1>9, <1>10, <1>11, <1>12, <1>13 DEF RemoteInv

LEMMA ServeStep == RemoteInv /\ Serve => RemoteInv'
<1> SUFFICES ASSUME RemoteInv, Serve PROVE RemoteInv'
  OBVIOUS
<1>1. /\ child = "serving" /\ callQ # <<>>
      /\ child' = "working" /\ serving' = Head(callQ) /\ emitted' = 0
      /\ callQ' = Tail(callQ)
      /\ UNCHANGED <<eventQ, waiting, inCallback, answer, abandoned, lost, unseen, overlapping>>
  BY DEF Serve, parent
<1>2. /\ callQ \in Seq(Request) /\ callQ' \in Seq(Request)
      /\ Len(callQ) \in Nat \ {0} /\ Len(callQ') = Len(callQ) - 1
      /\ serving' = callQ[1] /\ serving' \in Request
      /\ \A i \in 1 .. Len(callQ') : callQ'[i] = callQ[i + 1] /\ i + 1 \in 1 .. Len(callQ)
      /\ 1 \in 1 .. Len(callQ)
  <2>1. callQ \in Seq(Request) BY DEF RemoteInv, TypeOK
  <2>2. Len(callQ) \in Nat \ {0} BY <1>1, <2>1, EmptySeq
  <2> QED BY <1>1, <2>1, <2>2, HeadTailProperties
<1>3. /\ UnderWay' = UnderWay /\ Made' = Made /\ Expected' = Expected
      /\ StacksApart' /\ CallbacksCalled'
  BY <1>1, SameViews DEF RemoteInv
<1>4. TypeOK' BY <1>1, <1>2, RemoteAssumption DEF RemoteInv, TypeOK
<1>5. \A c : (Unanswered(c)' => Unanswered(c)) /\ (Mentioned(c)' <=> Mentioned(c))
  BY <1>1, <1>2 DEF Unanswered, Mentioned
<1>6. LoadingSilent' BY <1>1 DEF RemoteInv, LoadingSilent
<1>7. Balance'
  <2>1. /\ IsFiniteSet(UnderWay) /\ IsFiniteSet(abandoned) /\ IsFiniteSet(lost)
        /\ Expected = Len(callQ) + 0 + Count(eventQ, Answers) + Cardinality(lost)
    BY <1>1 DEF RemoteInv, Balance, Working
  <2>2. Expected' = Len(callQ') + 1 + Count(eventQ', Answers) + Cardinality(lost')
    BY <1>1, <1>2, <1>3, <2>1, Numbers
  <2> QED BY <1>1, <1>3, <2>1, <2>2 DEF Balance, Working, Answers
<1>8. SignalsAnswered' BY <1>1 DEF SignalsAnswered
<1>9. EachOnce'
  <2>1. \A i, j \in 1 .. Len(callQ) : callQ[i] = callQ[j] => i = j
    BY <1>1 DEF RemoteInv, EachOnce
  <2>2. \A i \in 1 .. Len(callQ') :
          /\ serving' # callQ'[i]
          /\ \A j \in 1 .. Len(callQ') : callQ'[i] = callQ'[j] => i = j
    <3> TAKE i \in 1 .. Len(callQ')
    <3>1. serving' # callQ'[i] BY <1>2, <2>1
    <3>2. ASSUME NEW j \in 1 .. Len(callQ'), callQ'[i] = callQ'[j] PROVE i = j
      <4>1. i + 1 = j + 1 BY <1>2, <2>1, <3>2
      <4> QED BY <4>1
    <3> QED BY <3>1, <3>2
  <2>3. \A i \in 1 .. Len(callQ') : \A k \in 1 .. Len(eventQ') :
          eventQ'[k].of # callQ'[i]
    <3>1. \A i \in 1 .. Len(callQ) : ~Mentioned(callQ[i])
      BY <1>1 DEF RemoteInv, EachOnce
    <3> QED BY <1>1, <1>2, <3>1 DEF Mentioned
  <2>4. \A c \in Request : Unanswered(c)' \/ Mentioned(c)' => c \in Made'
    BY <1>3, <1>5 DEF RemoteInv, EachOnce
  <2>5. \A c \in lost' : c \in Made' /\ ~Unanswered(c)'
    BY <1>1, <1>3, <1>5 DEF RemoteInv, EachOnce
  <2> QED BY <2>2, <2>3, <2>4, <2>5 DEF EachOnce, Mentioned
<1>10. AloneWhile' BY <1>1, <1>3, <1>5 DEF RemoteInv, AloneWhile
<1>11. AloneAfter' BY <1>1, <1>5 DEF RemoteInv, AloneAfter
<1>12. UnseenCounted'
  <2>1. ~Mentioned(serving') BY <1>1, <1>2 DEF RemoteInv, EachOnce
  <2>2. {i \in 1 .. Len(eventQ) : eventQ[i] \in Signals(serving')} = {}
    BY <2>1 DEF Mentioned, Signals
  <2>3. Count(eventQ, Signals(serving')) = 0 BY <2>2, FS_EmptySet DEF Count
  <2>4. unseen[serving'] = 0 BY <1>2, <2>3 DEF RemoteInv, UnseenCounted
  <2> QED BY <1>1, <2>4 DEF RemoteInv, UnseenCounted, Signals
<1> QED BY <1>3, <1>4, <1>6, <1>7, <1>8, <1>9, <1>10, <1>11, <1>12 DEF RemoteInv

LEMMA PutSignal ==
  ASSUME RemoteInv, Emit, Put([kind |-> "signal", of |-> serving]),
         unseen' = [unseen EXCEPT ![serving] = @ + 1]
  PROVE  RemoteInv'
<1> DEFINE e == [kind |-> "signal", of |-> serving]
<1>1. /\ child = "working" /\ emitted < MaxSignals /\ emitted' = emitted + 1
      /\ Put(e) /\ unseen' = [unseen EXCEPT ![serving] = @ + 1]
      /\ UNCHANGED <<callQ, child, serving, waiting, inCallback, answer, abandoned, lost,
                     overlapping>>
  BY DEF Emit, parent
<1>2. /\ serving \in Request /\ eventQ \in Seq(Event) /\ e \in Event
      /\ emitted \in 0 .. MaxSignals /\ unseen \in [Request -> 0 .. MaxSignals]
  BY DEF RemoteInv, TypeOK, Event
<1>3. e.kind = "signal" /\ e.of = serving OBVIOUS
<1> HIDE DEF e
<1>4. /\ eventQ' \in Seq(Event) /\ Len(eventQ') = Len(eventQ) + 1
      /\ eventQ'[Len(eventQ) + 1] = e
      /\ \A i \in 1 .. Len(eventQ) : eventQ'[i] = eventQ[i]
      /\ \A c : Mentioned(c)' <=> Mentioned(c) \/ c = serving
      /\ \A T : Count(eventQ', T) = Count(eventQ, T) + (IF e \in T THEN 1 ELSE 0)
  BY <1>1, <1>2, <1>3, SayEvent
<1>5. /\ UnderWay' = UnderWay /\ Made' = Made /\ Expected' = Expected
      /\ StacksApart' /\ CallbacksCalled'
  BY <1>1, SameViews DEF RemoteInv
<1>6. /\ unseen[serving] <= emitted /\ unseen'[serving] = unseen[serving] + 1
      /\ \A c \in Request \ {serving} : unseen'[c] = unseen[c]
  BY <1>1, <1>2 DEF RemoteInv, UnseenCounted
<1>7. TypeOK'
  <2>1. unseen' \in [Request -> 0 .. MaxSignals] /\ emitted' \in 0 .. MaxSignals
    BY <1>1, <1>2, <1>6, RemoteAssumption
  <2> QED BY <1>1, <1>4, <2>1 DEF RemoteInv, TypeOK
<1>8. Unanswered(serving) BY <1>1 DEF Unanswered
<1>9. \A c : Unanswered(c)' <=> Unanswered(c) BY <1>1 DEF Unanswered
<1>10. LoadingSilent'
  <2>1. \A i \in 1 .. Len(eventQ') : eventQ'[i].kind # "load_error"
    <3>1. Len(eventQ) \in Nat BY <1>2, LenProperties
    <3> QED BY <1>1, <1>3, <1>4, <3>1 DEF RemoteInv, LoadingSilent
  <2> QED BY <1>1, <2>1 DEF LoadingSilent
<1>11. Balance'
  <2>1. Count(eventQ', Answers) = Count(eventQ, Answers)
    <3>1. e \notin Answers BY <1>3 DEF Answers
    <3>2. Count(eventQ, Answers) \in Nat BY <1>2, CountType
    <3> QED BY <1>4, <3>1, <3>2
  <2> QED BY <1>1, <1>5, <2>1 DEF RemoteInv, Balance, Working
<1>12. SignalsAnswered' BY <1>1 DEF SignalsAnswered
<1>13. EachOnce'
  <2>1. \A c \in Request : Unanswered(c)' \/ Mentioned(c)' => c \in Made'
    BY <1>4, <1>5, <1>8, <1>9 DEF RemoteInv, EachOnce
  <2>2. \A i \in 1 .. Len(callQ) : ~Mentioned(callQ[i])'
    BY <1>1, <1>4 DEF RemoteInv, EachOnce
  <2>3. \A c \in lost' : c \in Made' /\ ~Unanswered(c)'
    BY <1>1, <1>5, <1>9 DEF RemoteInv, EachOnce
  <2> QED BY <1>1, <2>1, <2>2, <2>3 DEF RemoteInv, EachOnce, Mentioned
<1>14. AloneWhile' BY <1>1, <1>2, <1>4, <1>5, <1>8, <1>9 DEF RemoteInv, AloneWhile
<1>15. AloneAfter' BY <1>1, <1>2, <1>4, <1>8, <1>9 DEF RemoteInv, AloneAfter
<1>16. UnseenCounted'
  <2>1. \A c \in Request : e \in Signals(c) <=> c = serving
    BY <1>2, <1>3 DEF Signals
  <2>2. \A c \in Request : Count(eventQ, Signals(c)) = unseen[c]
    BY DEF RemoteInv, UnseenCounted
  <2>3. \A c \in Request : unseen'[c] = Count(eventQ', Signals(c))
    BY <1>2, <1>4, <1>6, <2>1, <2>2
  <2>4. unseen'[serving'] <= emitted'
    BY <1>1, <1>2, <1>6
  <2> QED BY <2>3, <2>4 DEF UnseenCounted, Signals
<1> QED BY <1>5, <1>7, <1>10, <1>11, <1>12, <1>13, <1>14, <1>15, <1>16 DEF RemoteInv

LEMMA EmitStep == RemoteInv /\ Emit => RemoteInv'
<1> SUFFICES ASSUME RemoteInv, Emit PROVE RemoteInv'
  OBVIOUS
<1>1. CASE /\ Put([kind |-> "signal", of |-> serving])
           /\ unseen' = [unseen EXCEPT ![serving] = @ + 1]
  BY <1>1, PutSignal
<1>2. CASE UNCHANGED <<eventQ, unseen>>
  <2>1. emitted < MaxSignals /\ emitted' = emitted + 1 /\ emitted \in 0 .. MaxSignals
    BY DEF Emit, RemoteInv, TypeOK
  <2>2. emitted' \in 0 .. MaxSignals /\ emitted <= emitted' BY <2>1, RemoteAssumption
  <2>3. UNCHANGED <<callQ, eventQ, child, serving, waiting, inCallback, answer, abandoned,
                    lost, unseen, overlapping>>
    BY <1>2 DEF Emit, parent
  <2> QED BY <2>2, <2>3, QuietStep
<1> QED BY <1>1, <1>2 DEF Emit

LEMMA HandlerStep == RemoteInv /\ (HandlerRaises \/ HandlerReturns) => RemoteInv'
<1> SUFFICES ASSUME RemoteInv, HandlerRaises \/ HandlerReturns PROVE RemoteInv'
  OBVIOUS
<1>1. PICK kind \in {"error", "result"} : Put([kind |-> kind, of |-> serving])
  BY DEF HandlerRaises, HandlerReturns
<1> DEFINE e == [kind |-> kind, of |-> serving]
<1>2. /\ child = "working" /\ child' \in {"serving", "ended"} /\ Put(e)
      /\ UNCHANGED <<callQ, serving, emitted, waiting, inCallback, answer, abandoned, lost,
                     unseen, overlapping>>
  BY <1>1 DEF HandlerRaises, HandlerReturns, parent
<1>3. serving \in Request /\ eventQ \in Seq(Event) /\ e \in Event
  BY DEF RemoteInv, TypeOK, Event
<1>4. e.kind \in {"error", "result"} /\ e.of = serving OBVIOUS
<1> HIDE DEF e
<1>5. /\ eventQ' \in Seq(Event) /\ Len(eventQ') = Len(eventQ) + 1
      /\ eventQ'[Len(eventQ) + 1] = e
      /\ \A i \in 1 .. Len(eventQ) : eventQ'[i] = eventQ[i]
      /\ \A c : Mentioned(c)' <=> Mentioned(c) \/ c = serving
      /\ \A T : Count(eventQ', T) = Count(eventQ, T) + (IF e \in T THEN 1 ELSE 0)
  BY <1>2, <1>3, <1>4, SayEvent
<1>6. Len(eventQ) \in Nat BY <1>3, LenProperties
<1>7. /\ UnderWay' = UnderWay /\ Made' = Made /\ Expected' = Expected
      /\ StacksApart' /\ CallbacksCalled'
  BY <1>2, SameViews DEF RemoteInv
<1>8. TypeOK' BY <1>2, <1>5 DEF RemoteInv, TypeOK
<1>9. Unanswered(serving) BY <1>2 DEF Unanswered
<1>10. \A c : Unanswered(c)' => Unanswered(c) BY <1>2 DEF Unanswered
<1>11. LoadingSilent'
  <2>1. \A i \in 1 .. Len(eventQ') : eventQ'[i].kind # "load_error"
    BY <1>2, <1>4, <1>5, <1>6 DEF RemoteInv, LoadingSilent
  <2> QED BY <1>2, <2>1 DEF LoadingSilent
<1>12. Balance'
  <2>1. Count(eventQ', Answers) = Count(eventQ, Answers) + 1
    BY <1>3, <1>4, <1>5 DEF Answers
  <2>2. /\ IsFiniteSet(UnderWay) /\ IsFiniteSet(abandoned) /\ IsFiniteSet(lost)
        /\ Expected = Len(callQ) + 1 + Count(eventQ, Answers) + Cardinality(lost)
    BY <1>2 DEF RemoteInv, Balance, Working
  <2>3. /\ Expected = Len(callQ) + 0 + Count(eventQ', Answers) + Cardinality(lost)
        /\ Count(eventQ', Answers) + Cardinality(lost) <= Expected
    BY <2>1, <2>2, Numbers
  <2> QED BY <1>2, <1>7, <2>2, <2>3 DEF Balance, Working, Answers
<1>13. SignalsAnswered'
  <2>1. eventQ'[Len(eventQ')].kind # "signal" BY <1>4, <1>5
  <2>2. \A i \in 1 .. Len(eventQ') : eventQ'[i].kind = "signal" => Len(eventQ') \in i + 1 .. Len(eventQ')
    BY <1>5, <1>6, <2>1
  <2> QED BY <2>1, <2>2 DEF SignalsAnswered
<1>14. EachOnce'
  <2>1. \A c \in Request : Unanswered(c)' \/ Mentioned(c)' => c \in Made'
    BY <1>5, <1>7, <1>9, <1>10 DEF RemoteInv, EachOnce
  <2>2. \A i \in 1 .. Len(callQ) : ~Mentioned(callQ[i])'
    BY <1>2, <1>5 DEF RemoteInv, EachOnce
  <2>3. \A i, j \in 1 .. Len(callQ) : callQ[i] = callQ[j] => i = j
    BY <1>2 DEF RemoteInv, EachOnce
  <2>4. \A c \in lost' : c \in Made' /\ ~Unanswered(c)'
    BY <1>2, <1>7, <1>10 DEF RemoteInv, EachOnce
  <2> QED BY <1>2, <2>1, <2>2, <2>3, <2>4 DEF EachOnce, Mentioned
<1>15. AloneWhile' BY <1>2, <1>3, <1>5, <1>7, <1>9, <1>10 DEF RemoteInv, AloneWhile
<1>16. AloneAfter' BY <1>2, <1>3, <1>5, <1>9, <1>10 DEF RemoteInv, AloneAfter
<1>17. UnseenCounted'
  <2>1. \A c : e \notin Signals(c) BY <1>4 DEF Signals
  <2>2. \A c \in Request : Count(eventQ, Signals(c)) \in Nat BY <1>3, CountType
  <2>3. \A c \in Request : Count(eventQ', Signals(c)) = Count(eventQ, Signals(c))
    BY <1>5, <2>1, <2>2
  <2> QED BY <1>2, <2>3 DEF RemoteInv, UnseenCounted, Signals
<1> QED BY <1>7, <1>8, <1>11, <1>12, <1>13, <1>14, <1>15, <1>16, <1>17 DEF RemoteInv

LEMMA ResultLostStep == RemoteInv /\ ResultLost => RemoteInv'
<1> SUFFICES ASSUME RemoteInv, ResultLost PROVE RemoteInv'
  OBVIOUS
<1>1. /\ child = "working" /\ child' = "serving" /\ lost' = lost \cup {serving}
      /\ UNCHANGED <<callQ, eventQ, serving, emitted, waiting, inCallback, answer, abandoned,
                     unseen, overlapping>>
  BY DEF ResultLost, parent
<1>2. /\ UnderWay' = UnderWay /\ Made' = Made /\ Expected' = Expected
      /\ StacksApart' /\ CallbacksCalled'
  BY <1>1, SameViews DEF RemoteInv
<1>3. serving \in Request BY DEF RemoteInv, TypeOK
<1>4. TypeOK' BY <1>1, <1>3 DEF RemoteInv, TypeOK
<1>5. Unanswered(serving) /\ ~Unanswered(serving)'
  BY <1>1 DEF RemoteInv, EachOnce, Unanswered
<1>6. \A c : (Unanswered(c)' => Unanswered(c)) /\ (Mentioned(c)' <=> Mentioned(c))
  BY <1>1 DEF Unanswered, Mentioned
<1>7. serving \in Made /\ serving \notin lost BY <1>3, <1>5 DEF RemoteInv, EachOnce
<1>8. LoadingSilent' BY <1>1 DEF RemoteInv, LoadingSilent
<1>9. Balance'
  <2>1. /\ IsFiniteSet(UnderWay) /\ IsFiniteSet(abandoned) /\ IsFiniteSet(lost)
        /\ Expected = Len(callQ) + 1 + Count(eventQ, Answers) + Cardinality(lost)
    BY <1>1 DEF RemoteInv, Balance, Working
  <2>2. IsFiniteSet(lost') /\ Cardinality(lost') = Cardinality(lost) + 1
    BY <1>1, <1>7, <2>1, FS_AddElement
  <2>3. Expected = Len(callQ) + 0 + Count(eventQ, Answers) + Cardinality(lost')
    BY <2>1, <2>2, Numbers
  <2> QED BY <1>1, <1>2, <2>1, <2>2, <2>3 DEF Balance, Working, Answers
<1>10. SignalsAnswered' BY <1>1 DEF SignalsAnswered
<1>11. EachOnce'
  <2>1. \A c \in lost' : c \in Made' /\ ~Unanswered(c)'
    BY <1>1, <1>2, <1>5, <1>6, <1>7 DEF RemoteInv, EachOnce
  <2>2. \A c \in Request : Unanswered(c)' \/ Mentioned(c)' => c \in Made'
    BY <1>2, <1>6 DEF RemoteInv, EachOnce
  <2> QED BY <1>1, <2>1, <2>2 DEF RemoteInv, EachOnce, Mentioned
<1>12. AloneWhile' BY <1>1, <1>2, <1>6 DEF RemoteInv, AloneWhile
<1>13. AloneAfter' BY <1>1, <1>6 DEF RemoteInv, AloneAfter
<1>14. UnseenCounted' BY <1>1 DEF RemoteInv, UnseenCounted, Signals
<1> QED BY <1>2, <1>4, <1>8, <1>9, <1>10, <1>11, <1>12, <1>13, <1>14 DEF RemoteInv

\* With no call under way or abandoned nothing is left in the queues.
LEMMA QueuesDrained ==
  ASSUME RemoteInv, UnderWay = {}, abandoned = {}
  PROVE  /\ \A d \in Request : ~Mentioned(d)
         /\ child # "ended" => callQ = <<>> /\ child # "working"
<1>1. eventQ \in Seq(Event) /\ callQ \in Seq(Request) BY DEF RemoteInv, TypeOK
<1>2. Len(eventQ) \in Nat /\ Len(callQ) \in Nat BY <1>1, LenProperties
<1>3. /\ Count(eventQ, Answers) \in Nat
      /\ Count(eventQ, Answers) = 0 => \A i \in 1 .. Len(eventQ) : eventQ[i] \notin Answers
  BY <1>1, CountType
<1>4. Expected = 0
  <2>1. Cardinality(UnderWay) = 0 /\ Cardinality(abandoned) = 0 BY FS_EmptySet
  <2> QED BY <2>1 DEF Expected
<1>5. \/ eventQ = <<LoadError>>
      \/ eventQ = <<>> /\ child = "ended"
      \/ /\ Count(eventQ, Answers) = 0 /\ Cardinality(lost) = 0
         /\ child # "ended" => Len(callQ) = 0 /\ child # "working"
  BY <1>2, <1>3, <1>4, Numbers DEF RemoteInv, Balance, Working
<1>6. CASE eventQ = <<LoadError>>
  <2>1. Len(eventQ) = 1 /\ eventQ[1].kind = "load_error" /\ eventQ[1].of = "load"
    BY <1>6 DEF LoadError
  <2>2. child = "ended" BY <2>1 DEF RemoteInv, LoadingSilent
  <2> QED BY <2>1, <2>2, RemoteAssumption DEF Mentioned
<1>7. CASE /\ Count(eventQ, Answers) = 0 /\ Cardinality(lost) = 0
           /\ child # "ended" => Len(callQ) = 0 /\ child # "working"
  <2>1. \A i \in 1 .. Len(eventQ) : eventQ[i] \in Event BY <1>1, ElementOfSeq
  <2>2. \A i \in 1 .. Len(eventQ) : eventQ[i].kind = "signal"
    BY <1>3, <1>7, <2>1 DEF Answers
  <2>3. Len(eventQ) = 0 \/ child = "working"
    <3>1. \A i \in 1 .. Len(eventQ) : i + 1 .. Len(eventQ) \subseteq 1 .. Len(eventQ)
      BY <1>2
    <3>2. lost = {}
      <4>1. IsFiniteSet(lost) BY DEF RemoteInv, Balance
      <4> QED BY <1>7, <4>1, FS_EmptySet
    <3> QED BY <1>2, <2>2, <3>1, <3>2 DEF RemoteInv, SignalsAnswered
  <2>4. child # "working" BY <1>7
  <2> QED BY <1>1, <1>7, <2>3, <2>4, EmptySeq DEF Mentioned
<1>8. CASE eventQ = <<>> /\ child = "ended"
  <2>1. Len(eventQ) = 0 BY <1>8
  <2> QED BY <1>8, <2>1 DEF Mentioned
<1> QED BY <1>5, <1>6, <1>7, <1>8

LEMMA CallStep ==
  ASSUME RemoteInv, NEW t \in Thread, NEW c \in Request, Call(t, c)
  PROVE  RemoteInv'
<1>1. /\ \/ callQ' = Append(callQ, c) /\ lost' = lost
         \/ callQ' = callQ /\ lost' = lost \cup {c}
      /\ overlapping' = IF UnderWay = {} /\ abandoned = {} THEN overlapping
                        ELSE overlapping \cup UnderWay \cup {c}
      /\ UNCHANGED <<eventQ, child, serving, emitted, answer, abandoned, unseen>>
  BY DEF Call
<1>2. /\ TypeOK' /\ StacksApart' /\ CallbacksCalled'
      /\ c \notin UnderWay /\ UnderWay' = UnderWay \cup {c}
      /\ c \notin Made /\ Made' = Made \cup {c}
  BY CallViews
<1>3. callQ \in Seq(Request) BY DEF RemoteInv, TypeOK
<1>4. /\ callQ' \in Seq(Request) /\ Len(callQ) \in Nat
      /\ \/ /\ Len(callQ') = Len(callQ) + 1 /\ callQ'[Len(callQ) + 1] = c
            /\ \A i \in 1 .. Len(callQ) : callQ'[i] = callQ[i]
            /\ lost' = lost
         \/ callQ' = callQ /\ lost' = lost \cup {c}
  BY <1>1, <1>3, AppendProperties, LenProperties
<1>5. \A d : (Unanswered(d)' => Unanswered(d) \/ d = c) /\ (Mentioned(d)' <=> Mentioned(d))
  BY <1>1, <1>4 DEF Unanswered, Mentioned
<1>6. ~Unanswered(c) /\ ~Mentioned(c) BY <1>2 DEF RemoteInv, EachOnce
<1>7. LoadingSilent' BY <1>1 DEF RemoteInv, LoadingSilent
<1>8. Balance'
  <2>1. /\ IsFiniteSet(UnderWay) /\ IsFiniteSet(abandoned) /\ IsFiniteSet(lost)
        /\ c \notin lost
    BY <1>2 DEF RemoteInv, Balance, EachOnce
  <2>2. IsFiniteSet(UnderWay') /\ Cardinality(UnderWay') = Cardinality(UnderWay) + 1
    BY <1>2, <2>1, FS_AddElement
  <2>3. Expected' = Expected + 1 BY <1>1, <2>2, Numbers DEF Expected
  <2>4. /\ IsFiniteSet(lost')
        /\ Len(callQ') + Cardinality(lost') = Len(callQ) + Cardinality(lost) + 1
        /\ Cardinality(lost') \in Nat /\ Cardinality(lost') <= Cardinality(lost) + 1
        /\ Len(callQ') \in Nat
    <3>1. CASE Len(callQ') = Len(callQ) + 1 /\ lost' = lost BY <2>1, <3>1, Numbers
    <3>2. CASE callQ' = callQ /\ lost' = lost \cup {c}
      <4>1. IsFiniteSet(lost') /\ Cardinality(lost') = Cardinality(lost) + 1
        BY <2>1, <3>2, FS_AddElement
      <4> QED BY <3>2, <4>1, Numbers
    <3> QED BY <1>4, <3>1, <3>2
  <2>5. Count(eventQ', Answers) = Count(eventQ, Answers) BY <1>1
  <2>6. ASSUME child # "ended"
        PROVE  Expected' = Len(callQ') + Working + Count(eventQ', Answers) + Cardinality(lost')
    <3>1. Expected = Len(callQ) + Working + Count(eventQ, Answers) + Cardinality(lost)
      BY <2>6 DEF RemoteInv, Balance
    <3>2. Working \in Nat BY DEF Working
    <3>3. Expected + 1 = Working + Count(eventQ, Answers) + (Len(callQ) + Cardinality(lost) + 1)
      BY <3>1, <3>2, Numbers
    <3>4. Expected' = Working + Count(eventQ', Answers) + (Len(callQ') + Cardinality(lost'))
      BY <2>3, <2>4, <2>5, <3>3
    <3>5. Count(eventQ', Answers) \in Nat BY <2>5, Numbers
    <3> QED BY <2>4, <3>2, <3>4, <3>5
  <2>7. ASSUME child = "ended"
        PROVE  \/ Count(eventQ', Answers) + Cardinality(lost') <= Expected'
               \/ eventQ' = <<>> \/ eventQ' = <<LoadError>>
    <3>1. \/ Count(eventQ, Answers) + Cardinality(lost) <= Expected
          \/ eventQ = <<>> \/ eventQ = <<LoadError>>
      BY <2>7 DEF RemoteInv, Balance
    <3> QED BY <1>1, <2>3, <2>4, <2>5, <3>1, Numbers
  <2>8. Working' = Working /\ Answers' = Answers /\ LoadError' = LoadError /\ child' = child
    BY <1>1 DEF Working
  <2> QED BY <1>1, <2>1, <2>2, <2>4, <2>6, <2>7, <2>8 DEF Balance
<1>9. SignalsAnswered'
  <2>1. lost' = {} => lost = {} BY <1>1
  <2> QED BY <1>1, <2>1 DEF RemoteInv, SignalsAnswered
<1>10. EachOnce'
  <2>1. \A d \in Request : Unanswered(d)' \/ Mentioned(d)' => d \in Made'
    BY <1>2, <1>5 DEF RemoteInv, EachOnce
  <2>2. ASSUME callQ' = callQ, child # "ended", NEW i \in 1 .. Len(callQ')
        PROVE  /\ ~ \E k \in 1 .. Len(eventQ) : eventQ[k].of = callQ'[i]
               /\ child = "working" => serving # callQ'[i]
               /\ \A j \in 1 .. Len(callQ') : callQ'[i] = callQ'[j] => i = j
    BY <2>2 DEF RemoteInv, EachOnce, Mentioned
  <2>3. ASSUME callQ' # callQ, child # "ended", NEW i \in 1 .. Len(callQ')
        PROVE  /\ ~ \E k \in 1 .. Len(eventQ) : eventQ[k].of = callQ'[i]
               /\ child = "working" => serving # callQ'[i]
               /\ \A j \in 1 .. Len(callQ') : callQ'[i] = callQ'[j] => i = j
    <3>1. \A k \in 1 .. Len(callQ) : callQ[k] # c BY <1>6, <2>3 DEF Unanswered
    <3>2. child = "working" => serving # c BY <1>6 DEF Unanswered
    <3>3. \A k \in 1 .. Len(callQ') : k \in 1 .. Len(callQ) \/ k = Len(callQ) + 1 BY <1>4, <2>3
    <3>4. CASE i \in 1 .. Len(callQ)
      BY <1>4, <2>3, <3>1, <3>3, <3>4 DEF RemoteInv, EachOnce, Mentioned
    <3>5. CASE i = Len(callQ) + 1
      BY <1>4, <1>6, <2>3, <3>1, <3>2, <3>3, <3>5 DEF Mentioned
    <3> QED BY <3>3, <3>4, <3>5
  <2>4. \A d \in lost' : d \in Made' /\ ~Unanswered(d)'
    <3>1. CASE callQ' = callQ /\ lost' = lost \cup {c}
      <4>1. \A d : Unanswered(d)' <=> Unanswered(d) BY <1>1, <3>1 DEF Unanswered
      <4> QED BY <1>2, <1>6, <3>1, <4>1 DEF RemoteInv, EachOnce
    <3>2. CASE lost' = lost
      <4>1. c \notin lost BY <1>2 DEF RemoteInv, EachOnce
      <4> QED BY <1>2, <1>5, <3>2, <4>1 DEF RemoteInv, EachOnce
    <3> QED BY <1>1, <3>1, <3>2
  <2> QED BY <1>1, <2>1, <2>2, <2>3, <2>4 DEF EachOnce, Mentioned
<1>11. AloneWhile'
  <2>1. CASE UnderWay = {} /\ abandoned = {}
    <3>1. \A d \in Request : ~Mentioned(d) /\ ~Unanswered(d)
      <4>1. Len(<<>>) = 0 OBVIOUS
      <4> QED BY <2>1, <4>1, QueuesDrained DEF Unanswered
    <3> QED BY <1>1, <1>2, <1>5, <2>1, <3>1 DEF AloneWhile
  <2>2. CASE ~(UnderWay = {} /\ abandoned = {}) BY <1>1, <1>2, <2>2 DEF AloneWhile
  <2> QED BY <2>1, <2>2
<1>12. AloneAfter'
  <2>1. overlapping \subseteq overlapping' BY <1>1
  <2>2. answer[c] = "none" BY <1>2 DEF Made
  <2> QED BY <1>1, <1>5, <2>1, <2>2 DEF RemoteInv, AloneAfter
<1>13. UnseenCounted' BY <1>1 DEF RemoteInv, UnseenCounted
<1> QED BY <1>2, <1>7, <1>8, <1>9, <1>10, <1>11, <1>12, <1>13 DEF RemoteInv

LEMMA TakeSignalStep ==
  ASSUME RemoteInv, NEW t \in Thread, TakeSignal(t)
  PROVE  RemoteInv'
<1> DEFINE h == Head(eventQ)
<1>1. /\ eventQ # <<>> /\ eventQ' = Tail(eventQ) /\ h.kind = "signal"
      /\ unseen' = [unseen EXCEPT ![h.of] = @ - 1]
      /\ inCallback' = inCallback \cup {t}
      /\ waiting[t] # <<>>
      /\ UNCHANGED <<callQ, child, serving, emitted, waiting, answer, abandoned, lost,
                     overlapping>>
  BY DEF TakeSignal, Draining
<1>2. eventQ \in Seq(Event) /\ unseen \in [Request -> 0 .. MaxSignals] /\ emitted \in Nat
  BY RemoteAssumption DEF RemoteInv, TypeOK
<1>3. /\ eventQ' \in Seq(Event)
      /\ \A c : Mentioned(c)' => Mentioned(c)
      /\ \A T : Count(eventQ', T) = Count(eventQ, T) - (IF h \in T THEN 1 ELSE 0)
      /\ SignalsAnswered' /\ LoadingSilent' /\ h \in Event
  BY <1>1, <1>2, TakeEvent DEF RemoteInv
<1>4. h.of \in Request BY <1>1, <1>3 DEF Event
<1> HIDE DEF h
<1>5. /\ UnderWay' = UnderWay /\ Made' = Made /\ Expected' = Expected
      /\ StacksApart'
  BY <1>1, SameViews DEF RemoteInv
<1>6. \A c \in Request : h \in Signals(c) <=> c = h.of BY <1>1, <1>3 DEF Signals
<1>7. \A c \in Request : unseen[c] = Count(eventQ, Signals(c))
  BY DEF RemoteInv, UnseenCounted
<1>8. /\ unseen'[h.of] = unseen[h.of] - 1
      /\ \A c \in Request \ {h.of} : unseen'[c] = unseen[c]
  BY <1>1, <1>2, <1>4
<1>9. \A c \in Request : unseen'[c] = Count(eventQ', Signals(c))
  BY <1>2, <1>3, <1>4, <1>6, <1>7, <1>8
<1>10. Count(eventQ', Signals(h.of)) \in Nat BY <1>3, CountType
<1>11. unseen' \in [Request -> 0 .. MaxSignals]
  BY <1>1, <1>2, <1>4, <1>8, <1>9, <1>10, RemoteAssumption
<1>12. TypeOK' BY <1>1, <1>3, <1>11 DEF RemoteInv, TypeOK
<1>13. \A c : Unanswered(c)' <=> Unanswered(c) BY <1>1 DEF Unanswered
<1>14. Balance'
  <2>1. h \notin Answers BY <1>1 DEF Answers
  <2>2. Count(eventQ, Answers) \in Nat BY <1>2, CountType
  <2>3. Count(eventQ', Answers) = Count(eventQ, Answers) BY <1>3, <2>1, <2>2
  <2>4. eventQ # <<LoadError>>
    <3>1. Head(<<LoadError>>).kind = "load_error" BY DEF LoadError
    <3> QED BY <1>1, <3>1 DEF h
  <2> QED BY <1>1, <1>5, <2>3, <2>4 DEF RemoteInv, Balance, Working
<1>15. EachOnce'
  <2>1. \A c \in Request : Unanswered(c)' \/ Mentioned(c)' => c \in Made'
    BY <1>3, <1>5, <1>13 DEF RemoteInv, EachOnce
  <2>2. child # "ended" => \A i \in 1 .. Len(callQ) : \A k \in 1 .. Len(eventQ') :
          eventQ'[k].of # callQ[i]
    BY <1>3 DEF RemoteInv, EachOnce, Mentioned
  <2>3. \A c \in lost' : c \in Made' /\ ~Unanswered(c)'
    BY <1>1, <1>5, <1>13 DEF RemoteInv, EachOnce
  <2> QED BY <1>1, <2>1, <2>2, <2>3 DEF RemoteInv, EachOnce, Mentioned
<1>16. AloneWhile' BY <1>1, <1>3, <1>5, <1>13 DEF RemoteInv, AloneWhile
<1>17. AloneAfter' BY <1>1, <1>3, <1>13 DEF RemoteInv, AloneAfter
<1>18. UnseenCounted'
  <2>1. child = "working" => unseen'[serving] <= emitted
    <3>1. serving \in Request BY DEF RemoteInv, TypeOK
    <3> QED BY <1>2, <1>8, <3>1 DEF RemoteInv, UnseenCounted
  <2> QED BY <1>1, <1>9, <2>1 DEF UnseenCounted, Signals
<1>19. CallbacksCalled' BY <1>1 DEF RemoteInv, CallbacksCalled
<1> QED BY <1>3, <1>5, <1>12, <1>14, <1>15, <1>16, <1>17, <1>18, <1>19 DEF RemoteInv

\* The answer of a call that was alone leaves nothing behind.
LEMMA AnswerIsLast ==
  ASSUME RemoteInv, NEW c \in Request, UnderWay = {c}, abandoned = {},
         eventQ # <<>>, Head(eventQ).kind # "signal"
  PROVE  /\ Len(eventQ) = 1
         /\ child # "ended" => Len(callQ) = 0 /\ child # "working"
<1>1. eventQ \in Seq(Event) /\ callQ \in Seq(Request) BY DEF RemoteInv, TypeOK
<1>2. Len(eventQ) \in Nat \ {0} /\ Len(callQ) \in Nat BY <1>1, EmptySeq, LenProperties
<1>3. Expected = 1
  <2>1. Cardinality(UnderWay) = 1 /\ Cardinality(abandoned) = 0 BY FS_Singleton, FS_EmptySet
  <2> QED BY <2>1 DEF Expected
<1>4. CASE eventQ = <<LoadError>>
  <2>1. Len(eventQ) = 1 /\ eventQ[1].kind = "load_error" BY <1>4 DEF LoadError
  <2> QED BY <2>1 DEF RemoteInv, LoadingSilent
<1>5. CASE eventQ # <<LoadError>>
  <2>1. Head(eventQ) \in Answers BY <1>1 DEF Answers
  <2>2. Tail(eventQ) \in Seq(Event) /\ Len(Tail(eventQ)) = Len(eventQ) - 1
        /\ \A i \in 1 .. Len(Tail(eventQ)) : Tail(eventQ)[i] = eventQ[i + 1]
    BY <1>1, HeadTailProperties
  <2>3. /\ Count(Tail(eventQ), Answers) \in Nat
        /\ Count(Tail(eventQ), Answers) = 0 =>
             \A i \in 1 .. Len(Tail(eventQ)) : Tail(eventQ)[i] \notin Answers
    BY <2>2, CountType
  <2>4. Count(eventQ, Answers) \in Nat BY <1>1, CountType
  <2>5. Count(Tail(eventQ), Answers) = Count(eventQ, Answers) - 1
    BY <1>1, <2>1, CountTail
  <2>6. /\ Count(Tail(eventQ), Answers) = 0 /\ Cardinality(lost) = 0
        /\ child # "ended" => Len(callQ) = 0 /\ child # "working"
    BY <1>2, <1>3, <1>5, <2>3, <2>4, <2>5, Numbers DEF RemoteInv, Balance, Working
  <2>7. child # "working" BY <2>6
  <2>8. \A i \in 1 .. Len(Tail(eventQ)) : eventQ[i + 1].kind = "signal"
    <3>1. \A i \in 1 .. Len(Tail(eventQ)) : Tail(eventQ)[i] \in Event
      BY <2>2, ElementOfSeq
    <3> QED BY <2>2, <2>3, <2>6, <3>1 DEF Answers
  <2>9. \A i \in 2 .. Len(eventQ) : eventQ[i].kind = "signal"
    <3>1. ASSUME NEW i \in 2 .. Len(eventQ) PROVE eventQ[i].kind = "signal"
      <4>1. i - 1 \in 1 .. Len(Tail(eventQ)) /\ i - 1 + 1 = i BY <1>2, <2>2
      <4> QED BY <2>8, <4>1
    <3> QED BY <3>1
  <2>10. Len(eventQ) = 1
    <3> SUFFICES ASSUME Len(eventQ) # 1 PROVE FALSE
      OBVIOUS
    <3>1. Len(eventQ) > 1
      <4> DEFINE n == Len(eventQ)
      <4>1. n \in Nat /\ n # 0 /\ n # 1 BY <1>2
      <4> HIDE DEF n
      <4>2. n > 1 BY <4>1
      <4> QED BY <4>2 DEF n
    <3>2. Len(eventQ) \in 2 .. Len(eventQ) /\ Len(eventQ) \in 1 .. Len(eventQ)
      BY <1>2, <3>1
    <3>3. eventQ[Len(eventQ)].kind = "signal" BY <2>9, <3>2
    <3>4. lost = {}
      <4>1. IsFiniteSet(lost) BY DEF RemoteInv, Balance
      <4> QED BY <2>6, <4>1, FS_EmptySet
    <3>5. \E j \in Len(eventQ) + 1 .. Len(eventQ) : eventQ[j].kind # "signal"
      BY <2>7, <3>2, <3>3, <3>4 DEF RemoteInv, SignalsAnswered
    <3> QED BY <1>2, <3>5
  <2> QED BY <2>6, <2>10
<1> QED BY <1>4, <1>5

LEMMA TakeAnswerStep ==
  ASSUME RemoteInv, NEW t \in Thread, TakeAnswer(t)
  PROVE  RemoteInv'
<1> DEFINE h == Head(eventQ)
           c == Innermost(t)
<1>1. /\ eventQ # <<>> /\ eventQ' = Tail(eventQ) /\ h.kind # "signal"
      /\ UNCHANGED <<callQ, child, serving, emitted, abandoned, lost, unseen, overlapping>>
  BY DEF TakeAnswer, Draining
<1>2. /\ eventQ \in Seq(Event) /\ answer \in [Request -> {"none", "load"} \cup Request]
  BY DEF RemoteInv, TypeOK
<1>3. /\ eventQ' \in Seq(Event) /\ Len(eventQ') = Len(eventQ) - 1
      /\ \A d : Mentioned(d)' => Mentioned(d)
      /\ \A T : Count(eventQ', T) = Count(eventQ, T) - (IF h \in T THEN 1 ELSE 0)
      /\ SignalsAnswered' /\ LoadingSilent' /\ h \in Event
      /\ h = eventQ[1] /\ Len(eventQ) \in Nat \ {0}
  BY <1>1, <1>2, TakeEvent DEF RemoteInv
<1>4. /\ TypeOK' /\ StacksApart' /\ CallbacksCalled' /\ c \in UnderWay /\ c \in Request
      /\ UnderWay' = UnderWay \ {c} /\ Made' = Made
      /\ answer' = [answer EXCEPT ![c] = h.of]
  BY AnswerViews
<1> HIDE DEF h, c
<1>5. \A d : Unanswered(d)' <=> Unanswered(d) BY <1>1 DEF Unanswered
<1>6. Mentioned(h.of)
  <2>1. 1 \in 1 .. Len(eventQ) BY <1>3
  <2> QED BY <1>3, <2>1 DEF Mentioned
<1>7. Balance'
  <2>1. h \in Answers BY <1>1, <1>3 DEF Answers
  <2>2. Count(eventQ, Answers) \in Nat /\ Count(eventQ', Answers) \in Nat
    BY <1>2, <1>3, CountType
  <2>3. Count(eventQ', Answers) = Count(eventQ, Answers) - 1 BY <1>3, <2>1
  <2>4. IsFiniteSet(UnderWay) BY DEF RemoteInv, Balance
  <2>5. /\ IsFiniteSet(UnderWay') /\ Cardinality(UnderWay') = Cardinality(UnderWay) - 1
    BY <1>4, <2>4, FS_RemoveElement
  <2>6. Expected' = Expected - 1 BY <1>1, <2>5, Numbers DEF Expected
  <2>7. ASSUME child # "ended"
        PROVE  Expected' = Len(callQ) + Working + Count(eventQ', Answers) + Cardinality(lost)
    <3>1. Expected = Len(callQ) + Working + Count(eventQ, Answers) + Cardinality(lost)
      BY <2>7 DEF RemoteInv, Balance
    <3>2. Working \in Nat BY DEF Working
    <3> QED BY <2>2, <2>3, <2>6, <3>1, <3>2, Numbers
  <2>8. ASSUME child = "ended"
        PROVE  \/ Count(eventQ', Answers) + Cardinality(lost) <= Expected'
               \/ eventQ' = <<>> \/ eventQ' = <<LoadError>>
    <3>1. CASE eventQ = <<LoadError>> BY <1>1, <3>1
    <3>2. CASE Count(eventQ, Answers) + Cardinality(lost) <= Expected
      BY <2>2, <2>3, <2>6, <3>2, Numbers
    <3> QED BY <1>1, <2>8, <3>1, <3>2 DEF RemoteInv, Balance
  <2>9. Working' = Working /\ Answers' = Answers /\ LoadError' = LoadError BY <1>1 DEF Working
  <2>10. IsFiniteSet(abandoned') /\ IsFiniteSet(lost') BY <1>1 DEF RemoteInv, Balance
  <2> QED BY <1>1, <2>5, <2>7, <2>8, <2>9, <2>10 DEF Balance
<1>8. EachOnce'
  <2>1. \A d \in Request : Unanswered(d)' \/ Mentioned(d)' => d \in Made'
    BY <1>3, <1>4, <1>5 DEF RemoteInv, EachOnce
  <2>2. child # "ended" => \A i \in 1 .. Len(callQ) : \A k \in 1 .. Len(eventQ') :
          eventQ'[k].of # callQ[i]
    BY <1>3 DEF RemoteInv, EachOnce, Mentioned
  <2>3. \A d \in lost' : d \in Made' /\ ~Unanswered(d)'
    BY <1>1, <1>4, <1>5 DEF RemoteInv, EachOnce
  <2> QED BY <1>1, <2>1, <2>2, <2>3 DEF RemoteInv, EachOnce, Mentioned
<1>9. AloneWhile'
  <2>1. \A d \in UnderWay' \ overlapping : d \in UnderWay \ overlapping /\ d # c BY <1>4
  <2>2. \A d \in UnderWay \ overlapping : UnderWay = {d} BY DEF RemoteInv, AloneWhile
  <2>3. UnderWay' \ overlapping = {} BY <1>4, <2>1, <2>2
  <2> QED BY <1>1, <2>3 DEF AloneWhile
<1>10. AloneAfter'
  <2>1. CASE c \in overlapping
    BY <1>1, <1>2, <1>3, <1>4, <1>5, <2>1 DEF RemoteInv, AloneAfter
  <2>2. CASE c \notin overlapping
    <3>1. UnderWay = {c} /\ abandoned = {} /\ \A d \in Request : Mentioned(d) => d = c
      BY <1>4, <2>2 DEF RemoteInv, AloneWhile
    <3>2. h.of \in {"load", c} BY <1>3, <1>6, <3>1 DEF Event
    <3>3. /\ Len(eventQ) = 1
          /\ child # "ended" => Len(callQ) = 0 /\ child # "working"
      BY <1>1, <1>4, <3>1, AnswerIsLast DEF h
    <3>4. Len(eventQ') = 0 BY <1>3, <3>3
    <3>5. \A d : ~Mentioned(d)' /\ ~Unanswered(d)'
      BY <1>5, <3>3, <3>4 DEF Mentioned, Unanswered
    <3> QED BY <1>1, <1>2, <1>4, <3>2, <3>5 DEF RemoteInv, AloneAfter
  <2> QED BY <2>1, <2>2
<1>11. UnseenCounted'
  <2>1. \A d : h \notin Signals(d) BY <1>1 DEF Signals
  <2>2. \A d \in Request : Count(eventQ, Signals(d)) \in Nat BY <1>2, CountType
  <2>3. \A d \in Request : Count(eventQ', Signals(d)) = Count(eventQ, Signals(d))
    BY <1>3, <2>1, <2>2
  <2> QED BY <1>1, <2>3 DEF RemoteInv, UnseenCounted, Signals
<1> QED BY <1>3, <1>4, <1>7, <1>8, <1>9, <1>10, <1>11 DEF RemoteInv

LEMMA CallbackRaisesStep ==
  ASSUME RemoteInv, NEW t \in Thread, CallbackRaises(t)
  PROVE  RemoteInv'
<1> DEFINE c == Innermost(t)
<1>1. /\ abandoned' = abandoned \cup {c}
      /\ UNCHANGED <<callQ, eventQ, child, serving, emitted, answer, lost, unseen, overlapping>>
  BY DEF CallbackRaises
<1>2. /\ TypeOK' /\ StacksApart' /\ CallbacksCalled'
      /\ c \in UnderWay /\ c \notin abandoned
      /\ UnderWay' = UnderWay \ {c} /\ Made' = Made
  BY RaiseViews
<1> HIDE DEF c
<1>3. \A d : (Unanswered(d)' <=> Unanswered(d)) /\ (Mentioned(d)' <=> Mentioned(d))
  BY <1>1 DEF Unanswered, Mentioned
<1>4. LoadingSilent' BY <1>1 DEF RemoteInv, LoadingSilent
<1>5. Balance'
  <2>1. IsFiniteSet(UnderWay) /\ IsFiniteSet(abandoned) /\ IsFiniteSet(lost)
    BY DEF RemoteInv, Balance
  <2>2. IsFiniteSet(UnderWay') /\ Cardinality(UnderWay') = Cardinality(UnderWay) - 1
    BY <1>2, <2>1, FS_RemoveElement
  <2>3. IsFiniteSet(abandoned') /\ Cardinality(abandoned') = Cardinality(abandoned) + 1
    BY <1>1, <1>2, <2>1, FS_AddElement
  <2>4. Expected' = Expected BY <2>2, <2>3, Numbers DEF Expected
  <2>5. Working' = Working /\ Answers' = Answers /\ LoadError' = LoadError BY <1>1 DEF Working
  <2> QED BY <1>1, <2>1, <2>2, <2>3, <2>4, <2>5 DEF RemoteInv, Balance
<1>6. SignalsAnswered' BY <1>1 DEF RemoteInv, SignalsAnswered
<1>7. EachOnce' BY <1>1, <1>2, <1>3 DEF RemoteInv, EachOnce
<1>8. AloneWhile'
  <2>1. \A d \in UnderWay' \ overlapping : d \in UnderWay \ overlapping /\ d # c BY <1>2
  <2>2. \A d \in UnderWay \ overlapping : UnderWay = {d} BY DEF RemoteInv, AloneWhile
  <2>3. UnderWay' \ overlapping = {} BY <1>2, <2>1, <2>2
  <2> QED BY <1>1, <2>3 DEF AloneWhile
<1>9. AloneAfter' BY <1>1, <1>3 DEF RemoteInv, AloneAfter
<1>10. UnseenCounted' BY <1>1 DEF RemoteInv, UnseenCounted, Signals
<1> QED BY <1>2, <1>4, <1>5, <1>6, <1>7, <1>8, <1>9, <1>10 DEF RemoteInv

LEMMA RemoteInit == Init => RemoteInv
<1> SUFFICES ASSUME Init PROVE RemoteInv
  OBVIOUS
<1>1. /\ callQ = <<>> /\ eventQ = <<>> /\ Len(<<>>) = 0 /\ child = "loading"
      /\ answer = [c \in Request |-> "none"] /\ unseen = [c \in Request |-> 0]
      /\ waiting = [t \in Thread |-> <<>>] /\ inCallback = {}
      /\ abandoned = {} /\ lost = {}
  BY DEF Init
<1>2. TypeOK BY RemoteAssumption DEF Init, TypeOK
<1>3. UnderWay = {}
  <2>1. \A t \in Thread : Range(waiting[t]) = {} BY <1>1 DEF Range
  <2> QED BY <2>1 DEF UnderWay
<1>4. \A T : Count(eventQ, T) = 0 BY <1>1, CountEmpty
<1>5. \A c : ~Unanswered(c) /\ ~Mentioned(c) BY <1>1 DEF Unanswered, Mentioned
<1>6. Balance
  <2>1. Expected = 0 BY <1>1, <1>3, FS_EmptySet DEF Expected
  <2> QED BY <1>1, <1>3, <1>4, <2>1, FS_EmptySet DEF Balance, Working
<1>7. UnseenCounted BY <1>1, <1>4 DEF UnseenCounted
<1> QED BY <1>1, <1>2, <1>3, <1>5, <1>6, <1>7
      DEF RemoteInv, StacksApart, CallbacksCalled, LoadingSilent, SignalsAnswered, EachOnce,
          AloneWhile, AloneAfter

LEMMA RemoteStep == RemoteInv /\ [Next]_vars => RemoteInv'
<1> SUFFICES ASSUME RemoteInv, [Next]_vars PROVE RemoteInv'
  OBVIOUS
<1>0. emitted \in 0 .. MaxSignals /\ emitted <= emitted BY RemoteAssumption DEF RemoteInv, TypeOK
<1>1. CASE Loaded \/ LoadEnds
  BY <1>0, <1>1, QuietStep DEF Loaded, LoadEnds, parent
<1>2. CASE \E t \in Thread : CallbackEnds(t)
  BY <1>0, <1>2, QuietStep DEF CallbackEnds
<1>3. CASE UNCHANGED vars
  BY <1>0, <1>3, QuietStep DEF vars
<1>4. CASE Child
  BY <1>1, <1>4, LoadFailsStep, ServeStep, EmitStep, HandlerStep, ResultLostStep DEF Child
<1>5. CASE \E t \in Thread : Drain(t)
  BY <1>5, TakeAnswerStep, TakeSignalStep DEF Drain
<1>6. CASE \E t \in Thread, c \in Request : Call(t, c)
  BY <1>6, CallStep
<1>7. CASE \E t \in Thread : CallbackRaises(t)
  BY <1>7, CallbackRaisesStep
<1> QED BY <1>2, <1>3, <1>4, <1>5, <1>6, <1>7 DEF Next, Callback

\* The invariant holds in every reachable state.
THEOREM RemoteAlways == Spec => []RemoteInv
BY RemoteInit, RemoteStep, PTL DEF Spec

-----------------------------------------------------------------------------
(* The properties. *)

\* The books balance: in whatever order the threads take what the child says,
\* whatever a callback abandons and the queues drop, each call that waits or was
\* abandoned has one answer to come, unless it was dropped, and there is no other.
THEOREM OneAnswerEachAlways == Spec => []OneAnswerEach
<1>1. RemoteInv => OneAnswerEach
  BY DEF RemoteInv, Balance, Expected, Working, OneAnswerEach
<1> QED BY <1>1, RemoteAlways, PTL

\* A call that no other overlaps, with none abandoned before it, returns what its
\* own handler answered.
THEOREM SoleAnswersMatchAlways == Spec => []SoleAnswersMatch
<1>1. RemoteInv => SoleAnswersMatch BY DEF RemoteInv, AloneAfter, SoleAnswersMatch
<1> QED BY <1>1, RemoteAlways, PTL

\* Such a call returns after all signals of its handler that reached the queue.
THEOREM SignalsFirstAlways == Spec => []SignalsFirst
<1>1. RemoteInv => SignalsFirst
  <2> SUFFICES ASSUME RemoteInv, NEW c \in Request \ overlapping, answer[c] # "none"
               PROVE  unseen[c] = 0
    BY DEF SignalsFirst
  <2>1. ~Mentioned(c) BY DEF RemoteInv, AloneAfter
  <2>2. {i \in 1 .. Len(eventQ) : eventQ[i] \in Signals(c)} = {}
    BY <2>1 DEF Mentioned, Signals
  <2>3. Count(eventQ, Signals(c)) = 0 BY <2>2, FS_EmptySet DEF Count
  <2> QED BY <2>3 DEF RemoteInv, UnseenCounted
<1> QED BY <1>1, RemoteAlways, PTL
=============================================================================

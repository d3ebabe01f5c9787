---------------------------- MODULE CoHostProofs ----------------------------
(***************************************************************************)
(* Proofs about CoHost: for any set of coroutines, any recursion limits    *)
(* and any bound on the depth of calls, the debugger's stack holds exactly *)
(* the calls under way (StackCounts), and the recursion limit is raised    *)
(* exactly while a coroutine is under way as long as coroutines end in the *)
(* opposite of the order they were started in (CeilingNests).              *)
(***************************************************************************)
EXTENDS CoHost, FiniteSetTheorems, SequenceTheorems, TLAPS

-----------------------------------------------------------------------------
(* The inductive invariant. *)

\* The coroutines that are active form a chain from the program to the one
\* that runs: each was resumed by the program or an active one, no two by the
\* same, and none by the one that runs.
Active(c) == life[c] = "active"
Chain ==
  /\ running \in Co => Active(running)
  /\ \A c \in Co : Active(c) => /\ driver[c] # running
                                /\ driver[c] \in Co => Active(driver[c])
  /\ \A c, d \in Co : Active(c) /\ Active(d) /\ driver[c] = driver[d] => c = d

\* `order` lists each live coroutine once, and those have frames.
Ordered ==
  /\ order \in Seq(Co)
  /\ \A i, j \in 1 .. Len(order) : order[i] = order[j] => i = j
  /\ \A c \in Co : c \in Live <=> \E i \in 1 .. Len(order) : order[i] = c
  /\ \A c \in Co : c \in Live <=> frames[c] > 0
  /\ IsFiniteSet(Live) /\ Len(order) = Cardinality(Live)

\* While coroutines end in the opposite of the order they were started in,
\* the oldest one saved the process's limit and all younger ones the raised one.
Saved ==
  nested => IF order = <<>> THEN limit = Default
            ELSE /\ limit = CoLimit /\ saved[order[1]] = Default
                 /\ \A i \in 2 .. Len(order) : saved[order[i]] = CoLimit

\* What StackCounts says of the stack.
Stack ==
  /\ callStack \in Seq(Thread) /\ frames \in [Thread -> 0 .. MaxFrames]
  /\ IsFiniteSet(UnderWay) /\ Len(callStack) = Cardinality(UnderWay)
  /\ frames[Main] > 0 => callStack # <<>> /\ callStack[1] = Main

\* The types of the rest.
Types ==
  /\ running \in Thread /\ driver \in [Co -> Thread] /\ nested \in BOOLEAN
  /\ life \in [Co -> {"new", "active", "suspended", "finished"}]
  /\ limit \in {Default, CoLimit} /\ saved \in [Co -> {Default, CoLimit}]

CoHostInv == Stack /\ Types /\ Chain /\ Ordered /\ Saved

-----------------------------------------------------------------------------
(* The stack and the calls under way. *)

\* A call adds one to the calls under way.
LEMMA PushCounts == ASSUME Stack, NEW t \in Thread, Push(t), frames[t] < MaxFrames,
                           frames[Main] > 0 \/ t # Main
                    PROVE  Stack'
<1> DEFINE call == <<t, frames[t] + 1>>
<1>1. MaxFrames \in Nat \ {0} BY CoHostAssumption
<1>2. frames[t] \in 0 .. MaxFrames BY DEF Stack
<1>3. frames[t] + 1 \in 1 .. MaxFrames BY <1>1, <1>2
<1>4. callStack \in Seq(Thread) /\ callStack' = Append(callStack, t)
  BY DEF Stack, Push
<1>5. /\ callStack' \in Seq(Thread) /\ Len(callStack') = Len(callStack) + 1
      /\ callStack # <<>> => callStack'[1] = callStack[1]
      /\ callStack' # <<>>
  BY <1>4
<1>6. frames' = [frames EXCEPT ![t] = frames[t] + 1] BY DEF Push
<1>7. frames' \in [Thread -> 0 .. MaxFrames]
  <2>1. frames[t] + 1 \in 0 .. MaxFrames BY <1>3
  <2> QED BY <1>6, <2>1 DEF Stack
<1>8. UnderWay' = UnderWay \cup {call}
  <2>1. \A s \in Thread : frames'[s] = IF s = t THEN frames[t] + 1 ELSE frames[s]
    BY <1>6 DEF Stack
  <2>2. ASSUME NEW s \in Thread, NEW n \in 1 .. MaxFrames
        PROVE  n <= frames'[s] <=> n <= frames[s] \/ (s = t /\ n = frames[t] + 1)
    BY <1>2, <2>1
  <2>3. call \in Thread \X (1 .. MaxFrames) BY <1>3
  <2> QED BY <2>2, <2>3 DEF UnderWay
<1>9. call \notin UnderWay BY <1>2 DEF UnderWay
<1>10. IsFiniteSet(UnderWay) BY DEF Stack
<1>11. IsFiniteSet(UnderWay') /\ Cardinality(UnderWay') = Cardinality(UnderWay) + 1
  BY <1>8, <1>9, <1>10, FS_AddElement
<1>12. frames'[Main] > 0 => callStack'[1] = Main
  <2>1. Main \in Thread BY DEF Thread
  <2>2. t # Main => frames'[Main] = frames[Main] BY <1>6, <2>1 DEF Stack
  <2> QED BY <1>5, <2>2 DEF Stack
<1> QED BY <1>5, <1>7, <1>11, <1>12 DEF Stack

\* A return takes one from them, and never the program's frame before its end.
LEMMA PopCounts == ASSUME Stack, NEW t \in Thread, Pop(t), frames[t] > 0
                   PROVE  Stack'
<1> DEFINE call == <<t, frames[t]>>
<1>1. MaxFrames \in Nat \ {0} BY CoHostAssumption
<1>2. frames[t] \in 1 .. MaxFrames
  <2>1. frames[t] \in 0 .. MaxFrames BY DEF Stack
  <2> QED BY <1>1, <2>1
<1>3. frames' = [frames EXCEPT ![t] = frames[t] - 1] BY DEF Pop
<1>4. frames' \in [Thread -> 0 .. MaxFrames]
  <2>1. frames[t] - 1 \in 0 .. MaxFrames BY <1>1, <1>2
  <2> QED BY <1>3, <2>1 DEF Stack
<1>5. UnderWay' = UnderWay \ {call}
  <2>1. \A s \in Thread : frames'[s] = IF s = t THEN frames[t] - 1 ELSE frames[s]
    BY <1>3 DEF Stack
  <2>2. ASSUME NEW s \in Thread, NEW n \in 1 .. MaxFrames
        PROVE  n <= frames'[s] <=> n <= frames[s] /\ ~(s = t /\ n = frames[t])
    BY <1>2, <2>1
  <2> QED BY <2>2 DEF UnderWay
<1>6. call \in UnderWay BY <1>2 DEF UnderWay
<1>7. IsFiniteSet(UnderWay) BY DEF Stack
<1>8. IsFiniteSet(UnderWay') /\ Cardinality(UnderWay') = Cardinality(UnderWay) - 1
  BY <1>5, <1>6, <1>7, FS_RemoveElement
<1>9. Cardinality(UnderWay') \in Nat BY <1>8, FS_CardinalityType
<1>10. Len(callStack) = Cardinality(UnderWay') + 1 /\ callStack \in Seq(Thread)
  BY <1>8, <1>9 DEF Stack
<1>11. callStack' = SubSeq(callStack, 1, Len(callStack) - 1) BY DEF Pop
<1>12. /\ callStack' \in Seq(Thread) /\ Len(callStack') = Cardinality(UnderWay')
       /\ Len(callStack') > 0 => callStack' # <<>> /\ callStack'[1] = callStack[1]
  BY <1>9, <1>10, <1>11
<1>13. frames'[Main] > 0 => callStack' # <<>> /\ callStack'[1] = Main
  <2> SUFFICES ASSUME frames'[Main] > 0 PROVE callStack' # <<>> /\ callStack'[1] = Main
    OBVIOUS
  <2>1. Main \in Thread BY DEF Thread
  <2>2. frames'[Main] \in 0 .. MaxFrames BY <1>4, <2>1
  <2>3. <<Main, 1>> \in UnderWay' BY <1>1, <2>1, <2>2 DEF UnderWay
  <2>4. Cardinality(UnderWay') # 0 BY <1>8, <2>3, FS_EmptySet
  <2>5. frames[Main] > 0
    <3>1. Main # t => frames'[Main] = frames[Main] BY <1>3, <2>1 DEF Stack
    <3> QED BY <1>2, <3>1
  <2> QED BY <1>9, <1>12, <2>4, <2>5 DEF Stack
<1> QED BY <1>4, <1>8, <1>12, <1>13 DEF Stack

\* What leaves both alone keeps what is said of them.
LEMMA StackKept == ASSUME Stack, UNCHANGED <<callStack, frames>> PROVE Stack'
  BY DEF Stack, UnderWay

-----------------------------------------------------------------------------
(* One step of one thread. *)

\* Calls and returns are the stack's business; every thread that has a frame
\* before has one after.
LEMMA CallsKeep == ASSUME CoHostInv, Stack', \A c \in Co : frames'[c] > 0 <=> frames[c] > 0,
                          UNCHANGED <<running, life, driver, limit, saved, order, nested>>
                   PROVE  CoHostInv'
<1>1. Live' = Live BY DEF Live
<1>2. Types' /\ Chain' BY DEF CoHostInv, Types, Chain, Active
<1>3. Ordered' BY <1>1 DEF CoHostInv, Ordered
<1>4. Saved' BY DEF CoHostInv, Saved
<1> QED BY <1>2, <1>3, <1>4 DEF CoHostInv

LEMMA CallStep == CoHostInv /\ Call => CoHostInv'
<1> SUFFICES ASSUME CoHostInv, Call PROVE CoHostInv'
  OBVIOUS
<1>1. running \in Thread /\ Stack BY DEF CoHostInv, Types
<1>2. MaxFrames \in Nat \ {0} BY CoHostAssumption
<1>3. frames[running] > 0 /\ frames[running] < MaxFrames BY <1>2 DEF Call
<1>4. Stack' BY <1>1, <1>3, PushCounts DEF Call
<1>5. \A c \in Co : frames'[c] > 0 <=> frames[c] > 0
  <2>1. frames[running] \in Nat BY <1>1, <1>2 DEF Stack
  <2>2. frames' = [frames EXCEPT ![running] = frames[running] + 1] BY DEF Call, Push
  <2>3. frames[running] + 1 > 0 BY <2>1
  <2> QED BY <1>1, <1>3, <2>2, <2>3 DEF Stack, Thread
<1> QED BY <1>4, <1>5, CallsKeep DEF Call

LEMMA ReturnStep == CoHostInv /\ Return => CoHostInv'
<1> SUFFICES ASSUME CoHostInv, Return PROVE CoHostInv'
  OBVIOUS
<1>1. running \in Thread /\ Stack BY DEF CoHostInv, Types
<1>2. MaxFrames \in Nat \ {0} BY CoHostAssumption
<1>3. frames[running] \in Nat /\ frames[running] > 1 BY <1>1, <1>2 DEF Return, Stack
<1>4. frames[running] > 0 /\ frames[running] - 1 > 0 BY <1>3
<1>5. Stack' BY <1>1, <1>4, PopCounts DEF Return
<1>6. \A c \in Co : frames'[c] > 0 <=> frames[c] > 0
  <2>1. frames' = [frames EXCEPT ![running] = frames[running] - 1] BY DEF Return, Pop
  <2> QED BY <1>1, <1>4, <2>1 DEF Stack, Thread
<1> QED BY <1>5, <1>6, CallsKeep DEF Return

LEMMA ProgramEndsStep == CoHostInv /\ ProgramEnds => CoHostInv'
<1> SUFFICES ASSUME CoHostInv, ProgramEnds PROVE CoHostInv'
  OBVIOUS
<1>1. Main \in Thread /\ Main \notin Co /\ Stack
  BY CoHostAssumption DEF CoHostInv, Thread
<1>2. Stack' BY <1>1, PopCounts DEF ProgramEnds
<1>3. \A c \in Co : frames'[c] > 0 <=> frames[c] > 0
  BY <1>1 DEF ProgramEnds, Pop, Stack, Thread
<1> QED BY <1>2, <1>3, CallsKeep DEF ProgramEnds

LEMMA YieldStep == CoHostInv /\ Yield => CoHostInv'
<1> SUFFICES ASSUME CoHostInv, Yield PROVE CoHostInv'
  OBVIOUS
<1>1. /\ running \in Co /\ running' = driver[running]
      /\ life' = [life EXCEPT ![running] = "suspended"]
      /\ UNCHANGED <<driver, limit, saved, order, nested, callStack, frames>>
  BY DEF Yield
<1>2. Types /\ Chain /\ Active(running) BY <1>1 DEF CoHostInv, Chain
<1>3. life'[running] = "suspended" /\ \A c \in Co \ {running} : life'[c] = life[c]
  BY <1>1, <1>2 DEF Types
<1>4. Live' = Live
  BY <1>1, <1>2, <1>3 DEF Live, Active
<1>5. Stack' BY <1>1, StackKept DEF CoHostInv
<1>6. Types' BY <1>1, <1>2 DEF Types
<1>7. \A c \in Co : Active(c)' <=> Active(c) /\ c # running BY <1>3 DEF Active
<1>8. Chain'
  <2>1. driver[running] \in Co => Active(driver[running]) /\ driver[running] # running
    BY <1>1, <1>2 DEF Chain
  <2>2. ASSUME NEW c \in Co, Active(c), c # running
        PROVE  driver[c] # driver[running] /\ driver[c] # running
               /\ (driver[c] \in Co => Active(driver[c]))
    BY <1>1, <1>2, <2>2 DEF Chain
  <2>3. \A c, d \in Co : Active(c) /\ Active(d) /\ driver[c] = driver[d] => c = d
    BY <1>2 DEF Chain
  <2>4. \A c \in Co : life'[c] = "active" <=> life[c] = "active" /\ c # running
    BY <1>7 DEF Active
  <2> QED BY <1>1, <2>1, <2>2, <2>3, <2>4 DEF Chain, Active
<1>9. Ordered' BY <1>1, <1>4 DEF CoHostInv, Ordered
<1>10. Saved' BY <1>1 DEF CoHostInv, Saved
<1> QED BY <1>5, <1>6, <1>8, <1>9, <1>10 DEF CoHostInv

\* What a resumption does to the chain, whether it starts the thread or not.
LEMMA ResumeChains == ASSUME CoHostInv, NEW c \in Co, Resume(c)
                      PROVE  /\ running' \in Thread /\ driver' \in [Co -> Thread]
                             /\ life' = [life EXCEPT ![c] = "active"]
                             /\ Chain'
<1>1. /\ running' = c /\ life[c] \in {"new", "suspended"}
      /\ life' = [life EXCEPT ![c] = "active"] /\ driver' = [driver EXCEPT ![c] = running]
  BY DEF Resume
<1>2. Types /\ Chain /\ ~Active(c) BY <1>1 DEF CoHostInv, Active
<1>3. running # c BY <1>2 DEF Chain
<1>4. \A d \in Co : life'[d] = "active" <=> life[d] = "active" \/ d = c
  BY <1>1, <1>2 DEF Types
<1>5. driver'[c] = running /\ \A d \in Co \ {c} : driver'[d] = driver[d]
  BY <1>1, <1>2 DEF Types
<1>6. ASSUME NEW d \in Co, life[d] = "active"
      PROVE  /\ d # c /\ driver[d] # running /\ driver[d] # c
             /\ driver[d] \in Co => life[driver[d]] = "active"
  BY <1>2, <1>6 DEF Chain, Active
<1>7. running \in Co => life[running] = "active" BY <1>2 DEF Chain, Active
<1>8. \A d, e \in Co : life[d] = "active" /\ life[e] = "active" /\ driver[d] = driver[e] => d = e
  BY <1>2 DEF Chain, Active
<1>9. Chain'
  <2>1. running' \in Co => Active(running)' BY <1>1, <1>4 DEF Active
  <2>2. ASSUME NEW d \in Co, life'[d] = "active"
        PROVE  driver'[d] # running' /\ (driver'[d] \in Co => life'[driver'[d]] = "active")
    <3>1. CASE d = c BY <1>1, <1>3, <1>4, <1>5, <1>7, <3>1
    <3>2. CASE d # c BY <1>1, <1>4, <1>5, <1>6, <2>2, <3>2
    <3> QED BY <3>1, <3>2
  <2>3. ASSUME NEW d \in Co, NEW e \in Co, life'[d] = "active", life'[e] = "active",
               driver'[d] = driver'[e]
        PROVE  d = e
    <3>1. CASE d = c /\ e # c BY <1>4, <1>5, <1>6, <2>3, <3>1
    <3>2. CASE e = c /\ d # c BY <1>4, <1>5, <1>6, <2>3, <3>2
    <3>3. CASE d # c /\ e # c BY <1>4, <1>5, <1>8, <2>3, <3>3
    <3> QED BY <3>1, <3>2, <3>3
  <2> QED BY <2>1, <2>2, <2>3 DEF Chain, Active
<1> QED BY <1>1, <1>2, <1>9 DEF Types, Thread

LEMMA ResumeStep == ASSUME CoHostInv, NEW c \in Co, Resume(c) PROVE CoHostInv'
<1>1. /\ life[c] \in {"new", "suspended"} /\ life' = [life EXCEPT ![c] = "active"]
      /\ nested' = nested /\ running' \in Thread /\ driver' \in [Co -> Thread]
      /\ Chain'
  BY ResumeChains DEF Resume
<1>2. Stack /\ Types /\ Ordered /\ Saved BY DEF CoHostInv
<1>3. life' \in [Co -> {"new", "active", "suspended", "finished"}] BY <1>1, <1>2 DEF Types
<1>4. Live' = Live \cup {c} BY <1>1, <1>2 DEF Types, Live
<1>5. CASE life[c] = "suspended"
  <2>1. UNCHANGED <<limit, saved, order, callStack, frames>> BY <1>5 DEF Resume
  <2>2. Live' = Live BY <1>4, <1>5 DEF Live
  <2>3. Types' BY <1>1, <1>2, <1>3, <2>1 DEF Types
  <2>4. Ordered' BY <1>2, <2>1, <2>2 DEF Ordered
  <2>5. Saved' BY <1>1, <1>2, <2>1 DEF Saved
  <2>6. Stack' BY <1>2, <2>1, StackKept
  <2> QED BY <1>1, <2>3, <2>4, <2>5, <2>6 DEF CoHostInv
<1>6. CASE life[c] = "new"
  <2>1. /\ saved' = [saved EXCEPT ![c] = limit] /\ limit' = Max({limit, CoLimit})
        /\ order' = Append(order, c) /\ Push(c)
    BY <1>6 DEF Resume, Enter
  <2>2. limit' = CoLimit
    <3>1. Default \in Nat /\ CoLimit \in Nat /\ Default < CoLimit BY CoHostAssumption
    <3>2. limit \in {Default, CoLimit} BY <1>2 DEF Types
    <3>3. CoLimit \in {limit, CoLimit} /\ \A y \in {limit, CoLimit} : CoLimit >= y
      BY <3>1, <3>2
    <3>4. \A x \in {limit, CoLimit} : (\A y \in {limit, CoLimit} : x >= y) => x = CoLimit
      BY <3>1, <3>2
    <3> QED BY <2>1, <3>3, <3>4 DEF Max
  <2>3. c \notin Live BY <1>6 DEF Live
  <2>4. MaxFrames \in Nat \ {0} /\ c \in Thread /\ c # Main /\ Main \in Thread
    BY CoHostAssumption DEF Thread
  <2>5. frames[c] = 0
    <3>1. frames[c] \in 0 .. MaxFrames BY <1>2, <2>4 DEF Stack
    <3>2. ~(frames[c] > 0) BY <1>2, <2>3 DEF Ordered
    <3> QED BY <2>4, <3>1, <3>2
  <2>6. frames[c] < MaxFrames BY <2>4, <2>5
  <2>7. Stack' BY <1>2, <2>1, <2>4, <2>6, PushCounts
  <2>8. Types' BY <1>1, <1>2, <1>3, <2>1, <2>2 DEF Types
  <2>9. order \in Seq(Co) BY <1>2 DEF Ordered
  <2>10. /\ order' \in Seq(Co) /\ Len(order') = Len(order) + 1 /\ order'[Len(order) + 1] = c
         /\ \A i \in 1 .. Len(order) : order'[i] = order[i] /\ order[i] \in Co
    BY <2>1, <2>9
  <2>11. \A i \in 1 .. Len(order) : order[i] \in Live /\ order[i] # c
    BY <1>2, <2>3, <2>10 DEF Ordered
  <2>12. Len(order) \in Nat BY <2>9
  <2>13. Ordered'
    <3>1. \A i, j \in 1 .. Len(order') : order'[i] = order'[j] => i = j
      <4>1. \A i, j \in 1 .. Len(order) : order[i] = order[j] => i = j
        BY <1>2 DEF Ordered
      <4> QED BY <2>10, <2>11, <2>12, <4>1
    <3>2. ASSUME NEW d \in Co
          PROVE  d \in Live' <=> \E i \in 1 .. Len(order') : order'[i] = d
      <4>1. d \in Live <=> \E i \in 1 .. Len(order) : order[i] = d BY <1>2 DEF Ordered
      <4>2. \A i : i \in 1 .. Len(order') <=> i \in 1 .. Len(order) \/ i = Len(order) + 1
        BY <2>10, <2>12
      <4> QED BY <1>4, <2>10, <4>1, <4>2
    <3>3. ASSUME NEW d \in Co PROVE d \in Live' <=> frames'[d] > 0
      <4>1. d \in Live <=> frames[d] > 0 BY <1>2 DEF Ordered
      <4>2. frames'[d] = IF d = c THEN 1 ELSE frames[d]
        BY <1>2, <2>1, <2>4, <2>5 DEF Push, Stack, Thread
      <4> QED BY <1>4, <4>1, <4>2
    <3>4. IsFiniteSet(Live') /\ Len(order') = Cardinality(Live')
      <4>1. IsFiniteSet(Live) /\ Len(order) = Cardinality(Live) BY <1>2 DEF Ordered
      <4>2. IsFiniteSet(Live') /\ Cardinality(Live') = Cardinality(Live) + 1
        BY <1>4, <2>3, <4>1, FS_AddElement
      <4> QED BY <2>10, <4>1, <4>2
    <3> QED BY <2>10, <3>1, <3>2, <3>3, <3>4 DEF Ordered
  <2>14. Saved'
    <3> SUFFICES ASSUME nested
                 PROVE  /\ order' # <<>> /\ saved'[order'[1]] = Default
                        /\ \A i \in 2 .. Len(order') : saved'[order'[i]] = CoLimit
      BY <1>1, <2>2 DEF Saved
    <3>1. saved'[c] = limit /\ \A d \in Co \ {c} : saved'[d] = saved[d]
      BY <1>2, <2>1 DEF Types
    <3>2. order' # <<>> BY <2>1, <2>9
    <3>3. CASE order = <<>>
      <4>1. limit = Default BY <1>2, <3>3 DEF Saved
      <4>2. Len(order') = 1 /\ order'[1] = c BY <2>10, <3>3
      <4> QED BY <3>1, <3>2, <4>1, <4>2
    <3>4. CASE order # <<>>
      <4>1. /\ limit = CoLimit /\ saved[order[1]] = Default
            /\ \A i \in 2 .. Len(order) : saved[order[i]] = CoLimit
        BY <1>2, <3>4 DEF Saved
      <4>2. 1 \in 1 .. Len(order) BY <2>9, <3>4
      <4>3. saved'[order'[1]] = Default BY <2>10, <2>11, <3>1, <4>1, <4>2
      <4>4. ASSUME NEW i \in 2 .. Len(order') PROVE saved'[order'[i]] = CoLimit
        <5>1. CASE i = Len(order) + 1 BY <2>10, <3>1, <4>1, <5>1
        <5>2. CASE i # Len(order) + 1
          <6>1. i \in 2 .. Len(order) /\ i \in 1 .. Len(order)
            BY <2>10, <2>12, <4>4, <5>2
          <6> QED BY <2>10, <2>11, <3>1, <4>1, <6>1
        <5> QED BY <5>1, <5>2
      <4> QED BY <3>2, <4>3, <4>4
    <3> QED BY <3>3, <3>4
  <2> QED BY <1>1, <2>7, <2>8, <2>13, <2>14 DEF CoHostInv
<1> QED BY <1>1, <1>5, <1>6

\* The sequence without its i-th element.
LEMMA RemoveAtIs == ASSUME NEW S, NEW s \in Seq(S), NEW i \in 1 .. Len(s)
                    PROVE  /\ RemoveAt(s, i) \in Seq(S)
                           /\ Len(RemoveAt(s, i)) = Len(s) - 1
                           /\ \A j \in 1 .. Len(s) - 1 :
                                RemoveAt(s, i)[j] = IF j < i THEN s[j] ELSE s[j + 1]
<1> DEFINE front == SubSeq(s, 1, i - 1)
           back == SubSeq(s, i + 1, Len(s))
<1>1. Len(s) \in Nat /\ i \in Nat /\ 1 <= i /\ i <= Len(s) OBVIOUS
<1>2. front \in Seq(S) /\ Len(front) = i - 1 /\ \A j \in 1 .. i - 1 : front[j] = s[j]
  BY <1>1
<1>3. /\ back \in Seq(S) /\ Len(back) = Len(s) - i
      /\ \A j \in 1 .. Len(s) - i : back[j] = s[i + j]
  BY <1>1
<1>4. RemoveAt(s, i) = front \o back BY DEF RemoveAt
<1> HIDE DEF front, back
<1>5. /\ front \o back \in Seq(S) /\ Len(front \o back) = Len(s) - 1
      /\ \A j \in 1 .. Len(s) - 1 :
           (front \o back)[j] = IF j <= i - 1 THEN front[j] ELSE back[j - (i - 1)]
  <2>1. front \o back \in Seq(S) /\ Len(front \o back) = Len(front) + Len(back)
    BY <1>2, <1>3, ConcatProperties
  <2>2. \A j \in 1 .. Len(front) + Len(back) :
          (front \o back)[j] = IF j <= Len(front) THEN front[j] ELSE back[j - Len(front)]
    BY <1>2, <1>3, ConcatProperties
  <2>3. Len(front) + Len(back) = Len(s) - 1 BY <1>1, <1>2, <1>3
  <2> QED BY <1>2, <2>1, <2>2, <2>3
<1>6. ASSUME NEW j \in 1 .. Len(s) - 1
      PROVE  (front \o back)[j] = IF j < i THEN s[j] ELSE s[j + 1]
  <2>1. CASE j < i
    <3>1. j \in 1 .. i - 1 BY <1>1, <2>1
    <3> QED BY <1>2, <1>5, <2>1, <3>1
  <2>2. CASE ~(j < i)
    <3>1. ~(j <= i - 1) /\ j - (i - 1) \in 1 .. Len(s) - i /\ i + (j - (i - 1)) = j + 1
      BY <1>1, <2>2
    <3>2. back[j - (i - 1)] = s[i + (j - (i - 1))] BY <1>3, <3>1
    <3> QED BY <1>5, <2>2, <3>1, <3>2
  <2> QED BY <2>1, <2>2
<1> QED BY <1>4, <1>5, <1>6

LEMMA FinishStep == CoHostInv /\ Finish => CoHostInv'
<1> SUFFICES ASSUME CoHostInv, Finish PROVE CoHostInv'
  OBVIOUS
<1>1. /\ running \in Co /\ frames[running] = 1 /\ limit' = saved[running] /\ Pop(running)
      /\ order' = Without(running) /\ nested' = (nested /\ order[Len(order)] = running)
      /\ life' = [life EXCEPT ![running] = "finished"] /\ running' = driver[running]
      /\ UNCHANGED <<driver, saved>>
  BY DEF Finish
<1>2. Stack /\ Types /\ Chain /\ Ordered /\ Saved BY DEF CoHostInv
<1>3. running \in Thread /\ running \in Live
  BY <1>1, <1>2 DEF Thread, Chain, Active, Live
<1>4. Stack' BY <1>1, <1>2, <1>3, PopCounts
<1>5. Types'
  <2>1. nested' \in BOOLEAN BY <1>1, ZenonT(30)
  <2>2. limit' \in {Default, CoLimit} /\ saved' \in [Co -> {Default, CoLimit}]
    BY <1>1, <1>2 DEF Types
  <2>3. /\ running' \in Thread /\ driver' \in [Co -> Thread]
        /\ life' \in [Co -> {"new", "active", "suspended", "finished"}]
    BY <1>1, <1>2 DEF Types
  <2> QED BY <2>1, <2>2, <2>3 DEF Types
<1>6. \A c \in Co : life'[c] = IF c = running THEN "finished" ELSE life[c]
  BY <1>1, <1>2 DEF Types
<1>7. Chain'
  <2>1. driver[running] \in Co => Active(driver[running]) /\ driver[running] # running
    BY <1>1, <1>2 DEF Chain
  <2>2. ASSUME NEW c \in Co, Active(c), c # running
        PROVE  driver[c] # driver[running] /\ driver[c] # running
               /\ (driver[c] \in Co => Active(driver[c]))
    BY <1>1, <1>2, <2>2 DEF Chain
  <2>3. \A c, d \in Co : Active(c) /\ Active(d) /\ driver[c] = driver[d] => c = d
    BY <1>2 DEF Chain
  <2>4. \A c \in Co : life'[c] = "active" <=> life[c] = "active" /\ c # running BY <1>6
  <2> QED BY <1>1, <2>1, <2>2, <2>3, <2>4 DEF Chain, Active
<1>8. order \in Seq(Co) /\ Len(order) \in Nat BY <1>2 DEF Ordered
<1>9. PICK i \in 1 .. Len(order) :
        order[i] = running /\ order' = RemoveAt(order, i)
  <2>1. \E i \in 1 .. Len(order) : order[i] = running BY <1>1, <1>2, <1>3 DEF Ordered
  <2>2. DOMAIN order = 1 .. Len(order) BY <1>8
  <2> QED BY <1>1, <2>1, <2>2 DEF Without
<1>10. /\ order' \in Seq(Co) /\ Len(order') = Len(order) - 1
       /\ \A j \in 1 .. Len(order) - 1 :
            order'[j] = IF j < i THEN order[j] ELSE order[j + 1]
  BY <1>8, <1>9, RemoveAtIs
<1>11. \A j, k \in 1 .. Len(order) : order[j] = order[k] => j = k BY <1>2 DEF Ordered
<1>12. Live' = Live \ {running} BY <1>1, <1>6 DEF Live
<1>13. Ordered'
  <2>1. ASSUME NEW j \in 1 .. Len(order'), NEW k \in 1 .. Len(order'), order'[j] = order'[k]
        PROVE  j = k
    <3> DEFINE before(n) == IF n < i THEN n ELSE n + 1
    <3>1. /\ before(j) \in 1 .. Len(order) /\ before(k) \in 1 .. Len(order)
          /\ before(j) = before(k) => j = k
      BY <1>8, <1>10
    <3>2. order'[j] = order[before(j)] /\ order'[k] = order[before(k)] BY <1>8, <1>10
    <3> QED BY <1>11, <2>1, <3>1, <3>2
  <2>2. ASSUME NEW c \in Co
        PROVE  c \in Live' <=> \E j \in 1 .. Len(order') : order'[j] = c
    <3>1. c \in Live <=> \E j \in 1 .. Len(order) : order[j] = c BY <1>2 DEF Ordered
    <3>2. ASSUME c \in Live' PROVE \E j \in 1 .. Len(order') : order'[j] = c
      <4>1. PICK j \in 1 .. Len(order) : order[j] = c BY <1>12, <3>1, <3>2
      <4>2. j # i BY <1>9, <1>12, <3>2, <4>1
      <4>3. CASE j < i
        <5>1. j \in 1 .. Len(order) - 1 BY <1>8, <4>3
        <5> QED BY <1>10, <4>1, <4>3, <5>1
      <4>4. CASE j > i
        <5>1. j - 1 \in 1 .. Len(order) - 1 /\ ~(j - 1 < i) /\ (j - 1) + 1 = j BY <1>8, <4>4
        <5> QED BY <1>10, <4>1, <5>1
      <4> QED BY <4>2, <4>3, <4>4
    <3>3. ASSUME NEW j \in 1 .. Len(order'), order'[j] = c PROVE c \in Live'
      <4>1. PICK k \in 1 .. Len(order) : k # i /\ order[k] = c
        <5>1. CASE j < i
          <6>1. j \in 1 .. Len(order) BY <1>8, <1>10
          <6> QED BY <1>8, <1>10, <3>3, <5>1, <6>1
        <5>2. CASE ~(j < i)
          <6>1. j + 1 \in 1 .. Len(order) /\ j + 1 # i BY <1>8, <1>10, <5>2
          <6> QED BY <1>8, <1>10, <3>3, <5>2, <6>1
        <5> QED BY <5>1, <5>2
      <4>2. c # running BY <1>9, <1>11, <4>1
      <4> QED BY <1>12, <3>1, <4>1, <4>2
    <3> QED BY <3>2, <3>3
  <2>3. ASSUME NEW c \in Co PROVE c \in Live' <=> frames'[c] > 0
    <3>1. c \in Live <=> frames[c] > 0 BY <1>2 DEF Ordered
    <3>2. frames'[c] = IF c = running THEN 0 ELSE frames[c]
      BY <1>1, <1>2 DEF Pop, Stack, Thread
    <3> QED BY <1>12, <3>1, <3>2
  <2>4. IsFiniteSet(Live') /\ Len(order') = Cardinality(Live')
    <3>1. IsFiniteSet(Live) /\ Len(order) = Cardinality(Live) BY <1>2 DEF Ordered
    <3>2. IsFiniteSet(Live') /\ Cardinality(Live') = Cardinality(Live) - 1
      BY <1>3, <1>12, <3>1, FS_RemoveElement
    <3> QED BY <1>10, <3>1, <3>2
  <2> QED BY <1>10, <2>1, <2>2, <2>3, <2>4 DEF Ordered
<1>14. Saved'
  <2> SUFFICES ASSUME nested'
               PROVE  IF order' = <<>> THEN limit' = Default
                      ELSE /\ limit' = CoLimit /\ saved'[order'[1]] = Default
                           /\ \A j \in 2 .. Len(order') : saved'[order'[j]] = CoLimit
    BY DEF Saved
  <2>1. nested /\ order[Len(order)] = running BY <1>1
  <2>2. i = Len(order) /\ Len(order) >= 1 /\ order # <<>>
    BY <1>8, <1>9, <1>11, <2>1
  <2>3. /\ limit = CoLimit /\ saved[order[1]] = Default
        /\ \A j \in 2 .. Len(order) : saved[order[j]] = CoLimit
    BY <1>2, <2>1, <2>2 DEF Saved
  <2>4. limit' = saved[order[Len(order)]] BY <1>1, <2>1
  <2>5. CASE Len(order) = 1
    <3>1. order' = <<>> BY <1>10, <2>5
    <3> QED BY <2>3, <2>4, <2>5, <3>1
  <2>6. CASE Len(order) > 1
    <3>1. Len(order) \in 2 .. Len(order) /\ 1 \in 1 .. Len(order) - 1 /\ 1 < i
      BY <1>8, <2>2, <2>6
    <3>2. order' # <<>> BY <1>8, <1>10, <2>6
    <3>3. saved'[order'[1]] = Default BY <1>1, <1>10, <2>3, <3>1
    <3>4. ASSUME NEW j \in 2 .. Len(order') PROVE saved'[order'[j]] = CoLimit
      <4>1. j \in 1 .. Len(order) - 1 /\ j < i /\ j \in 2 .. Len(order)
        BY <1>8, <1>10, <2>2
      <4> QED BY <1>1, <1>10, <2>3, <4>1
    <3> QED BY <2>3, <2>4, <3>1, <3>2, <3>3, <3>4
  <2> QED BY <1>8, <2>2, <2>5, <2>6
<1> QED BY <1>4, <1>5, <1>7, <1>13, <1>14 DEF CoHostInv

-----------------------------------------------------------------------------
(* The theorems. *)

LEMMA CoHostInit == Init => CoHostInv
<1> SUFFICES ASSUME Init PROVE CoHostInv
  OBVIOUS
<1>1. Main \notin Co /\ MaxFrames \in Nat \ {0} BY CoHostAssumption
<1>2. Main \in Thread BY DEF Thread
<1>3. frames = [t \in Thread |-> IF t = Main THEN 1 ELSE 0] BY DEF Init
<1>4. UnderWay = {<<Main, 1>>}
  <2>1. <<Main, 1>> \in Thread \X (1 .. MaxFrames) BY <1>1, <1>2
  <2>2. ASSUME NEW t \in Thread, NEW n \in 1 .. MaxFrames
        PROVE  n <= frames[t] <=> t = Main /\ n = 1
    BY <1>1, <1>3
  <2> QED BY <2>1, <2>2 DEF UnderWay
<1>5. Stack
  <2>1. callStack = <<Main>> BY DEF Init
  <2>2. frames \in [Thread -> 0 .. MaxFrames] BY <1>1, <1>3
  <2>3. callStack \in Seq(Thread) /\ Len(callStack) = 1 /\ callStack # <<>> /\ callStack[1] = Main
    BY <1>2, <2>1
  <2>4. IsFiniteSet(UnderWay) /\ Cardinality(UnderWay) = 1 BY <1>4, FS_Singleton
  <2> QED BY <2>2, <2>3, <2>4 DEF Stack
<1>6. Types BY <1>2 DEF Init, Types
<1>7. Chain BY <1>1 DEF Init, Chain, Active
<1>8. Live = {} BY DEF Init, Live
<1>9. Ordered
  <2>1. order = <<>> /\ Len(order) = 0 /\ order \in Seq(Co) BY DEF Init
  <2>2. \A c \in Co : ~(frames[c] > 0) BY <1>1, <1>3 DEF Thread
  <2>3. IsFiniteSet(Live) /\ Len(order) = Cardinality(Live) BY <1>8, <2>1, FS_EmptySet
  <2> QED BY <1>8, <2>1, <2>2, <2>3 DEF Ordered
<1>10. Saved BY DEF Init, Saved
<1> QED BY <1>5, <1>6, <1>7, <1>9, <1>10 DEF CoHostInv

LEMMA CoHostNext == CoHostInv /\ [Next]_vars => CoHostInv'
<1> SUFFICES ASSUME CoHostInv, [Next]_vars PROVE CoHostInv'
  OBVIOUS
<1>1. CASE UNCHANGED vars
  <2>1. UNCHANGED <<running, life, driver, limit, saved, order, nested, callStack, frames>>
    BY <1>1 DEF vars
  <2>2. Stack' BY <2>1, StackKept DEF CoHostInv
  <2> QED BY <2>1, <2>2, CallsKeep
<1>2. CASE Call BY <1>2, CallStep
<1>3. CASE Return BY <1>3, ReturnStep
<1>4. CASE Yield BY <1>4, YieldStep
<1>5. CASE Finish BY <1>5, FinishStep
<1>6. CASE ProgramEnds BY <1>6, ProgramEndsStep
<1>7. CASE \E c \in Co : Resume(c) BY <1>7, ResumeStep
<1> QED BY <1>1, <1>2, <1>3, <1>4, <1>5, <1>6, <1>7 DEF Next

\* Whatever the program, the invariant holds of CoHost's states.
THEOREM CoHostAlways == Spec => []CoHostInv
<1> QED BY CoHostInit, CoHostNext, PTL DEF Spec

\* The debugger's stack holds exactly the calls under way in all threads,
\* with the program's frame at its bottom, however eval_program, the calls
\* and CoroutineInstance._run of different threads push and pop.
THEOREM StackCountsAlways == Spec => []StackCounts
<1>1. CoHostInv => StackCounts
  <2> SUFFICES ASSUME CoHostInv PROVE StackCounts
    OBVIOUS
  <2>1. Stack /\ Types /\ Ordered BY DEF CoHostInv
  <2>2. order \in Seq(Co) /\ DOMAIN order = 1 .. Len(order) BY <2>1 DEF Ordered
  <2>3. {order[i] : i \in DOMAIN order} = Live
    <3>1. Live \subseteq Co BY DEF Live
    <3>2. \A i \in DOMAIN order : order[i] \in Co BY <2>2
    <3> QED BY <2>1, <2>2, <3>1, <3>2 DEF Ordered
  <2>4. TypeOK BY <2>1, <2>3 DEF TypeOK, Stack, Types, Ordered
  <2> QED BY <2>1, <2>4 DEF StackCounts, Stack
<1> QED BY <1>1, CoHostAlways, PTL

\* _run raises the recursion limit and restores it: as long as coroutines end
\* in the opposite of the order they were started in, the limit is raised
\* exactly while one of them is under way.
THEOREM CeilingNestsAlways == Spec => []CeilingNests
<1>1. CoHostInv => CeilingNests
  <2> SUFFICES ASSUME CoHostInv, nested PROVE (limit = CoLimit) <=> (Live # {})
    BY DEF CeilingNests
  <2>1. Ordered /\ Saved /\ Default # CoLimit BY CoHostAssumption DEF CoHostInv
  <2>2. order = <<>> <=> Live = {}
    <3>1. order \in Seq(Co) /\ Live \subseteq Co BY <2>1 DEF Ordered, Live
    <3>2. order # <<>> => 1 \in 1 .. Len(order) /\ order[1] \in Co BY <3>1
    <3>3. order = <<>> => Len(order) = 0 /\ ~\E i \in 1 .. Len(order) : TRUE BY <3>1
    <3> QED BY <2>1, <3>1, <3>2, <3>3 DEF Ordered
  <2> QED BY <2>1, <2>2 DEF Saved
<1> QED BY <1>1, CoHostAlways, PTL
=============================================================================

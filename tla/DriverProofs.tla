---------------------------- MODULE DriverProofs ----------------------------
(***************************************************************************)
(* Proofs about Driver: for any programs and any limit, the debugger's     *)
(* stack is the chain of calls under way (FramesMatch), and no driver has  *)
(* more calls under way than its limit (DepthBounded).                     *)
(*                                                                         *)
(* What is assumed of the programs is what the parser makes: statements    *)
(* whose bodies are sequences of statements.  Code stands for the set of   *)
(* all statements of the programs, those inside others included.           *)
(***************************************************************************)
EXTENDS Driver, FiniteSetTheorems, SequenceTheorems, TLAPS

\* The programs are built of these statements, to any depth.
BuiltOf(Code) ==
  /\ Programs \subseteq Seq(Code)
  /\ \A s \in Code :
       /\ s.body \in Seq(Code) /\ s.other \in Seq(Code)
       /\ s.op \in {"return", "break", "continue"} => s.arg \in Value

-----------------------------------------------------------------------------
(* The inductive invariant. *)

Place == {"call", "scope", "block", "loop", "want", "defers"}
Hows(Code) == {"nil", "native", "nested", "for", "while", "else"} \cup {s.arg : s \in Code}
Signals(exceptions) == [kind : Signal, val : Value, exc : 0 .. exceptions]
Contexts(Code, exceptions) ==
  [at : Place, code : Seq(Code), other : Seq(Code), defers : Seq(Code), left : Nat,
   how : Hows(Code), after : Signals(exceptions)]

\* The stack holds contexts, of a call at the bottom.
Stacked(Code) ==
  /\ stack \in Seq(Contexts(Code, raised))
  /\ stack # <<>> => stack[1].at = "call"

Typed ==
  /\ signal \in Signals(raised)
  /\ raised \in Nat /\ captured \in 0 .. raised

\* The calls at or below i of the driver that runs at i.
Segment(i) == {k \in Calls : k <= i /\ \A j \in Calls : k < j /\ j <= i => stack[j].how = "nested"}

\* Each call has one frame, and each driver's calls are within its limit.
Counted ==
  /\ IsFiniteSet(Calls) /\ frames = Cardinality(Calls)
  /\ \A i \in Nat : Cardinality(Segment(i)) <= MaxDriver

DriverInv(Code) == Stacked(Code) /\ Typed /\ Counted

\* The calls of the driver that runs are within its limit.
DepthBounded == DriverDepth <= MaxDriver

-----------------------------------------------------------------------------
(* Contexts. *)

\* Contexts of fewer exceptions are contexts.
LEMMA ContextsGrow ==
  ASSUME NEW Code, NEW m \in Nat, NEW n \in Nat, m <= n
  PROVE  /\ Signals(m) \subseteq Signals(n)
         /\ Seq(Contexts(Code, m)) \subseteq Seq(Contexts(Code, n))
<1>1. Signals(m) \subseteq Signals(n)
  <2>1. 0 .. m \subseteq 0 .. n
    OBVIOUS
  <2> QED BY <2>1 DEF Signals
<1>2. Contexts(Code, m) \subseteq Contexts(Code, n)
  BY <1>1, Zenon DEF Contexts
<1> QED BY <1>1, <1>2, SeqMonotonic

\* A context made for statements is one.
LEMMA ContextIs ==
  ASSUME NEW Code, NEW n \in Nat, NEW at \in Place, NEW code \in Seq(Code)
  PROVE  /\ Context(at, code) \in Contexts(Code, n)
         /\ Context(at, code).at = at
<1>1. <<>> \in Seq(Code)
  OBVIOUS
<1>2. Normal("nil") \in Signals(n)
  BY DEF Normal, Ends, Signals, Signal, Value
<1> DEFINE none == <<>>
           next == Normal("nil")
<1>3. Context(at, code) = [at |-> at, code |-> code, other |-> none, defers |-> none, left |-> 0,
                           how |-> "nil", after |-> next]
  BY DEF Context
<1> HIDE DEF none, next
<1>4. none \in Seq(Code) /\ next \in Signals(n)
  BY <1>1, <1>2 DEF none, next
<1>5. "nil" \in Hows(Code) /\ 0 \in Nat
  BY DEF Hows
<1>6. Context(at, code).at = at
  BY <1>3
<1>7. Context(at, code) \in Contexts(Code, n)
  BY <1>3, <1>4, <1>5 DEF Contexts
<1> QED BY <1>6, <1>7

\* So are the contexts of a body.
LEMMA BlocksAre ==
  ASSUME NEW Code, NEW n \in Nat, NEW body \in Seq(Code),
         NEW new \in {Scoped(body), RunBlock(body)}
  PROVE  /\ new \in Seq(Contexts(Code, n))
         /\ \A i \in DOMAIN new : new[i].at # "call"
<1>1. Block(body) \in Contexts(Code, n) /\ Block(body).at = "block"
  BY ContextIs DEF Block, Place
<1>2. Scope \in Contexts(Code, n) /\ Scope.at = "scope"
  <2>1. <<>> \in Seq(Code)
    OBVIOUS
  <2>2. "scope" \in Place
    BY DEF Place
  <2> QED BY <2>1, <2>2, ContextIs DEF Scope
<1> DEFINE b == Block(body)
           s == Scope
<1>3. new = <<s, b>> \/ new = <<b>>
  BY DEF Scoped, RunBlock
<1> HIDE DEF b, s
<1>4. /\ b \in Contexts(Code, n) /\ b.at = "block"
      /\ s \in Contexts(Code, n) /\ s.at = "scope"
  BY <1>1, <1>2 DEF b, s
<1>5. CASE new = <<s, b>>
  BY <1>4, <1>5
<1>6. CASE new = <<b>>
  BY <1>4, <1>6
<1> QED BY <1>3, <1>5, <1>6

-----------------------------------------------------------------------------
(* What a step replaces. *)

\* The new contexts stand where the innermost one was; the rest stays.
LEMMA Replaced ==
  ASSUME NEW S, stack \in Seq(S), stack # <<>>, NEW new \in Seq(S), Replace(new)
  PROVE  /\ stack' \in Seq(S)
         /\ Len(stack') = Len(stack) - 1 + Len(new)
         /\ \A i \in 1 .. Len(stack) - 1 : stack'[i] = stack[i]
         /\ \A i \in 1 .. Len(new) : stack'[Len(stack) - 1 + i] = new[i]
<1>1. Len(stack) \in Nat \ {0} /\ \A i \in 1 .. Len(stack) - 1 : stack[i] \in S
  BY LenProperties, EmptySeq
<1>2. /\ Below \in Seq(S) /\ Len(Below) = Len(stack) - 1
      /\ \A i \in 1 .. Len(stack) - 1 : Below[i] = stack[i]
  <2> DEFINE n == Len(stack) - 1
  <2>0. n \in Int /\ 1 \in Int /\ n - 1 + 1 = n /\ \A i \in 1 .. n : stack[i] \in S
    BY <1>1
  <2> HIDE DEF n
  <2>1. /\ SubSeq(stack, 1, n) \in Seq(S)
        /\ Len(SubSeq(stack, 1, n)) = IF 1 <= n THEN n - 1 + 1 ELSE 0
        /\ \A i \in 1 .. n - 1 + 1 : SubSeq(stack, 1, n)[i] = stack[1 + i - 1]
    BY <2>0, SubSeqProperties
  <2> USE DEF n
  <2>2. /\ SubSeq(stack, 1, n) \in Seq(S) /\ Len(SubSeq(stack, 1, n)) = n
        /\ \A i \in 1 .. n : SubSeq(stack, 1, n)[i] = stack[i]
    <3>1. n - 1 + 1 = n /\ (IF 1 <= n THEN n - 1 + 1 ELSE 0) = n
      <4>1. n \in Nat
        BY <1>1
      <4> HIDE DEF n
      <4> QED BY <4>1
    <3>2. ASSUME NEW i \in 1 .. n PROVE i \in 1 .. n - 1 + 1 /\ 1 + i - 1 = i
      BY <1>1, <3>2
    <3> HIDE DEF n
    <3> QED BY <2>1, <3>1, <3>2
  <2> QED BY <1>1, <2>2 DEF Below, Front
<1>3. Len(new) \in Nat
  BY LenProperties
<1>4. /\ stack' \in Seq(S) /\ Len(stack') = Len(Below) + Len(new)
      /\ \A i \in 1 .. Len(Below) + Len(new) :
           stack'[i] = IF i <= Len(Below) THEN Below[i] ELSE new[i - Len(Below)]
  BY <1>2, ConcatProperties DEF Replace
<1>5. ASSUME NEW i \in 1 .. Len(stack) - 1 PROVE stack'[i] = stack[i]
  <2>1. i \in 1 .. Len(Below) + Len(new) /\ i <= Len(Below)
    BY <1>1, <1>2, <1>3
  <2> QED BY <1>2, <1>4, <2>1
<1>6. ASSUME NEW i \in 1 .. Len(new) PROVE stack'[Len(stack) - 1 + i] = new[i]
  <2> DEFINE k == Len(stack) - 1 + i
  <2>1. k \in 1 .. Len(Below) + Len(new) /\ ~(k <= Len(Below)) /\ k - Len(Below) = i
    BY <1>1, <1>2, <1>3, <1>6
  <2> QED BY <1>4, <2>1
<1> QED BY <1>2, <1>4, <1>5, <1>6

\* A step that ends no call and makes none leaves the calls as they are.
SameCalls == Calls' = Calls /\ \A i \in Calls : stack'[i].how = stack[i].how

LEMMA CallsStay ==
  ASSUME NEW S, stack \in Seq(S), stack' \in Seq(S),
         NEW m \in Nat, m <= Len(stack), m <= Len(stack'),
         \A i \in 1 .. m : stack'[i] = stack[i],
         \A i \in m + 1 .. Len(stack) : stack[i].at # "call",
         \A i \in m + 1 .. Len(stack') : stack'[i].at # "call"
  PROVE  SameCalls
<1>1. /\ DOMAIN stack = 1 .. Len(stack) /\ Len(stack) \in Nat
      /\ DOMAIN stack' = 1 .. Len(stack') /\ Len(stack') \in Nat
  BY LenProperties
<1>2. \A i \in Calls : i \in 1 .. m
  BY <1>1 DEF Calls
<1>3. \A i \in Calls' : i \in 1 .. m
  BY <1>1 DEF Calls
<1>4. \A i \in 1 .. m : i \in Calls' <=> i \in Calls
  BY <1>1 DEF Calls
<1>5. Calls' = Calls
  BY <1>2, <1>3, <1>4
<1> QED BY <1>2, <1>5 DEF SameCalls

\* What is below the innermost context is a stack, and not empty.
LEMMA TopIs ==
  ASSUME NEW Code, Stacked(Code), stack # <<>>
  PROVE  /\ Top \in Contexts(Code, raised) /\ Top = stack[Len(stack)]
         /\ Len(stack) \in Nat \ {0} /\ DOMAIN stack = 1 .. Len(stack)
         /\ Top.at # "call" => Len(stack) > 1
<1>1. Len(stack) \in Nat \ {0} /\ DOMAIN stack = 1 .. Len(stack)
  BY LenProperties, EmptySeq DEF Stacked
<1>2. Top = stack[Len(stack)]
  BY DEF Top, Last
<1>3. Top \in Contexts(Code, raised)
  BY <1>1, <1>2, ElementOfSeq DEF Stacked
<1>4. Top.at # "call" => Len(stack) # 1
  BY <1>2 DEF Stacked
<1> QED BY <1>1, <1>2, <1>3, <1>4

\* A step that replaces a context that is no call by some that are none.
LEMMA QuietStep ==
  ASSUME NEW Code, Stacked(Code), Typed, stack # <<>>, Top.at # "call",
         NEW new \in Seq(Contexts(Code, raised)), \A i \in DOMAIN new : new[i].at # "call",
         Replace(new), raised' \in {raised, raised + 1}
  PROVE  Stacked(Code)' /\ SameCalls
<1> DEFINE S == Contexts(Code, raised)
<1>1. /\ stack' \in Seq(S)
      /\ Len(stack') = Len(stack) - 1 + Len(new)
      /\ \A i \in 1 .. Len(stack) - 1 : stack'[i] = stack[i]
      /\ \A i \in 1 .. Len(new) : stack'[Len(stack) - 1 + i] = new[i]
  BY Replaced DEF Stacked
<1>2. /\ Len(stack) \in Nat /\ Len(stack) > 1 /\ Top = stack[Len(stack)]
      /\ Len(new) \in Nat /\ DOMAIN new = 1 .. Len(new)
      /\ Len(stack') \in Nat /\ stack \in Seq(S)
  BY <1>1, TopIs, LenProperties DEF Stacked
<1> HIDE DEF S
<1> DEFINE m == Len(stack) - 1
<1>3. m \in Nat /\ m >= 1 /\ m <= Len(stack) /\ m <= Len(stack')
  BY <1>1, <1>2
<1>4. \A i \in m + 1 .. Len(stack) : stack[i].at # "call"
  BY <1>2
<1>5. ASSUME NEW i \in m + 1 .. Len(stack') PROVE stack'[i].at # "call"
  <2>1. i - m \in 1 .. Len(new) /\ m + (i - m) = i
    BY <1>1, <1>2, <1>5
  <2>2. stack'[m + (i - m)] = new[i - m]
    BY <1>1, <2>1
  <2> QED BY <1>2, <2>1, <2>2
<1>6. SameCalls
  <2>1. \A i \in 1 .. m : stack'[i] = stack[i]
    BY <1>1
  <2> HIDE DEF m
  <2> QED BY <1>1, <1>2, <1>3, <1>4, <1>5, <2>1, CallsStay
<1>7. Seq(S) \subseteq Seq(Contexts(Code, raised'))
  <2>1. raised \in Nat /\ raised' \in Nat /\ raised <= raised'
    BY DEF Typed
  <2> QED BY <2>1, ContextsGrow DEF S
<1>8. stack'[1] = stack[1] /\ stack[1].at = "call"
  BY <1>1, <1>2 DEF Stacked
<1> QED BY <1>1, <1>6, <1>7, <1>8 DEF Stacked

\* The same when nothing is put in its place.
LEMMA QuietEnd ==
  ASSUME NEW Code, Stacked(Code), Typed, stack # <<>>, Top.at # "call",
         Replace(<<>>), raised' = raised
  PROVE  Stacked(Code)' /\ SameCalls
<1>1. <<>> \in Seq(Contexts(Code, raised)) /\ \A i \in DOMAIN <<>> : <<>>[i].at # "call"
  OBVIOUS
<1> QED BY <1>1, QuietStep

\* Or one context is, or two.
LEMMA QuietPut ==
  ASSUME NEW Code, Stacked(Code), Typed, stack # <<>>, Top.at # "call",
         NEW a \in Contexts(Code, raised), a.at # "call",
         Replace(<<a>>), raised' \in {raised, raised + 1}
  PROVE  Stacked(Code)' /\ SameCalls
<1>1. <<a>> \in Seq(Contexts(Code, raised)) /\ \A i \in DOMAIN <<a>> : <<a>>[i].at # "call"
  OBVIOUS
<1> HIDE DEF Replace
<1> QED BY <1>1, QuietStep

LEMMA QuietPutTwo ==
  ASSUME NEW Code, Stacked(Code), Typed, stack # <<>>, Top.at # "call",
         NEW a \in Contexts(Code, raised), a.at # "call",
         NEW b \in Contexts(Code, raised), b.at # "call",
         Replace(<<a, b>>), raised' \in {raised, raised + 1}
  PROVE  Stacked(Code)' /\ SameCalls
<1>1. <<a, b>> \in Seq(Contexts(Code, raised)) /\ \A i \in DOMAIN <<a, b>> : <<a, b>>[i].at # "call"
  OBVIOUS
<1> QED BY <1>1, QuietStep

\* Or one and others after it, such as the contexts of a body.
LEMMA QuietThen ==
  ASSUME NEW Code, Stacked(Code), Typed, stack # <<>>, Top.at # "call",
         NEW a \in Contexts(Code, raised), a.at # "call",
         NEW new \in Seq(Contexts(Code, raised)), \A i \in DOMAIN new : new[i].at # "call",
         Replace(<<a>> \o new), raised' = raised
  PROVE  Stacked(Code)' /\ SameCalls
<1>1. <<a>> \o new \in Seq(Contexts(Code, raised))
  OBVIOUS
<1>2. \A i \in DOMAIN (<<a>> \o new) : (<<a>> \o new)[i].at # "call"
  OBVIOUS
<1> QED BY <1>1, <1>2, QuietStep

LEMMA QuietEnter ==
  ASSUME NEW Code, Stacked(Code), Typed, stack # <<>>, Top.at # "call",
         NEW a \in Contexts(Code, raised), a.at # "call",
         NEW body \in Seq(Code), NEW new \in {Scoped(body), RunBlock(body)},
         Replace(<<a>> \o new), raised' = raised
  PROVE  Stacked(Code)' /\ SameCalls
<1>1. new \in Seq(Contexts(Code, raised)) /\ \A i \in DOMAIN new : new[i].at # "call"
  BY BlocksAre DEF Typed
<1> QED BY <1>1, QuietThen

-----------------------------------------------------------------------------
(* The steps that leave the calls as they are. *)

Quiet(Code) == Stacked(Code)' /\ Typed' /\ SameCalls /\ frames' = frames

LEMMA SignalsAre ==
  ASSUME NEW n \in Nat
  PROVE  /\ \A kind \in Signal, val \in Value : Ends(kind, val) \in Signals(n)
         /\ \A val \in Value : Normal(val) \in Signals(n)
         /\ Normal("nil") \in Signals(n)
         /\ Raises(n) \in Signals(n)
  BY DEF Ends, Normal, Raises, Signals, Signal, Value

LEMMA StatementIs ==
  ASSUME NEW Code, BuiltOf(Code), Stacked(Code), NEW op, Statement(op)
  PROVE  /\ stack # <<>> /\ Top.at = "block" /\ Top.at # "call"
         /\ This \in Code /\ This.op = op
         /\ Rest \in Contexts(Code, raised) /\ Rest.at = "block" /\ Rest.at # "call"
<1>1. stack # <<>> /\ Top.at = "block" /\ Top.code # <<>> /\ This.op = op
  BY DEF Statement, At, This
<1>2. Top \in Contexts(Code, raised)
  BY <1>1, TopIs
<1>3. Top.code \in Seq(Code)
  BY <1>2 DEF Contexts
<1>4. This \in Code /\ Tail(Top.code) \in Seq(Code)
  BY <1>1, <1>3, HeadTailProperties DEF This
<1>5. Rest \in Contexts(Code, raised) /\ Rest.at = "block"
  BY <1>1, <1>2, <1>4 DEF Rest, Contexts
<1> QED BY <1>1, <1>4, <1>5

LEMMA MarkQuiet ==
  ASSUME NEW Code, BuiltOf(Code), Stacked(Code), Typed, DoMark PROVE Quiet(Code)
<1>1. /\ Statement("mark") /\ Replace(<<Rest>>) /\ signal' = Normal("nil")
      /\ frames' = frames /\ captured' = captured /\ raised' = raised
  BY DEF DoMark
<1>2. Stacked(Code)' /\ SameCalls
  BY <1>1, StatementIs, QuietPut
<1>3. Typed'
  BY <1>1, SignalsAre DEF Typed
<1> QED BY <1>1, <1>2, <1>3 DEF Quiet

LEMMA SignalQuiet ==
  ASSUME NEW Code, BuiltOf(Code), Stacked(Code), Typed, DoSignal PROVE Quiet(Code)
<1>1. PICK op \in {"return", "break", "continue"} : Statement(op) /\ signal' = Ends(op, This.arg)
  BY DEF DoSignal
<1>2. /\ Replace(<<Rest>>)
      /\ frames' = frames /\ captured' = captured /\ raised' = raised
  BY DEF DoSignal
<1>3. Stacked(Code)' /\ SameCalls
  BY <1>1, <1>2, StatementIs, QuietPut
<1>4. This.arg \in Value
  BY <1>1, StatementIs DEF BuiltOf
<1>5. signal' \in Signals(raised)
  BY <1>1, <1>4, SignalsAre DEF Signal, Typed
<1>6. Typed'
  BY <1>2, <1>5 DEF Typed
<1> QED BY <1>2, <1>3, <1>6 DEF Quiet

LEMMA CrashQuiet ==
  ASSUME NEW Code, BuiltOf(Code), Stacked(Code), Typed, DoCrash PROVE Quiet(Code)
<1>1. /\ Statement("crash") /\ Replace(<<Rest>>) /\ signal' = Raises(raised + 1)
      /\ frames' = frames /\ captured' = captured /\ raised' = raised + 1
  BY DEF DoCrash
<1>2. Stacked(Code)' /\ SameCalls
  BY <1>1, StatementIs, QuietPut
<1>3. raised + 1 \in Nat /\ 0 .. raised \subseteq 0 .. raised + 1
  BY DEF Typed
<1>4. Typed'
  BY <1>1, <1>3, SignalsAre DEF Typed
<1> QED BY <1>1, <1>2, <1>4 DEF Quiet

LEMMA BlockQuiet ==
  ASSUME NEW Code, BuiltOf(Code), Stacked(Code), Typed, DoBlock PROVE Quiet(Code)
<1>1. /\ signal' = Normal("nil")
      /\ frames' = frames /\ captured' = captured /\ raised' = raised
  BY DEF DoBlock
<1>2. PICK body \in {This.body, This.other}, op \in {"if", "do"} :
        Statement(op) /\ Replace(<<Rest>> \o RunBlock(body))
  BY DEF DoBlock, Branch
<1>3. body \in Seq(Code)
  BY <1>2, StatementIs DEF BuiltOf
<1>4. Stacked(Code)' /\ SameCalls
  BY <1>1, <1>2, <1>3, StatementIs, QuietEnter
<1>5. Typed'
  BY <1>1, SignalsAre DEF Typed
<1> QED BY <1>1, <1>4, <1>5 DEF Quiet

LEMMA LoopQuiet ==
  ASSUME NEW Code, BuiltOf(Code), Stacked(Code), Typed, DoLoop PROVE Quiet(Code)
<1>1. /\ signal' = Normal("nil")
      /\ frames' = frames /\ captured' = captured /\ raised' = raised
  BY DEF DoLoop
<1> DEFINE loop(op) == [Context("loop", This.body) EXCEPT
                          !.other = This.other, !.left = Times(This), !.how = op]
<1>2. PICK op \in {"for", "while"} : Statement(op) /\ Replace(<<Rest, loop(op)>>)
  BY DEF DoLoop
<1>3. loop(op) \in Contexts(Code, raised) /\ loop(op).at # "call"
  <2>1. This.body \in Seq(Code) /\ This.other \in Seq(Code)
    BY <1>2, StatementIs DEF BuiltOf
  <2>2. Context("loop", This.body) \in Contexts(Code, raised) /\ Context("loop", This.body).at = "loop"
    BY <2>1, ContextIs DEF Typed, Place
  <2>3. op \in Hows(Code) /\ Times(This) \in Nat
    BY DEF Hows, Times
  <2> QED BY <2>1, <2>2, <2>3 DEF Contexts
<1> HIDE DEF loop
<1>4. Stacked(Code)' /\ SameCalls
  BY <1>1, <1>2, <1>3, StatementIs, QuietPutTwo
<1>5. Typed'
  BY <1>1, SignalsAre DEF Typed
<1> QED BY <1>1, <1>4, <1>5 DEF Quiet

\* A defer changes the scope below the block, which is no call either.
LEMMA DeferQuiet ==
  ASSUME NEW Code, BuiltOf(Code), Stacked(Code), Typed, DoDefer PROVE Quiet(Code)
<1>1. /\ Statement("defer") /\ signal' = Normal("nil")
      /\ frames' = frames /\ captured' = captured /\ raised' = raised
  BY DEF DoDefer
<1>2. Typed'
  BY <1>1, SignalsAre DEF Typed
<1> DEFINE S == Contexts(Code, raised)
           n == Len(stack)
           low == Front(Below)
           scope == [Last(Below) EXCEPT !.defers = Append(@, This)]
<1>3. /\ n \in Nat /\ n > 1 /\ stack \in Seq(S) /\ stack[n].at = "block"
      /\ \A i \in 1 .. n : stack[i] \in S
  BY <1>1, StatementIs, TopIs, ElementOfSeq DEF Stacked
<1>4. CASE Last(Below).at # "scope"
  <2>1. Replace(<<Rest>>)
    BY <1>4 DEF DoDefer, Replace
  <2> QED BY <1>1, <1>2, <2>1, StatementIs, QuietPut DEF Quiet
<1>5. CASE Last(Below).at = "scope"
  <2>1. stack' = low \o <<scope, Rest>>
    BY <1>5 DEF DoDefer
  <2>2. /\ Below \in Seq(S) /\ Len(Below) = n - 1
        /\ \A i \in 1 .. n - 1 : Below[i] = stack[i]
    BY <1>3 DEF Below, Front
  <2>3. /\ low \in Seq(S) /\ Len(low) = n - 2
        /\ \A i \in 1 .. n - 2 : low[i] = stack[i]
    BY <1>3, <2>2 DEF Front
  <2>4. Last(Below) = stack[n - 1] /\ stack[n - 1].at = "scope" /\ stack[n - 1] \in S
    BY <1>3, <1>5, <2>2 DEF Last
  <2>5. scope \in S /\ scope.at = "scope"
    <3>1. Last(Below).defers \in Seq(Code)
      BY <2>4 DEF Contexts
    <3>2. Append(Last(Below).defers, This) \in Seq(Code)
      BY <1>1, <3>1, StatementIs, AppendProperties
    <3> QED BY <2>4, <3>2 DEF Contexts
  <2>6. Rest \in S /\ Rest.at = "block"
    BY <1>1, StatementIs
  <2> HIDE DEF S, low, scope
  <2>7. /\ stack' \in Seq(S) /\ Len(stack') = n
        /\ \A i \in 1 .. n - 2 : stack'[i] = stack[i]
        /\ stack'[n - 1] = scope /\ stack'[n] = Rest
    <3>1. /\ <<scope, Rest>> \in Seq(S) /\ Len(<<scope, Rest>>) = 2
          /\ <<scope, Rest>>[1] = scope /\ <<scope, Rest>>[2] = Rest
      BY <2>5, <2>6
    <3> DEFINE two == <<scope, Rest>>
    <3> HIDE DEF two, n
    <3>2. /\ two \in Seq(S) /\ Len(two) = 2 /\ two[1] = scope /\ two[2] = Rest
          /\ stack' = low \o two
      BY <2>1, <3>1 DEF two
    <3>3. /\ stack' \in Seq(S) /\ Len(stack') = (n - 2) + 2
          /\ \A i \in 1 .. (n - 2) + 2 : stack'[i] = IF i <= n - 2 THEN low[i] ELSE two[i - (n - 2)]
      <4>1. /\ low \o two \in Seq(S) /\ Len(low \o two) = Len(low) + Len(two)
            /\ \A i \in 1 .. Len(low) + Len(two) :
                 (low \o two)[i] = IF i <= Len(low) THEN low[i] ELSE two[i - Len(low)]
        BY <2>3, <3>2, ConcatProperties
      <4>2. Len(low) = n - 2 /\ Len(two) = 2 /\ stack' = low \o two
        BY <2>3, <3>2
      <4> QED BY <4>1, <4>2
    <3>4. (n - 2) + 2 = n /\ (n - 1) - (n - 2) = 1 /\ n - (n - 2) = 2 /\ n - 1 \in 1 .. n
          /\ n \in 1 .. n /\ ~(n - 1 <= n - 2) /\ ~(n <= n - 2)
      BY <1>3
    <3>5. \A i \in 1 .. n - 2 : i \in 1 .. n /\ i <= n - 2
      BY <1>3
    <3> QED BY <2>3, <3>2, <3>3, <3>4, <3>5
  <2>8. SameCalls
    <3> DEFINE m == n - 2
    <3>1. m \in Nat /\ m <= Len(stack) /\ m <= Len(stack')
      BY <1>3, <2>7
    <3>2. \A i \in m + 1 .. Len(stack) : i = n - 1 \/ i = n
      BY <1>3
    <3>3. /\ \A i \in m + 1 .. Len(stack) : stack[i].at # "call"
          /\ \A i \in m + 1 .. Len(stack') : stack'[i].at # "call"
      BY <1>3, <2>4, <2>5, <2>6, <2>7, <3>2
    <3>4. \A i \in 1 .. m : stack'[i] = stack[i]
      BY <2>7
    <3> HIDE DEF m
    <3> QED BY <1>3, <2>7, <3>1, <3>3, <3>4, CallsStay
  <2>9. Stacked(Code)'
    <3>1. stack[1].at = "call" /\ n - 1 # 1
      BY <1>3, <2>4 DEF Stacked
    <3>2. stack'[1].at = "call"
      BY <1>3, <2>7, <3>1
    <3> QED BY <1>1, <2>7, <3>2 DEF Stacked, S
  <2> QED BY <1>1, <1>2, <2>8, <2>9 DEF Quiet
<1> QED BY <1>4, <1>5

\* What ends hands its signal on.
LEMMA PassQuiet ==
  ASSUME NEW Code, Stacked(Code), Typed, stack # <<>>, Top.at # "call",
         NEW sig \in Signals(raised), Passes(sig),
         frames' = frames, raised' = raised, captured' \in 0 .. raised
  PROVE  Quiet(Code)
<1>1. Replace(<<>>) /\ signal' = sig
  BY DEF Passes
<1>2. Stacked(Code)' /\ SameCalls
  BY <1>1, QuietEnd
<1> QED BY <1>1, <1>2 DEF Quiet, Typed

LEMMA EndsQuiet ==
  ASSUME NEW Code, Stacked(Code), Typed,
         BlockEnds \/ BlockUnwinds \/ DefersEnd \/ DeferUnwinds \/ WantUnwinds
  PROVE  Quiet(Code)
<1>1. stack # <<>> /\ Top.at # "call" /\ frames' = frames /\ raised' = raised
  BY DEF BlockEnds, BlockUnwinds, DefersEnd, DeferUnwinds, WantUnwinds, At
<1>2. signal \in Signals(raised) /\ Top.after \in Signals(raised) /\ signal.exc \in 0 .. raised
  <2>1. Top \in Contexts(Code, raised)
    BY <1>1, TopIs
  <2> QED BY <2>1 DEF Typed, Signals, Contexts
<1>3. captured' \in {captured, signal.exc}
  BY DEF BlockEnds, BlockUnwinds, DefersEnd, DeferUnwinds, WantUnwinds
<1>4. PICK sig \in {signal, Top.after} : Passes(sig)
  BY DEF BlockEnds, BlockUnwinds, DefersEnd, DeferUnwinds, WantUnwinds
<1>5. captured' \in 0 .. raised
  BY <1>2, <1>3 DEF Typed
<1> QED BY <1>1, <1>2, <1>4, <1>5, PassQuiet

LEMMA DeliverQuiet ==
  ASSUME NEW Code, Stacked(Code), Typed, Deliver PROVE Quiet(Code)
<1>1. /\ stack # <<>> /\ Top.at # "call" /\ Passes(Outcome(Top.how, signal.val))
      /\ frames' = frames /\ captured' = captured /\ raised' = raised
  BY DEF Deliver, At
<1>2. signal.val \in Value
  BY DEF Typed, Signals
<1>3. Outcome(Top.how, signal.val) \in Signals(raised)
  <2>1. "ok" \in Value /\ "return" \in Signal
    BY DEF Value, Signal
  <2> QED BY <1>2, <2>1, SignalsAre DEF Outcome, Typed
<1>4. captured' \in 0 .. raised
  BY <1>1 DEF Typed
<1> QED BY <1>1, <1>3, <1>4, PassQuiet

LEMMA LeaveQuiet ==
  ASSUME NEW Code, Stacked(Code), Typed, LeaveScope PROVE Quiet(Code)
<1> DEFINE run == [Context("defers", <<>>) EXCEPT !.defers = Top.defers, !.after = signal]
<1>1. /\ stack # <<>> /\ Top.at # "call" /\ Replace(<<run>>) /\ signal' = Normal("nil")
      /\ frames' = frames /\ captured' = captured /\ raised' = raised
  BY DEF LeaveScope, At
<1>2. run \in Contexts(Code, raised) /\ run.at # "call"
  <2>1. <<>> \in Seq(Code)
    OBVIOUS
  <2>2. Context("defers", <<>>) \in Contexts(Code, raised) /\ Context("defers", <<>>).at = "defers"
    BY <2>1, ContextIs DEF Typed, Place
  <2>3. Top.defers \in Seq(Code) /\ signal \in Signals(raised)
    BY <1>1, TopIs DEF Contexts, Typed
  <2> QED BY <2>2, <2>3 DEF Contexts
<1> HIDE DEF run
<1>3. Stacked(Code)' /\ SameCalls
  BY <1>1, <1>2, QuietPut
<1>4. Typed'
  BY <1>1, SignalsAre DEF Typed
<1> QED BY <1>1, <1>3, <1>4 DEF Quiet

LEMMA NextDeferQuiet ==
  ASSUME NEW Code, BuiltOf(Code), Stacked(Code), Typed, NextDefer PROVE Quiet(Code)
<1> DEFINE rest  == [Top EXCEPT !.defers = Front(@)]
           block == Block(Last(Top.defers).body)
<1>1. /\ stack # <<>> /\ Top.at = "defers" /\ Top.defers # <<>> /\ signal' = Normal("nil")
      /\ frames' = frames /\ captured' = captured /\ raised' = raised
  BY DEF NextDefer, At
<1>2. Top \in Contexts(Code, raised) /\ Top.defers \in Seq(Code)
  BY <1>1, TopIs DEF Contexts
<1>3. Front(Top.defers) \in Seq(Code) /\ Last(Top.defers) \in Code
  BY <1>1, <1>2 DEF Front, Last
<1>4. rest \in Contexts(Code, raised) /\ rest.at # "call"
  BY <1>1, <1>2, <1>3 DEF Contexts
<1>5. block \in Contexts(Code, raised) /\ block.at # "call"
  <2>1. Last(Top.defers).body \in Seq(Code)
    BY <1>3 DEF BuiltOf
  <2>2. "block" \in Place /\ raised \in Nat
    BY DEF Place, Typed
  <2> QED BY <2>1, <2>2, ContextIs DEF Block
<1>6. PICK new \in {<<block>>, <<>>} : Replace(<<rest>> \o new)
  BY DEF NextDefer
<1> HIDE DEF rest, block
<1>7. Stacked(Code)' /\ SameCalls
  <2>1. new \in Seq(Contexts(Code, raised)) /\ \A i \in DOMAIN new : new[i].at # "call"
    <3>1. CASE new = <<block>>
      BY <1>5, <3>1
    <3>2. CASE new = <<>>
      BY <3>2
    <3> QED BY <1>6, <3>1, <3>2
  <2> QED BY <1>1, <1>4, <1>6, <2>1, QuietThen
<1>8. Typed'
  BY <1>1, SignalsAre DEF Typed
<1> QED BY <1>1, <1>7, <1>8 DEF Quiet

LEMMA LoopStepQuiet ==
  ASSUME NEW Code, BuiltOf(Code), Stacked(Code), Typed, LoopStep PROVE Quiet(Code)
<1>1. /\ stack # <<>> /\ Top.at = "loop" /\ signal' = Normal("nil")
      /\ frames' = frames /\ captured' = captured /\ raised' = raised
  BY DEF LoopStep, At
<1>2. /\ Top \in Contexts(Code, raised) /\ Top.code \in Seq(Code) /\ Top.other \in Seq(Code)
      /\ Top.left \in Nat
  BY <1>1, TopIs DEF Contexts
<1>3. ASSUME Top.left > 0 PROVE Stacked(Code)' /\ SameCalls
  <2> DEFINE again == [Top EXCEPT !.left = @ - 1]
  <2>1. PICK new \in {Scoped(Top.code), RunBlock(Top.code)} : Replace(<<again>> \o new)
    BY <1>3 DEF LoopStep
  <2>2. again \in Contexts(Code, raised) /\ again.at # "call"
    <3>1. Top.left - 1 \in Nat
      BY <1>2, <1>3
    <3> QED BY <1>1, <1>2, <3>1 DEF Contexts
  <2> HIDE DEF again
  <2> QED BY <1>1, <1>2, <2>1, <2>2, QuietEnter
<1>4. ASSUME ~(Top.left > 0), Top.other = <<>> PROVE Stacked(Code)' /\ SameCalls
  <2>1. Replace(<<>>)
    BY <1>4 DEF LoopStep
  <2> QED BY <1>1, <2>1, QuietEnd
<1>5. ASSUME ~(Top.left > 0), Top.other # <<>> PROVE Stacked(Code)' /\ SameCalls
  <2> DEFINE last == [Top EXCEPT !.how = "else", !.other = <<>>]
  <2>1. Replace(<<last>> \o Scoped(Top.other))
    BY <1>5 DEF LoopStep
  <2>2. last \in Contexts(Code, raised) /\ last.at # "call"
    <3>1. "else" \in Hows(Code) /\ <<>> \in Seq(Code)
      BY DEF Hows
    <3> QED BY <1>1, <1>2, <3>1 DEF Contexts
  <2> HIDE DEF last
  <2> QED BY <1>1, <1>2, <2>1, <2>2, QuietEnter
<1>6. Typed'
  BY <1>1, SignalsAre DEF Typed
<1>7. Stacked(Code)' /\ SameCalls
  BY <1>3, <1>4, <1>5
<1> QED BY <1>1, <1>6, <1>7 DEF Quiet

LEMMA LoopUnwindsQuiet ==
  ASSUME NEW Code, Stacked(Code), Typed, LoopUnwinds PROVE Quiet(Code)
<1>1. /\ stack # <<>> /\ Top.at # "call"
      /\ frames' = frames /\ captured' = captured /\ raised' = raised
  BY DEF LoopUnwinds, At
<1>2. PICK sig \in {Normal("nil"), signal} : Passes(sig)
  BY DEF LoopUnwinds
<1>3. sig \in Signals(raised) /\ captured' \in 0 .. raised
  BY <1>1, <1>2, SignalsAre DEF Typed
<1> QED BY <1>1, <1>2, <1>3, PassQuiet

-----------------------------------------------------------------------------
(* The calls and their frames. *)

LEMMA SegmentIsFinite ==
  ASSUME IsFiniteSet(Calls), NEW i
  PROVE  IsFiniteSet(Segment(i)) /\ Cardinality(Segment(i)) \in Nat
  BY FS_Subset, FS_CardinalityType DEF Segment

\* A step that leaves the calls as they are leaves the counts as they are.
LEMMA QuietCounts ==
  ASSUME Counted, SameCalls, frames' = frames
  PROVE  Counted'
<1>1. Calls' = Calls /\ \A i \in Calls : stack'[i].how = stack[i].how
  BY DEF SameCalls
<1>2. ASSUME NEW i \in Nat PROVE Segment(i)' = Segment(i)
  BY <1>1 DEF Segment
<1> QED BY <1>1, <1>2 DEF Counted

\* The calls of the driver that runs are those at or below the top.
LEMMA DepthIsSegment ==
  ASSUME NEW n \in Nat, \A j \in Calls : j \in Nat /\ j <= n
  PROVE  DriverDepth = Cardinality(Segment(n))
<1>1. {k \in Calls : \A j \in Calls : j > k => stack[j].how = "nested"} = Segment(n)
  BY DEF Segment
<1> QED BY <1>1 DEF DriverDepth

\* A call that ends was the innermost.
LEMMA CallEndsCounts ==
  ASSUME NEW Code, Stacked(Code), Typed, Counted, CallEnds
  PROVE  Stacked(Code)' /\ Typed' /\ Counted'
<1> DEFINE S == Contexts(Code, raised)
           n == Len(stack)
<1>1. /\ stack # <<>> /\ Top.at = "call" /\ frames' = frames - 1 /\ Replace(<<>>)
      /\ captured' = captured /\ raised' = raised
      /\ signal' = IF signal.kind = "return" THEN Normal(signal.val) ELSE signal
  BY DEF CallEnds, At, Passes
<1>2. n \in Nat \ {0} /\ DOMAIN stack = 1 .. n /\ stack[n].at = "call" /\ stack \in Seq(S)
  BY <1>1, TopIs DEF Stacked
<1>3. /\ stack' \in Seq(S) /\ Len(stack') = n - 1
      /\ \A i \in 1 .. n - 1 : stack'[i] = stack[i]
  <2>1. <<>> \in Seq(S) /\ Len(<<>>) = 0
    OBVIOUS
  <2>2. /\ stack' \in Seq(S) /\ Len(stack') = n - 1 + Len(<<>>)
        /\ \A i \in 1 .. n - 1 : stack'[i] = stack[i]
    BY <1>1, <1>2, <2>1, Replaced
  <2> QED BY <1>2, <2>1, <2>2
<1>4. DOMAIN stack' = 1 .. n - 1
  BY <1>2, <1>3, LenProperties
<1> HIDE DEF n, S
<1>5. Calls' = Calls \ {n} /\ n \in Calls
  BY <1>2, <1>3, <1>4 DEF Calls
<1>6. IsFiniteSet(Calls') /\ frames' = Cardinality(Calls')
  <2>1. IsFiniteSet(Calls \ {n}) /\ Cardinality(Calls \ {n}) = Cardinality(Calls) - 1
    BY <1>5, FS_RemoveElement DEF Counted
  <2> QED BY <1>1, <1>5, <2>1 DEF Counted
<1>7. ASSUME NEW i \in Nat PROVE Cardinality(Segment(i)') <= MaxDriver
  <2>1. PICK m \in Nat : m < n /\ m <= i /\ \A j \in 1 .. n - 1 : j <= i => j <= m
    <3>1. CASE i < n
      BY <3>1
    <3>2. CASE i >= n
      <4>1. n - 1 \in Nat /\ n - 1 < n /\ n - 1 <= i
        BY <1>2, <3>2
      <4> QED BY <4>1
    <3> QED BY <1>2, <3>1, <3>2
  <2>2. /\ \A j \in Calls' : stack'[j] = stack[j] /\ j \in 1 .. n - 1 /\ j \in Calls
        /\ \A j \in Calls : j \in Nat /\ (j <= m => j \in Calls')
    BY <1>2, <1>3, <1>4, <1>5, <2>1 DEF Calls
  <2>3. Segment(i)' = Segment(m)
    BY <2>1, <2>2 DEF Segment
  <2> QED BY <2>1, <2>3 DEF Counted
<1>8. Counted'
  BY <1>6, <1>7 DEF Counted
<1>9. Typed'
  BY <1>1, SignalsAre DEF Typed, Signals
<1>10. Stacked(Code)'
  <2>1. stack' # <<>> => stack'[1] = stack[1]
    BY <1>2, <1>3, LenProperties, EmptySeq
  <2> QED BY <1>1, <1>3, <2>1 DEF Stacked, S
<1> QED BY <1>8, <1>9, <1>10

\* A call that is not made raises where it was to be made.
LEMMA FailedCallQuiet ==
  ASSUME NEW Code, BuiltOf(Code), Stacked(Code), Typed, DoCall, frames' = frames,
         raised' = raised + 1
  PROVE  Quiet(Code)
<1> DEFINE wait == [Context("want", <<>>) EXCEPT !.how = This.arg]
<1>1. /\ Statement("call") /\ captured' = captured
      /\ signal' = Raises(raised + 1) /\ Replace(<<Rest, wait>>)
  BY DEF DoCall, Typed
<1>2. wait \in Contexts(Code, raised) /\ wait.at # "call"
  <2>1. <<>> \in Seq(Code)
    OBVIOUS
  <2>2. Context("want", <<>>) \in Contexts(Code, raised) /\ Context("want", <<>>).at = "want"
    BY <2>1, ContextIs DEF Typed, Place
  <2>3. This.arg \in Hows(Code)
    BY <1>1, StatementIs DEF Hows
  <2> QED BY <2>2, <2>3 DEF Contexts
<1> HIDE DEF wait
<1>3. Stacked(Code)' /\ SameCalls
  BY <1>1, <1>2, StatementIs, QuietPutTwo
<1>4. raised + 1 \in Nat /\ 0 .. raised \subseteq 0 .. raised + 1
  BY DEF Typed
<1>5. Typed'
  BY <1>1, <1>4, SignalsAre DEF Typed
<1> QED BY <1>3, <1>5 DEF Quiet

\* A call that is made is the innermost one, and within its driver's limit.
LEMMA CallCounts ==
  ASSUME NEW Code, BuiltOf(Code), Stacked(Code), Typed, Counted, DoCall, frames' # frames
  PROVE  Stacked(Code)' /\ Typed' /\ Counted'
<1> DEFINE S == Contexts(Code, raised)
           n == Len(stack)
           wait == [Context("want", <<>>) EXCEPT !.how = This.arg]
           call == [Context("call", <<>>) EXCEPT !.how = IF Natively THEN "native" ELSE "nested"]
           scope == Scope
           block == Block(This.body)
           new == <<Rest, wait, call>> \o Scoped(This.body)
<1>1. /\ Statement("call") /\ captured' = captured /\ raised' = raised
      /\ signal' = Normal("nil") /\ frames' = frames + 1
      /\ ~Natively => ~(DriverDepth >= MaxDriver)
      /\ Replace(new)
  BY DEF DoCall
<1>2. /\ n \in Nat /\ n > 1 /\ DOMAIN stack = 1 .. n /\ stack[n].at = "block" /\ stack \in Seq(S)
      /\ stack[1].at = "call"
  BY <1>1, StatementIs, TopIs DEF Stacked
<1>3. /\ Rest \in S /\ Rest.at = "block" /\ wait \in S /\ wait.at = "want"
      /\ call \in S /\ call.at = "call" /\ call.how = IF Natively THEN "native" ELSE "nested"
      /\ scope \in S /\ scope.at = "scope" /\ block \in S /\ block.at = "block"
  <2>1. <<>> \in Seq(Code) /\ raised \in Nat /\ {"want", "call", "scope", "block"} \subseteq Place
    BY DEF Typed, Place
  <2>2. This.body \in Seq(Code) /\ This.arg \in Hows(Code) /\ {"native", "nested"} \subseteq Hows(Code)
    BY <1>1, StatementIs DEF BuiltOf, Hows
  <2>3. /\ Context("want", <<>>) \in S /\ Context("want", <<>>).at = "want"
        /\ Context("call", <<>>) \in S /\ Context("call", <<>>).at = "call"
    BY <2>1, ContextIs
  <2>4. wait \in S /\ wait.at = "want"
    BY <2>2, <2>3 DEF Contexts
  <2>5. call \in S /\ call.at = "call" /\ call.how = IF Natively THEN "native" ELSE "nested"
    BY <2>2, <2>3 DEF Contexts
  <2>6. scope \in S /\ scope.at = "scope" /\ block \in S /\ block.at = "block"
    BY <2>1, <2>2, ContextIs DEF Scope, Block
  <2> QED BY <1>1, <2>4, <2>5, <2>6, StatementIs
<1>4. new = <<Rest, wait, call>> \o <<scope, block>>
  BY DEF Scoped
<1> HIDE DEF S, n, wait, call, scope, block, new
<1>5. /\ new \in Seq(S) /\ Len(new) = 5 /\ new[1] = Rest /\ new[2] = wait /\ new[3] = call
      /\ new[4] = scope /\ new[5] = block
  BY <1>3, <1>4
<1>6. /\ stack' \in Seq(S) /\ Len(stack') = n + 4
      /\ \A i \in 1 .. n - 1 : stack'[i] = stack[i]
      /\ stack'[n] = Rest /\ stack'[n + 1] = wait /\ stack'[n + 2] = call
      /\ stack'[n + 3] = scope /\ stack'[n + 4] = block
  <2>1. /\ stack' \in Seq(S) /\ Len(stack') = n - 1 + Len(new)
        /\ \A i \in 1 .. n - 1 : stack'[i] = stack[i]
        /\ \A i \in 1 .. Len(new) : stack'[n - 1 + i] = new[i]
    BY <1>1, <1>2, <1>5, StatementIs, Replaced DEF n
  <2>2. \A i \in 1 .. 5 : stack'[n - 1 + i] = new[i]
    BY <1>5, <2>1
  <2>3. /\ stack'[n - 1 + 1] = Rest /\ stack'[n - 1 + 2] = wait /\ stack'[n - 1 + 3] = call
        /\ stack'[n - 1 + 4] = scope /\ stack'[n - 1 + 5] = block
    BY <1>5, <2>2
  <2>4. /\ n - 1 + 1 = n /\ n - 1 + 2 = n + 1 /\ n - 1 + 3 = n + 2 /\ n - 1 + 4 = n + 3
        /\ n - 1 + 5 = n + 4
    BY <1>2
  <2> QED BY <1>5, <2>1, <2>3, <2>4
<1>7. DOMAIN stack' = 1 .. n + 4
  BY <1>6, LenProperties
<1> DEFINE c == n + 2
<1>8. /\ c \in Nat /\ c > n /\ c \notin Calls /\ Calls' = Calls \cup {c}
      /\ \A i \in Calls : i \in Nat /\ i < n /\ stack'[i] = stack[i]
  <2>1. \A i \in Calls : i \in 1 .. n - 1
    BY <1>2 DEF Calls
  <2>2. \A i \in 1 .. n + 4 : i \in 1 .. n - 1 \/ i = n \/ i = n + 1 \/ i = c \/ i = n + 3 \/ i = n + 4
    BY <1>2
  <2>3. \A i \in Calls' : i \in Calls \/ i = c
    BY <1>2, <1>3, <1>6, <1>7, <2>2 DEF Calls
  <2>4. c \in Calls' /\ \A i \in Calls : i \in Calls'
    BY <1>2, <1>3, <1>6, <1>7, <2>1 DEF Calls
  <2> QED BY <1>2, <1>6, <2>1, <2>3, <2>4
<1>9. stack'[c].how = IF Natively THEN "native" ELSE "nested"
  BY <1>3, <1>6
<1> HIDE DEF c
<1>10. IsFiniteSet(Calls') /\ frames' = Cardinality(Calls')
  BY <1>1, <1>8, FS_AddElement DEF Counted
<1>11. ASSUME NEW i \in Nat PROVE Cardinality(Segment(i)') <= MaxDriver
  <2>1. CASE i < c
    <3>1. Segment(i)' = Segment(i)
      BY <1>8, <2>1 DEF Segment
    <3> QED BY <3>1 DEF Counted
  <2>2. CASE i >= c /\ Natively
    <3>1. Segment(i)' = {c}
      <4>1. c \in Segment(i)'
        <5>1. \A j \in Calls' : ~(c < j)
          BY <1>2, <1>8
        <5> QED BY <1>8, <2>2, <5>1 DEF Segment
      <4>2. ASSUME NEW k \in Segment(i)' PROVE k = c
        <5>1. k \in Calls' /\ \A j \in Calls' : k < j /\ j <= i => stack'[j].how = "nested"
          BY <4>2 DEF Segment
        <5>2. c \in Calls' /\ stack'[c].how # "nested"
          BY <1>8, <1>9, <2>2
        <5>3. k # c => k < c
          BY <1>2, <1>8, <5>1
        <5> QED BY <2>2, <5>1, <5>2, <5>3
      <4> QED BY <4>1, <4>2
    <3> QED BY <3>1, FS_Singleton, DriverAssumption
  <2>3. CASE i >= c /\ ~Natively
    <3>1. Segment(i)' = Segment(n) \cup {c} /\ c \notin Segment(n)
      BY <1>2, <1>8, <1>9, <2>3 DEF Segment
    <3>2. IsFiniteSet(Segment(n)) /\ Cardinality(Segment(n)) \in Nat
      BY SegmentIsFinite DEF Counted
    <3>3. Cardinality(Segment(i)') = Cardinality(Segment(n)) + 1
      BY <3>1, <3>2, FS_AddElement
    <3>4. DriverDepth = Cardinality(Segment(n)) /\ ~(DriverDepth >= MaxDriver)
      BY <1>1, <1>2, <1>8, <2>3, DepthIsSegment
    <3> QED BY <3>2, <3>3, <3>4, DriverAssumption
  <2> QED BY <1>8, <2>1, <2>2, <2>3
<1>12. Counted'
  BY <1>10, <1>11 DEF Counted
<1>13. Typed'
  BY <1>1, SignalsAre DEF Typed
<1>14. Stacked(Code)'
  <2>1. stack'[1] = stack[1]
    BY <1>2, <1>6
  <2> QED BY <1>1, <1>2, <1>6, <2>1 DEF Stacked, S
<1> QED BY <1>12, <1>13, <1>14

-----------------------------------------------------------------------------
(* The theorems. *)

LEMMA DriverInit == ASSUME NEW Code, BuiltOf(Code), Init PROVE DriverInv(Code)
<1> DEFINE S == Contexts(Code, raised)
           first == [Context("call", <<>>) EXCEPT !.how = "native"]
           rest == Scoped(program)
<1>1. /\ program \in Seq(Code) /\ stack = <<first>> \o rest
      /\ signal = Normal("nil") /\ frames = 1 /\ captured = 0 /\ raised = 0
  BY DEF Init, BuiltOf
<1>2. first \in S /\ first.at = "call"
  <2>1. <<>> \in Seq(Code) /\ "call" \in Place /\ "native" \in Hows(Code)
    BY DEF Place, Hows
  <2>2. Context("call", <<>>) \in S /\ Context("call", <<>>).at = "call"
    BY <1>1, <2>1, ContextIs
  <2> QED BY <2>1, <2>2 DEF Contexts
<1>3. rest \in Seq(S) /\ \A i \in DOMAIN rest : rest[i].at # "call"
  BY <1>1, BlocksAre
<1> HIDE DEF S, first, rest
<1>4. /\ stack \in Seq(S) /\ DOMAIN stack = 1 .. 1 + Len(rest) /\ Len(rest) \in Nat
      /\ stack[1] = first /\ \A i \in 2 .. 1 + Len(rest) : stack[i].at # "call"
  BY <1>1, <1>2, <1>3
<1>5. Calls = {1}
  BY <1>2, <1>4 DEF Calls
<1>6. Counted
  <2>1. IsFiniteSet(Calls) /\ frames = Cardinality(Calls)
    BY <1>1, <1>5, FS_Singleton
  <2>2. ASSUME NEW i \in Nat PROVE Cardinality(Segment(i)) <= MaxDriver
    <3>1. Segment(i) \subseteq {1}
      BY <1>5 DEF Segment
    <3>2. Cardinality(Segment(i)) <= Cardinality({1}) /\ Cardinality(Segment(i)) \in Nat
      BY <1>5, <2>1, <3>1, FS_Subset, FS_Singleton, FS_CardinalityType
    <3>3. Cardinality({1}) = 1
      BY FS_Singleton
    <3>4. MaxDriver \in Nat /\ 1 <= MaxDriver
      BY DriverAssumption
    <3> QED BY <3>2, <3>3, <3>4
  <2> QED BY <2>1, <2>2 DEF Counted
<1>7. Typed
  BY <1>1, SignalsAre DEF Typed
<1>8. Stacked(Code)
  BY <1>2, <1>4 DEF Stacked, S
<1> QED BY <1>6, <1>7, <1>8 DEF DriverInv

\* A quiet step keeps the invariant.
LEMMA QuietKeeps ==
  ASSUME NEW Code, DriverInv(Code), Quiet(Code) PROVE DriverInv(Code)'
  BY QuietCounts DEF DriverInv, Quiet

LEMMA DriverStep ==
  ASSUME NEW Code, BuiltOf(Code), DriverInv(Code), [Next]_vars PROVE DriverInv(Code)'
<1> USE DEF DriverInv
<1>1. CASE DoMark
  BY <1>1, MarkQuiet, QuietKeeps
<1>2. CASE DoSignal
  BY <1>2, SignalQuiet, QuietKeeps
<1>3. CASE DoCrash
  BY <1>3, CrashQuiet, QuietKeeps
<1>4. CASE DoBlock
  BY <1>4, BlockQuiet, QuietKeeps
<1>5. CASE DoLoop
  BY <1>5, LoopQuiet, QuietKeeps
<1>6. CASE DoDefer
  BY <1>6, DeferQuiet, QuietKeeps
<1>7. CASE DoCall
  <2>1. CASE frames' # frames
    BY <1>7, <2>1, CallCounts
  <2>2. CASE frames' = frames
    <3>1. frames \in Nat /\ frames + 1 # frames
      BY FS_CardinalityType DEF Counted
    <3>2. raised' = raised + 1
      BY <1>7, <2>2, <3>1 DEF DoCall
    <3> QED BY <1>7, <2>2, <3>2, FailedCallQuiet, QuietKeeps
  <2> QED BY <2>1, <2>2
<1>8. CASE BlockEnds \/ BlockUnwinds \/ DefersEnd \/ DeferUnwinds \/ WantUnwinds
  BY <1>8, EndsQuiet, QuietKeeps
<1>9. CASE LeaveScope
  BY <1>9, LeaveQuiet, QuietKeeps
<1>10. CASE NextDefer
  BY <1>10, NextDeferQuiet, QuietKeeps
<1>11. CASE LoopStep
  BY <1>11, LoopStepQuiet, QuietKeeps
<1>12. CASE LoopUnwinds
  BY <1>12, LoopUnwindsQuiet, QuietKeeps
<1>13. CASE CallEnds
  BY <1>13, CallEndsCounts
<1>14. CASE Deliver
  BY <1>14, DeliverQuiet, QuietKeeps
<1>15. CASE UNCHANGED vars
  <2>1. Stacked(Code)' /\ Typed' /\ SameCalls /\ frames' = frames
    BY <1>15 DEF vars, Stacked, Typed, SameCalls, Calls
  <2> QED BY <2>1, QuietKeeps DEF Quiet
<1> QED BY <1>1, <1>2, <1>3, <1>4, <1>5, <1>6, <1>7, <1>8, <1>9, <1>10, <1>11, <1>12, <1>13,
           <1>14, <1>15 DEF Next, Ended

\* For programs of any statements nested to any depth, and any limit, the
\* invariant holds throughout: _run_driver and the generators it drives.
THEOREM DriverInvariant == ASSUME NEW CONSTANT Code, BuiltOf(Code) PROVE Spec => []DriverInv(Code)
<1>1. Init => DriverInv(Code)
  BY DriverInit
<1>2. DriverInv(Code) /\ [Next]_vars => DriverInv(Code)'
  BY DriverStep
<1> QED BY <1>1, <1>2, PTL DEF Spec

\* The debugger's call stack is always the chain of calls under way: the frame
\* pushed with each activation is popped when that one ends, however it ends,
\* and a call that cannot be built leaves none (_run_driver).
THEOREM FramesMatchAlways ==
  ASSUME NEW CONSTANT Code, BuiltOf(Code) PROVE Spec => []FramesMatch
<1>1. DriverInv(Code) => FramesMatch
  <2>1. SUFFICES ASSUME DriverInv(Code) PROVE FramesMatch
    OBVIOUS
  <2>2. \A i \in DOMAIN stack : stack[i] \in Contexts(Code, raised)
    BY <2>1, LenProperties, ElementOfSeq DEF DriverInv, Stacked
  <2>3. \A i \in DOMAIN stack :
          stack[i].at \in {"call", "scope", "block", "loop", "want", "defers"}
    BY <2>2 DEF Contexts, Place
  <2>4. frames \in Nat /\ frames = Cardinality(Calls)
    BY <2>1, FS_CardinalityType DEF DriverInv, Counted
  <2> QED BY <2>1, <2>3, <2>4 DEF DriverInv, Typed, Signals, FramesMatch, TypeOK
<1> QED BY <1>1, DriverInvariant, PTL

\* No driver has more activations under way than _MAX_DRIVER_DEPTH, whichever
\* calls of defers started drivers of their own above or below it.
THEOREM DepthBoundedAlways ==
  ASSUME NEW CONSTANT Code, BuiltOf(Code) PROVE Spec => []DepthBounded
<1>1. DriverInv(Code) => DepthBounded
  <2>1. SUFFICES ASSUME DriverInv(Code) PROVE DepthBounded
    OBVIOUS
  <2> DEFINE n == Len(stack)
  <2>2. n \in Nat /\ \A j \in Calls : j \in Nat /\ j <= n
    BY <2>1, LenProperties DEF DriverInv, Stacked, Calls
  <2> HIDE DEF n
  <2>3. DriverDepth = Cardinality(Segment(n))
    BY <2>2, DepthIsSegment
  <2> QED BY <2>1, <2>2, <2>3 DEF DriverInv, Counted, DepthBounded
<1> QED BY <1>1, DriverInvariant, PTL
=============================================================================

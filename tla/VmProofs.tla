------------------------------ MODULE VmProofs ------------------------------
(***************************************************************************)
(* Proofs about the VM, in two parts.                                      *)
(*                                                                         *)
(* Vm and Verify: the verifier is sound.  Whatever image it accepts, from  *)
(* this compiler or not, a run never reads or writes outside the frame the *)
(* image gives a body, never takes a box or an iterator that is not there, *)
(* and never runs on past the end of a body (InsideBody) - provided that   *)
(* the bodies end as the lowering makes them end, the one thing about      *)
(* control flow the verifier does not look at.  The run on MCCompiled      *)
(* shows that the compiler's images are such images.  Values nest, so      *)
(* "every value, at any depth, is well made" is said with a set: there is  *)
(* a set of values, closed under taking items, that holds whatever the     *)
(* state holds.                                                            *)
(*                                                                         *)
(* Linking: the walker binds the names of a program one statement at a     *)
(* time, and the VM fills its slots import by import, but both end where   *)
(* the layers say (NamesLayered, MessagesLayered, OnlyStronger).  The      *)
(* invariant says the same of the statements that have run so far.         *)
(***************************************************************************)
EXTENDS Vm, Verify, Linking, SequenceTheorems, TLAPS

-----------------------------------------------------------------------------
(* The inductive invariant. *)

\* A reference refers to something: to one of nb boxes, of ni iterators, or to
\* a function, with as many captures as it takes.
Refers(im, nb, ni, v) ==
  /\ v.t = "box" => v.n \in 1 .. nb
  /\ v.t = "iter" => v.n \in 1 .. ni
  /\ v.t = "fn" => v.n \in DOMAIN im /\ Len(v.items) = Len(im[v.n].captures)
MadeOf(U, v) == v = Val(v.t, v.n, v.items) /\ v.n \in Int /\ v.items \in Seq(U)
Closed(im, nb, ni, U) == \A v \in U : MadeOf(U, v) /\ Refers(im, nb, ni, v)

\* A frame of the size its function says, holding values of U; one that runs
\* is at an instruction of its body.
Deferred(U) == [f : U, onError : BOOLEAN]
Frames(im, U) ==
  [fn : DOMAIN im, ip : Int, l : Seq(U), p : Seq(U), base : Int, defers : Seq(Deferred(U)),
   leaving : {"no", "return", "raise"}, due : Seq(Deferred(U)), value : U]
Fits(im, U, fr) ==
  /\ fr \in Frames(im, U)
  /\ Len(fr.l) = im[fr.fn].nlocals
  /\ Len(fr.p) = im[fr.fn].nparams + Len(im[fr.fn].captures)
  /\ fr.leaving = "no" => fr.due = <<>> /\ fr.ip \in 0 .. (Len(im[fr.fn].code) - 1)

\* The frame above a running one answers into it; that above a leaving one is
\* a deferred block, which answers nowhere.
Above(im, fr, base) == IF fr.leaving = "no" THEN base \in 0 .. (im[fr.fn].nlocals - 1) ELSE base = -1
Stacked(im, U, st) ==
  /\ st \in Seq(Frames(im, U))
  /\ \A i \in 1 .. Len(st) : Fits(im, U, st[i])
  /\ \A i \in 1 .. (Len(st) - 1) : Above(im, st[i], st[i + 1].base)

Holds(U) ==
  /\ {Blank, Nil} \subseteq U
  /\ Closed(image, Len(boxes), Len(iters), U)
  /\ boxes \in Seq(U) /\ iters \in Seq(U)
  /\ Stacked(image, U, stack)

Astray == {"blank", "unset", "unboxed", "trap"}
MachineInv ==
  /\ Accepted(image)
  /\ strayed \subseteq Astray
  /\ Over = (outcome.k # "running")
  /\ \E U : Holds(U)

-----------------------------------------------------------------------------
(* Sets of values. *)

\* One more value of the set's own values keeps it closed, whatever is made
\* along with it.
LEMMA Grow ==
  ASSUME NEW im, NEW nb \in Nat, NEW ni \in Nat, NEW nb2 \in Nat, NEW ni2 \in Nat,
         nb <= nb2, ni <= ni2,
         NEW U, Closed(im, nb, ni, U), NEW v, MadeOf(U, v), Refers(im, nb2, ni2, v)
  PROVE  Closed(im, nb2, ni2, U \cup {v})
<1>1. Seq(U) \subseteq Seq(U \cup {v})
  BY SeqMonotonic
<1>2. ASSUME NEW w \in U
      PROVE  MadeOf(U, w) /\ Refers(im, nb2, ni2, w)
  <2>1. MadeOf(U, w) /\ Refers(im, nb, ni, w) BY DEF Closed
  <2> QED BY <2>1 DEF Refers
<1> QED BY <1>1, <1>2 DEF Closed, MadeOf

LEMMA FrameGrows ==
  ASSUME NEW im, NEW U, NEW V, U \subseteq V, NEW fr, Fits(im, U, fr)
  PROVE  Fits(im, V, fr)
<1>1. Seq(U) \subseteq Seq(V) BY SeqMonotonic
<1>2. Deferred(U) \subseteq Deferred(V) BY DEF Deferred
<1>3. Seq(Deferred(U)) \subseteq Seq(Deferred(V)) BY <1>2, SeqMonotonic
<1>4. Frames(im, U) \subseteq Frames(im, V)
  BY <1>1, <1>3 DEF Frames
<1> QED BY <1>4 DEF Fits

LEMMA StackGrows ==
  ASSUME NEW im, NEW U, NEW V, U \subseteq V, NEW st, Stacked(im, U, st)
  PROVE  Stacked(im, V, st)
<1>1. \A i \in 1 .. Len(st) : Fits(im, V, st[i])
  BY FrameGrows DEF Stacked
<1>2. st \in Seq(Frames(im, V))
  <2>1. \A i \in 1 .. Len(st) : st[i] \in Frames(im, V) BY <1>1 DEF Fits
  <2>2. st \in Seq(Frames(im, U)) BY DEF Stacked
  <2>3. Len(st) \in Nat /\ st = [i \in 1 .. Len(st) |-> st[i]] BY <2>2
  <2> QED BY <2>1, <2>3
<1> QED BY <1>1, <1>2 DEF Stacked

-----------------------------------------------------------------------------
(* The stack. *)

LEMMA TopIs ==
  ASSUME NEW im, NEW U, NEW st, Stacked(im, U, st), st # <<>>
  PROVE  /\ Len(st) \in Nat \ {0}
         /\ Fits(im, U, Last(st)) /\ Last(st) = st[Len(st)]
<1>1. st \in Seq(Frames(im, U)) BY DEF Stacked
<1>2. Len(st) \in Nat \ {0} BY <1>1, EmptySeq
<1> QED BY <1>2 DEF Stacked, Last

\* The running frame replaced by one that answers to the same place.
LEMMA ReplaceTop ==
  ASSUME NEW im, NEW U, NEW st, Stacked(im, U, st), st # <<>>,
         NEW new, Fits(im, U, new), new.base = Last(st).base
  PROVE  Stacked(im, U, [st EXCEPT ![Len(st)] = new])
<1> DEFINE n == Len(st)
           t == [st EXCEPT ![n] = new]
<1>1. n \in Nat \ {0} /\ Last(st) = st[n] BY TopIs
<1>2. st \in Seq(Frames(im, U)) /\ new \in Frames(im, U) BY DEF Stacked, Fits
<1>3. /\ t \in Seq(Frames(im, U)) /\ Len(t) = n
      /\ \A i \in 1 .. n : t[i] = IF i = n THEN new ELSE st[i]
  BY <1>1, <1>2, ExceptSeq
<1>4. \A i \in 1 .. n : Fits(im, U, t[i])
  BY <1>3 DEF Stacked
<1>5. ASSUME NEW i \in 1 .. (n - 1)
      PROVE  Above(im, t[i], t[i + 1].base)
  <2>1. Above(im, st[i], st[i + 1].base) BY DEF Stacked
  <2>2. i \in 1 .. n /\ i + 1 \in 1 .. n /\ i # n BY <1>1
  <2>3. t[i] = st[i] BY <1>3, <2>2
  <2>4. t[i + 1].base = st[i + 1].base
    <3>1. CASE i + 1 = n BY <1>1, <1>3, <2>2, <3>1
    <3>2. CASE i + 1 # n BY <1>3, <2>2, <3>2
    <3> QED BY <3>1, <3>2
  <2> QED BY <2>1, <2>3, <2>4
<1> QED BY <1>3, <1>4, <1>5 DEF Stacked

LEMMA PushFrame ==
  ASSUME NEW im, NEW U, NEW st, Stacked(im, U, st), st # <<>>,
         NEW new, Fits(im, U, new), Above(im, Last(st), new.base)
  PROVE  Stacked(im, U, Append(st, new))
<1> DEFINE n == Len(st)
           t == Append(st, new)
<1>1. n \in Nat \ {0} /\ Last(st) = st[n] BY TopIs
<1>2. st \in Seq(Frames(im, U)) /\ new \in Frames(im, U) BY DEF Stacked, Fits
<1>3. /\ t \in Seq(Frames(im, U)) /\ Len(t) = n + 1
      /\ \A i \in 1 .. n : t[i] = st[i]
      /\ t[n + 1] = new
  BY <1>1, <1>2
<1>4. \A i \in 1 .. (n + 1) : Fits(im, U, t[i])
  BY <1>1, <1>3 DEF Stacked
<1>5. ASSUME NEW i \in 1 .. n
      PROVE  Above(im, t[i], t[i + 1].base)
  <2>1. CASE i = n BY <1>1, <1>3, <2>1
  <2>2. CASE i # n
    <3>1. i \in 1 .. (n - 1) /\ i + 1 \in 1 .. n BY <1>1, <2>2
    <3>2. Above(im, st[i], st[i + 1].base) BY <3>1 DEF Stacked
    <3> QED BY <1>3, <3>1, <3>2
  <2> QED BY <2>1, <2>2
<1> QED BY <1>3, <1>4, <1>5 DEF Stacked

\* The frames below the top one.
LEMMA PopFrame ==
  ASSUME NEW im, NEW U, NEW st, Stacked(im, U, st), Front(st) # <<>>, st # <<>>
  PROVE  /\ Stacked(im, U, Front(st))
         /\ Above(im, Last(Front(st)), Last(st).base)
<1> DEFINE n == Len(st)
           t == Front(st)
<1>1. n \in Nat \ {0} /\ Last(st) = st[n] BY TopIs
<1>2. st \in Seq(Frames(im, U)) BY DEF Stacked
<1>3. /\ t \in Seq(Frames(im, U)) /\ Len(t) = n - 1
      /\ \A i \in 1 .. (n - 1) : t[i] = st[i]
  BY <1>1, <1>2, SubSeqProperties, ElementOfSeq DEF Front
<1>4. n - 1 \in Nat \ {0}
  BY <1>3, EmptySeq
<1>5. Last(t) = st[n - 1]
  BY <1>3, <1>4 DEF Last
<1>6. Above(im, st[n - 1], st[n].base)
  <2>1. n - 1 \in 1 .. (n - 1) /\ (n - 1) + 1 = n BY <1>1, <1>4
  <2>2. Above(im, st[n - 1], st[(n - 1) + 1].base) BY <2>1 DEF Stacked
  <2> QED BY <2>1, <2>2
<1>7. Stacked(im, U, t)
  <2>1. \A i \in 1 .. (n - 1) : Fits(im, U, t[i]) BY <1>1, <1>3 DEF Stacked
  <2>2. ASSUME NEW i \in 1 .. ((n - 1) - 1)
        PROVE  Above(im, t[i], t[i + 1].base)
    <3>1. i \in 1 .. (n - 1) /\ i + 1 \in 1 .. (n - 1) BY <1>1
    <3>2. t[i] = st[i] /\ t[i + 1] = st[i + 1] BY <1>3, <3>1
    <3>3. Above(im, st[i], st[i + 1].base) BY <3>1 DEF Stacked
    <3> QED BY <3>2, <3>3
  <2> QED BY <1>3, <2>1, <2>2 DEF Stacked
<1> QED BY <1>1, <1>5, <1>6, <1>7

-----------------------------------------------------------------------------
(* What the verifier's acceptance says of one instruction of a frame. *)

InFrame(fr, r) == IF r < 0 THEN -r <= Len(fr.p) ELSE r < Len(fr.l)
At(im, fr) == im[fr.fn].code[fr.ip + 1]
Onward == {"return", "jmp", "trap"}

LEMMA ImageIs ==
  ASSUME NEW im, Accepted(im), NEW f \in DOMAIN im
  PROVE  /\ im[f].nlocals \in Nat /\ im[f].nparams \in Nat
         /\ Len(im[f].captures) \in Nat
         /\ im[f].code \in Seq(Instructions) /\ Len(im[f].code) \in Nat
         /\ DOMAIN im[f].code = 1 .. Len(im[f].code)
<1> DEFINE F == [code : Seq(Instructions), nlocals : Nat, nparams : Nat, captures : Seq(STRING)]
<1>1. im \in Seq(F) BY DEF Accepted, Decoded
<1>2. im[f] \in F
  <2> HIDE DEF F
  <2>1. DOMAIN im = 1 .. Len(im) BY <1>1
  <2> QED BY <1>1, <2>1, ElementOfSeq
<1>3. im[f].captures \in Seq(STRING) /\ im[f].code \in Seq(Instructions) BY <1>2
<1> QED BY <1>2, <1>3

LEMMA InstructionIs ==
  ASSUME NEW im, Accepted(im), NEW U, NEW fr, Fits(im, U, fr), fr.leaving = "no"
  PROVE  LET code == im[fr.fn].code
             ins == At(im, fr)
         IN  /\ ins \in Instructions
             /\ \A r \in Registers(ins) : InFrame(fr, r)
             /\ \A w \in Windows(im, ins) : w[1] >= 0 /\ w[1] + w[2] <= Len(fr.l)
             /\ \A to \in JumpTargets(ins) : to \in 0 .. (Len(code) - 1)
             /\ CheckIndex(im, ins)
             /\ ins.op = "call" => ins.b >= 0
             /\ ins.op = "list" => ins.c >= 0
             /\ ins.op = "plist" => ins.c = 1
             /\ ins.op \notin Onward => fr.ip + 1 \in 0 .. (Len(code) - 1)
<1> DEFINE fn == im[fr.fn]
           code == im[fr.fn].code
           ins == At(im, fr)
           i == fr.ip + 1
<1>1. fr.fn \in DOMAIN im /\ fr.ip \in 0 .. (Len(code) - 1)
  BY DEF Fits, Frames
<1>2. /\ code \in Seq(Instructions) /\ Len(code) \in Nat /\ DOMAIN code = 1 .. Len(code)
      /\ fn.nlocals \in Nat /\ fn.nparams \in Nat /\ Len(fn.captures) \in Nat
  BY <1>1, ImageIs
<1>3. i \in DOMAIN code /\ ins = code[i] BY <1>1, <1>2 DEF At
<1>4. ins \in Instructions BY <1>2, <1>3
<1>5. VerifyRegion(im, fn) BY <1>1 DEF Accepted, VerifyImage
<1>6. /\ CheckIndex(im, ins)
      /\ \A r \in Registers(ins) : CheckRegister(fn, r)
      /\ \A to \in JumpTargets(ins) : CheckJump(fn, to)
      /\ \A w \in Windows(im, ins) : CheckWindow(fn, w)
  BY <1>3, <1>5 DEF VerifyRegion
<1>7. Len(fr.l) = fn.nlocals /\ Len(fr.p) = fn.nparams + Len(fn.captures)
  BY DEF Fits
<1>8. \A r \in Registers(ins) : InFrame(fr, r)
  BY <1>6, <1>7 DEF CheckRegister, InFrame
<1>9. \A w \in Windows(im, ins) : w[1] >= 0 /\ w[1] + w[2] <= Len(fr.l)
  BY <1>6, <1>7 DEF CheckWindow
<1>10. /\ ins.op = "call" => ins.b >= 0
       /\ ins.op = "list" => ins.c >= 0
       /\ ins.op = "plist" => ins.c = 1
  BY <1>1, <1>3 DEF Accepted, Decoded
<1>11. /\ code[Len(code)].op \in Onward
       /\ \A to \in JumpTargets(ins) : to < Len(code)
  BY <1>1, <1>3 DEF Accepted, BodiesEnd, Onward
<1>12. \A to \in JumpTargets(ins) : to \in 0 .. (Len(code) - 1)
  BY <1>2, <1>6, <1>11 DEF CheckJump
<1>13. ins.op \notin Onward => i \in 0 .. (Len(code) - 1)
  <2>1. SUFFICES ASSUME ins.op \notin Onward PROVE i # Len(code)
    BY <1>1, <1>2
  <2> QED BY <2>1, <1>3, <1>11
<1> QED BY <1>4, <1>6, <1>8, <1>9, <1>10, <1>12, <1>13

\* The operands each instruction has.
LEMMA OperandsOf ==
  ASSUME NEW ins, NEW im
  PROVE  /\ ins.op \in {"i8", "lnil", "lunset", "gget", "jf", "jt", "jnerr", "defer_reg", "return",
                        "closure", "call"} => Registers(ins) = {ins.a}
         /\ ins.op \in {"move", "not", "iter", "itnext"} => Registers(ins) = {ins.a, ins.b}
         /\ ins.op \in {"add", "getidx", "setidx"} => Registers(ins) = {ins.a, ins.b, ins.c}
         /\ ins.op \in {"list", "plist"} => ins.a \in Registers(ins)
         /\ ins.op = "plist" /\ ins.c = 1 => ins.b \in Registers(ins)
         /\ ins.op = "return" => Windows(im, ins) = {<<ins.a, 1>>}
         /\ ins.op = "call" => Windows(im, ins) = {<<ins.a, ins.b + 1>>}
         /\ ins.op = "list" => Windows(im, ins) = {<<ins.b, ins.c>>}
         /\ ins.op = "closure" /\ CapturesOf(im, ins) # 0 =>
              Windows(im, ins) = {<<ins.c, CapturesOf(im, ins)>>}
         /\ ins.op \in {"jmp", "jf", "jt", "jnerr"} => JumpTargets(ins) = {ins.b}
         /\ ins.op = "itnext" => JumpTargets(ins) = {ins.c}
<1>1. ins.op \in {"i8", "lnil", "lunset", "gget", "jf", "jt", "jnerr", "defer_reg", "return",
                        "closure", "call"} => Registers(ins) = {ins.a} BY DEF Registers
<1>2. ins.op \in {"move", "not", "iter", "itnext"} => Registers(ins) = {ins.a, ins.b} BY DEF Registers
<1>3. ins.op \in {"add", "getidx", "setidx"} => Registers(ins) = {ins.a, ins.b, ins.c} BY DEF Registers
<1>4. ins.op \in {"list", "plist"} => ins.a \in Registers(ins) BY DEF Registers
<1>5. ins.op = "plist" /\ ins.c = 1 => ins.b \in Registers(ins) BY DEF Registers
<1>6. /\ ins.op = "return" => Windows(im, ins) = {<<ins.a, 1>>}
      /\ ins.op = "call" => Windows(im, ins) = {<<ins.a, ins.b + 1>>}
      /\ ins.op = "list" => Windows(im, ins) = {<<ins.b, ins.c>>}
  BY DEF Windows
<1>7. ins.op = "closure" /\ CapturesOf(im, ins) # 0 =>
              Windows(im, ins) = {<<ins.c, CapturesOf(im, ins)>>}
  BY DEF Windows
<1>8. /\ ins.op \in {"jmp", "jf", "jt", "jnerr"} => JumpTargets(ins) = {ins.b}
      /\ ins.op = "itnext" => JumpTargets(ins) = {ins.c}
  BY DEF JumpTargets
<1> QED BY <1>1, <1>2, <1>3, <1>4, <1>5, <1>6, <1>7, <1>8

-----------------------------------------------------------------------------
(* Frames changed. *)

\* A register in the frame takes a value; its place in the run stays.
LEMMA PutFits ==
  ASSUME NEW im, NEW U, NEW fr, Fits(im, U, fr), NEW r \in Int, InFrame(fr, r), NEW v \in U
  PROVE  /\ Fits(im, U, Put(fr, r, v)) /\ Put(fr, r, v).base = fr.base
         /\ Put(fr, r, v).leaving = fr.leaving /\ Put(fr, r, v).fn = fr.fn
<1>1. fr \in Frames(im, U) /\ fr.l \in Seq(U) /\ fr.p \in Seq(U) BY DEF Fits, Frames
<1>2. CASE r >= 0
  <2> DEFINE l == [fr.l EXCEPT ![r + 1] = v]
  <2>1. r + 1 \in 1 .. Len(fr.l) BY <1>1, <1>2 DEF InFrame
  <2>2. l \in Seq(U) /\ Len(l) = Len(fr.l) BY <1>1, <2>1, ExceptSeq
  <2>3. Put(fr, r, v) = [fr EXCEPT !.l = l] BY <1>1, <1>2 DEF Put, Frames
  <2> HIDE DEF l
  <2> QED BY <1>1, <2>2, <2>3 DEF Fits, Frames
<1>3. CASE ~(r >= 0)
  <2> DEFINE p == [fr.p EXCEPT ![-r] = v]
  <2>1. -r \in 1 .. Len(fr.p) BY <1>1, <1>3 DEF InFrame
  <2>2. p \in Seq(U) /\ Len(p) = Len(fr.p) BY <1>1, <2>1, ExceptSeq
  <2>3. Put(fr, r, v) = [fr EXCEPT !.p = p] BY <1>1, <1>3 DEF Put, Frames
  <2> HIDE DEF p
  <2> QED BY <1>1, <2>2, <2>3 DEF Fits, Frames
<1> QED BY <1>2, <1>3

\* A running frame moved to another instruction of its body.
LEMMA MovedFits ==
  ASSUME NEW im, NEW U, NEW fr, Fits(im, U, fr), NEW to \in 0 .. (Len(im[fr.fn].code) - 1)
  PROVE  /\ Fits(im, U, [fr EXCEPT !.ip = to]) /\ [fr EXCEPT !.ip = to].base = fr.base
         /\ [fr EXCEPT !.ip = to].leaving = fr.leaving /\ [fr EXCEPT !.ip = to].fn = fr.fn
         /\ [fr EXCEPT !.ip = to].l = fr.l /\ [fr EXCEPT !.ip = to].p = fr.p
<1> DEFINE new == [fr EXCEPT !.ip = to]
<1>1. fr \in Frames(im, U) BY DEF Fits
<1>2. /\ new.ip = to /\ new.base = fr.base /\ new.leaving = fr.leaving /\ new.fn = fr.fn
      /\ new.l = fr.l /\ new.p = fr.p /\ new.due = fr.due
  BY <1>1 DEF Frames
<1>3. new \in Frames(im, U)
  <2>1. to \in Int OBVIOUS
  <2> QED BY <1>1, <2>1 DEF Frames
<1> HIDE DEF new
<1>4. Fits(im, U, new) BY <1>2, <1>3 DEF Fits
<1> QED BY <1>2, <1>4 DEF new

LEMMA ReverseIs ==
  ASSUME NEW S, NEW s \in Seq(S)
  PROVE  Reverse(s) \in Seq(S)
<1>1. \A i \in 1 .. Len(s) : s[(Len(s) - i) + 1] \in S
  <2>1. \A i \in 1 .. Len(s) : (Len(s) - i) + 1 \in 1 .. Len(s) OBVIOUS
  <2> QED BY <2>1
<1> QED BY <1>1 DEF Reverse

\* An exception on its way out.
LEMMA FailingFits ==
  ASSUME NEW im, NEW U, NEW fr, Fits(im, U, fr)
  PROVE  Fits(im, U, Failing(fr)) /\ Failing(fr).base = fr.base
<1> DEFINE due == IF fr.leaving = "no" THEN Reverse(fr.defers) ELSE <<>>
<1>1. fr \in Frames(im, U) /\ fr.defers \in Seq(Deferred(U)) BY DEF Fits, Frames
<1>2. due \in Seq(Deferred(U)) BY <1>1, ReverseIs
<1>3. Failing(fr) = [fr EXCEPT !.leaving = "raise", !.defers = <<>>, !.due = due]
  BY <1>1 DEF Failing, Frames
<1> HIDE DEF due
<1> DEFINE new == [fr EXCEPT !.leaving = "raise", !.defers = <<>>, !.due = due]
<1>4. /\ new.base = fr.base /\ new.leaving = "raise" /\ new.fn = fr.fn
      /\ new.l = fr.l /\ new.p = fr.p
  BY <1>1 DEF Frames
<1>5. <<>> \in Seq(Deferred(U)) OBVIOUS
<1>6. new \in Frames(im, U) BY <1>1, <1>2, <1>5 DEF Frames
<1> HIDE DEF new
<1>7. Fits(im, U, new) BY <1>4, <1>6 DEF Fits
<1> QED BY <1>3, <1>4, <1>7 DEF new

-----------------------------------------------------------------------------
(* What a step reads. *)

LEMMA RunningIs ==
  ASSUME NEW U, Holds(U), Accepted(image), Running
  PROVE  /\ stack # <<>> /\ Top.leaving = "no"
         /\ Fits(image, U, Top) /\ Top = stack[Len(stack)]
         /\ Cur = At(image, Top) /\ Cur \in Instructions
         /\ Cur.a \in Int /\ Cur.b \in Int /\ Cur.c \in Int
         /\ Cur.op \notin Onward => /\ Fits(image, U, Advanced) /\ Advanced.base = Top.base
                                   /\ Advanced.leaving = "no" /\ Advanced.fn = Top.fn
                                   /\ Advanced.l = Top.l /\ Advanced.p = Top.p
<1>1. stack # <<>> /\ Top.leaving = "no" BY DEF Running
<1>2. Fits(image, U, Top) /\ Top = stack[Len(stack)]
  BY <1>1, TopIs DEF Holds, Top
<1>3. Cur = At(image, Top) BY DEF Cur, Code, At
<1>4. /\ Cur \in Instructions
      /\ Cur.op \notin Onward => Top.ip + 1 \in 0 .. (Len(image[Top.fn].code) - 1)
  BY <1>1, <1>2, <1>3, InstructionIs
<1>5. Cur.a \in Int /\ Cur.b \in Int /\ Cur.c \in Int
  BY <1>4 DEF Instructions
<1>6. Advanced = [Top EXCEPT !.ip = Top.ip + 1] BY DEF Advanced
<1>7. Cur.op \notin Onward => /\ Fits(image, U, Advanced) /\ Advanced.base = Top.base
                                   /\ Advanced.leaving = "no" /\ Advanced.fn = Top.fn
                                   /\ Advanced.l = Top.l /\ Advanced.p = Top.p
  BY <1>1, <1>2, <1>4, <1>6, MovedFits
<1> QED BY <1>1, <1>2, <1>3, <1>4, <1>5, <1>7

LEMMA GetIs ==
  ASSUME NEW U, Fits(image, U, Top), NEW r \in Int, InFrame(Top, r)
  PROVE  Get(r) \in U
<1>1. Top.l \in Seq(U) /\ Top.p \in Seq(U) BY DEF Fits, Frames
<1>2. CASE r >= 0
  <2>1. r + 1 \in 1 .. Len(Top.l) BY <1>1, <1>2 DEF InFrame
  <2> QED BY <1>1, <1>2, <2>1 DEF Get
<1>3. CASE ~(r >= 0)
  <2>1. -r \in 1 .. Len(Top.p) BY <1>1, <1>3 DEF InFrame
  <2> QED BY <1>1, <1>3, <2>1 DEF Get
<1> QED BY <1>2, <1>3

LEMMA WindowIs ==
  ASSUME NEW U, Fits(image, U, Top), NEW base \in Int, NEW n \in Nat,
         base >= 0, base + n <= Len(Top.l)
  PROVE  Window(base, n) \in Seq(U) /\ Len(Window(base, n)) = n
<1>1. Top.l \in Seq(U) /\ Len(Top.l) \in Nat BY DEF Fits, Frames
<1>2. ASSUME NEW i \in 1 .. n
      PROVE  Get(base + i - 1) \in U
  <2>1. base + i - 1 \in Int /\ base + i - 1 >= 0 /\ base + i - 1 < Len(Top.l) BY <1>1
  <2>2. InFrame(Top, base + i - 1) BY <2>1 DEF InFrame
  <2> QED BY <2>1, <2>2, GetIs
<1> QED BY <1>2 DEF Window

\* The registers an instruction names are in the frame, and so its values.
LEMMA OperandIs ==
  ASSUME NEW U, Holds(U), Accepted(image), Running, NEW r \in Registers(Cur), r \in Int
  PROVE  InFrame(Top, r) /\ Get(r) \in U
<1>1. InFrame(Top, r) BY RunningIs, InstructionIs
<1> QED BY <1>1, RunningIs, GetIs

\* So is its window.
LEMMA OperandWindowIs ==
  ASSUME NEW U, Holds(U), Accepted(image), Running,
         NEW base \in Int, NEW n \in Nat, <<base, n>> \in Windows(image, Cur)
  PROVE  /\ base >= 0 /\ base + n <= Len(Top.l)
         /\ Window(base, n) \in Seq(U) /\ Len(Window(base, n)) = n
<1>1. /\ Fits(image, U, Top) /\ Top.leaving = "no" /\ Cur = At(image, Top) BY RunningIs
<1>2. \A w \in Windows(image, Cur) : w[1] >= 0 /\ w[1] + w[2] <= Len(Top.l) BY <1>1, InstructionIs
<1>3. base >= 0 /\ base + n <= Len(Top.l) BY <1>2
<1> QED BY <1>1, <1>3, WindowIs

\* What an instruction computes is made of what is there.
LEMMA ComputedIs ==
  ASSUME NEW U, Holds(U), Accepted(image), Running, Cur.op \in Computing, Computed(Cur) # Exc
  PROVE  /\ MadeOf(U, Computed(Cur))
         /\ Refers(image, Len(boxes), Len(iters), Computed(Cur))
<1> DEFINE Good(v) == MadeOf(U, v) /\ Refers(image, Len(boxes), Len(iters), v)
<1>1. Cur.a \in Int /\ Cur.b \in Int /\ Cur.c \in Int BY RunningIs
<1>2. \A v \in U : Good(v) BY DEF Holds, Closed
<1>3. \A n \in Int : Good(IntVal(n)) /\ Good(BoolVal(n = 0))
  BY DEF MadeOf, Refers, IntVal, BoolVal, Val
<1>4. Good(Nil) /\ Good(UnsetVal) /\ Good(Println) /\ Good(ErrorClass) /\ Good(BadIndex)
  BY DEF MadeOf, Refers, Nil, UnsetVal, Println, ErrorClass, BadIndex, Val
<1>5. \A s \in Seq(U) : Good(ListOf(s))
  BY DEF MadeOf, Refers, ListOf, Val
<1>6. CASE Cur.op \in {"lnil", "lunset", "i8", "gget"}
  BY <1>1, <1>3, <1>4, <1>6 DEF Computed
<1>7. CASE Cur.op = "move"
  <2>1. Cur.b \in Registers(Cur) BY <1>7, OperandsOf
  <2>2. Get(Cur.b) \in U BY <1>1, <2>1, OperandIs
  <2>3. Computed(Cur) = Get(Cur.b) BY <1>7 DEF Computed
  <2> QED BY <1>2, <2>2, <2>3
<1>8. CASE Cur.op = "not"
  <2>1. Computed(Cur) = BoolVal(~Truthy(Get(Cur.b))) BY <1>8 DEF Computed
  <2> QED BY <2>1 DEF BoolVal, MadeOf, Refers, Val
<1>9. CASE Cur.op = "add"
  <2>1. Cur.b \in Registers(Cur) /\ Cur.c \in Registers(Cur) BY <1>9, OperandsOf
  <2>2. PICK l \in U, r \in U : l = Get(Cur.b) /\ r = Get(Cur.c) BY <1>1, <2>1, OperandIs
  <2>3. Computed(Cur) = Plus(l, r) BY <1>9, <2>2 DEF Computed
  <2>4. l.n \in Int /\ r.n \in Int /\ l.items \in Seq(U) /\ r.items \in Seq(U)
    BY <1>2 DEF MadeOf
  <2>5. CASE Numeric(l) /\ Numeric(r)
    <3>1. l.n + r.n \in Int /\ Plus(l, r) = IntVal(l.n + r.n) BY <2>4, <2>5 DEF Plus
    <3> QED BY <1>3, <2>3, <3>1
  <2>6. CASE ~(Numeric(l) /\ Numeric(r)) /\ l.t = "list" /\ r.t = "list"
    <3>1. l.items \o r.items \in Seq(U) BY <2>4, ConcatProperties
    <3>2. Plus(l, r) = ListOf(l.items \o r.items) BY <2>6 DEF Plus
    <3> QED BY <1>5, <2>3, <3>1, <3>2
  <2>7. CASE ~(Numeric(l) /\ Numeric(r)) /\ ~(l.t = "list" /\ r.t = "list")
    BY <2>3, <2>7 DEF Plus
  <2> QED BY <2>5, <2>6, <2>7
<1>10. CASE Cur.op = "list"
  <2>1. <<Cur.b, Cur.c>> \in Windows(image, Cur) BY <1>10, OperandsOf
  <2>2. Cur.c \in Nat BY <1>1, <1>10, RunningIs, InstructionIs
  <2>3. Window(Cur.b, Cur.c) \in Seq(U) BY <1>1, <2>1, <2>2, OperandWindowIs
  <2>4. Computed(Cur) = ListOf(Window(Cur.b, Cur.c)) BY <1>10 DEF Computed
  <2> QED BY <1>5, <2>3, <2>4
<1>11. CASE Cur.op = "closure"
  <2> DEFINE n == Len(image[Cur.b].captures)
  <2>1. Cur.b \in DOMAIN image BY <1>11, RunningIs, InstructionIs DEF CheckIndex
  <2>2. n \in Nat BY <2>1, ImageIs
  <2>3. Window(Cur.c, n) \in Seq(U) /\ Len(Window(Cur.c, n)) = n
    <3>1. CASE n = 0
      <4>1. Window(Cur.c, n) = <<>> BY <3>1 DEF Window
      <4> QED BY <3>1, <4>1, EmptySeq
    <3>2. CASE n # 0
      <4>1. <<Cur.c, n>> \in Windows(image, Cur) BY <1>11, <3>2, OperandsOf DEF CapturesOf
      <4> QED BY <1>1, <2>2, <4>1, OperandWindowIs
    <3> QED BY <3>1, <3>2
  <2>4. Computed(Cur) = Val("fn", Cur.b, Window(Cur.c, n)) BY <1>11 DEF Computed
  <2> HIDE DEF n
  <2>5. PICK w : w = Window(Cur.c, n) OBVIOUS
  <2>6. /\ Val("fn", Cur.b, w).t = "fn" /\ Val("fn", Cur.b, w).n = Cur.b
        /\ Val("fn", Cur.b, w).items = w
    BY DEF Val
  <2>7. MadeOf(U, Val("fn", Cur.b, w)) BY <1>1, <2>3, <2>5, <2>6 DEF MadeOf
  <2>8. Refers(image, Len(boxes), Len(iters), Val("fn", Cur.b, w))
    BY <2>1, <2>3, <2>5, <2>6 DEF Refers, n
  <2> QED BY <2>4, <2>5, <2>7, <2>8
<1>12. CASE Cur.op = "getidx"
  <2>1. Cur.b \in Registers(Cur) /\ Cur.c \in Registers(Cur) BY <1>12, OperandsOf
  <2>2. PICK l \in U, r \in U : l = Get(Cur.b) /\ r = Get(Cur.c) BY <1>1, <2>1, OperandIs
  <2>3. Computed(Cur) = IF l.t = "box" THEN boxes[l.n] ELSE IndexValue(l, r)
    BY <1>12, <2>2 DEF Computed
  <2>4. CASE l.t = "box"
    <3>1. l.n \in 1 .. Len(boxes) BY <1>2, <2>4 DEF Refers
    <3>2. boxes[l.n] \in U BY <3>1 DEF Holds
    <3> QED BY <1>2, <2>3, <2>4, <3>2
  <2>5. CASE l.t # "box"
    <3>1. l.items \in Seq(U) BY <1>2 DEF MadeOf
    <3>2. IndexValue(l, r) \in U \/ IndexValue(l, r) = BadIndex BY <3>1 DEF IndexValue
    <3> QED BY <1>2, <1>4, <2>3, <2>5, <3>2
  <2> QED BY <2>4, <2>5
<1> QED BY <1>6, <1>7, <1>8, <1>9, <1>10, <1>11, <1>12 DEF Computing

-----------------------------------------------------------------------------
(* What a step writes. *)

\* Boxes and iterators are never taken away.
Kept(U) ==
  /\ image' = image
  /\ boxes' \in Seq(U) /\ Len(boxes) <= Len(boxes')
  /\ iters' \in Seq(U) /\ Len(iters) <= Len(iters')

LEMMA KeptHolds ==
  ASSUME NEW U, Holds(U), Kept(U), Stacked(image, U, stack')
  PROVE  Holds(U)'
<1>1. /\ Len(boxes) \in Nat /\ Len(iters) \in Nat /\ Len(boxes') \in Nat /\ Len(iters') \in Nat
  BY DEF Holds, Kept
<1>2. Closed(image, Len(boxes'), Len(iters'), U)
  <2>1. Closed(image, Len(boxes), Len(iters), U) BY DEF Holds
  <2> QED BY <1>1, <2>1 DEF Closed, Refers, Kept
<1> QED BY <1>2 DEF Holds, Kept

\* The running frame becomes another that fits.
LEMMA Replaces ==
  ASSUME NEW U, Holds(U), stack # <<>>, NEW new, Fits(image, U, new), new.base = Top.base,
         Replace(new), Kept(U)
  PROVE  Holds(U)' /\ stack' # <<>>
<1>1. Stacked(image, U, stack) /\ Top = Last(stack) BY DEF Holds, Top
<1>2. Stacked(image, U, stack') BY <1>1, ReplaceTop DEF Replace
<1>3. Holds(U)' BY <1>2, KeptHolds
<1>4. stack' # <<>>
  <2>1. stack \in Seq(Frames(image, U)) BY <1>1 DEF Stacked
  <2>2. DOMAIN stack' = DOMAIN stack BY DEF Replace
  <2> QED BY <2>1, <2>2
<1> QED BY <1>3, <1>4

\* An instruction puts a value made of what is there into a register.
LEMMA Makes ==
  ASSUME NEW U, Holds(U), Accepted(image), Running, Cur.op \notin Onward, InFrame(Top, Cur.a),
         NEW v, MadeOf(U, v), Refers(image, Len(boxes'), Len(iters'), v),
         Replace(Put(Advanced, Cur.a, v)), Kept(U)
  PROVE  Holds(U \cup {v})' /\ stack' # <<>>
<1> DEFINE V == U \cup {v}
           new == Put(Advanced, Cur.a, v)
<1>1. /\ stack # <<>> /\ Fits(image, U, Advanced) /\ Advanced.base = Top.base
      /\ Advanced.l = Top.l /\ Advanced.p = Top.p /\ Cur.a \in Int
  BY RunningIs
<1>2. Fits(image, V, Advanced) /\ InFrame(Advanced, Cur.a)
  BY <1>1, FrameGrows DEF InFrame
<1>3. Fits(image, V, new) /\ new.base = Top.base
  BY <1>1, <1>2, PutFits
<1>4. Stacked(image, V, stack)
  BY StackGrows DEF Holds
<1>5. /\ Len(boxes) \in Nat /\ Len(iters) \in Nat /\ Len(boxes') \in Nat /\ Len(iters') \in Nat
  BY DEF Holds, Kept
<1>6. Closed(image, Len(boxes'), Len(iters'), V)
  <2>1. Closed(image, Len(boxes), Len(iters), U) BY DEF Holds
  <2> QED BY <1>5, <2>1, Grow DEF Kept
<1>7. Stacked(image, V, stack')
  BY <1>1, <1>3, <1>4, ReplaceTop DEF Replace, Top
<1>8. boxes' \in Seq(V) /\ iters' \in Seq(V)
  <2>1. Seq(U) \subseteq Seq(V) BY SeqMonotonic
  <2> QED BY <2>1 DEF Kept
<1>9. stack' # <<>>
  <2>1. stack \in Seq(Frames(image, V)) BY <1>4 DEF Stacked
  <2>2. DOMAIN stack' = DOMAIN stack BY DEF Replace
  <2> QED BY <1>1, <2>1, <2>2
<1>10. {Blank, Nil} \subseteq V BY DEF Holds
<1>11. image' = image BY DEF Kept
<1> HIDE DEF V, new
<1>12. Holds(V)'
  BY <1>6, <1>7, <1>8, <1>10, <1>11 DEF Holds
<1> QED BY <1>9, <1>12 DEF V

LEMMA Raises ==
  ASSUME NEW U, Holds(U), stack # <<>>, RaiseHere, UNCHANGED <<image, boxes, iters>>
  PROVE  Holds(U)' /\ stack' # <<>>
<1>1. Fits(image, U, Top) BY TopIs DEF Holds, Top
<1>2. Fits(image, U, Failing(Top)) /\ Failing(Top).base = Top.base BY <1>1, FailingFits
<1>3. Kept(U) BY DEF Kept, Holds
<1> QED BY <1>2, <1>3, Replaces DEF RaiseHere

-----------------------------------------------------------------------------
(* One lemma per action: the state stays made of well-made values. *)

Goes == stack' # <<>> /\ \E V : Holds(V)'

LEMMA ComputeGoes ==
  ASSUME NEW U, Holds(U), Accepted(image), Compute
  PROVE  Goes
<1> USE DEF Compute
<1>1. Running /\ Cur.op \in Computing OBVIOUS
<1>2. PICK v : v = Computed(Cur) OBVIOUS
<1>3. IF v = Exc THEN RaiseHere ELSE Replace(Put(Advanced, Cur.a, v)) BY <1>2
<1>4. UNCHANGED <<image, boxes, iters>> OBVIOUS
<1> HIDE DEF Compute
<1>5. CASE v = Exc
  BY <1>1, <1>3, <1>4, <1>5, Raises DEF Running, Goes
<1>6. CASE v # Exc
  <2>1. MadeOf(U, v) /\ Refers(image, Len(boxes'), Len(iters'), v)
    BY <1>1, <1>2, <1>4, <1>6, ComputedIs
  <2>2. Cur.op \notin Onward BY <1>1 DEF Computing, Onward
  <2>3. Cur.a \in Registers(Cur) BY <1>1, OperandsOf DEF Computing
  <2>4. InFrame(Top, Cur.a) BY <1>1, <2>3, OperandIs, RunningIs
  <2>5. Kept(U) BY <1>4 DEF Kept, Holds
  <2> QED BY <1>1, <1>3, <1>6, <2>1, <2>2, <2>4, <2>5, Makes DEF Goes
<1> QED BY <1>5, <1>6

LEMMA BoxIs ==
  ASSUME NEW im, NEW ni, NEW U, NEW n \in Nat \ {0}
  PROVE  MadeOf(U, Box(n)) /\ Refers(im, n, ni, Box(n))
BY DEF MadeOf, Refers, Box, Val

LEMMA IterIs ==
  ASSUME NEW im, NEW nb, NEW U, NEW n \in Nat \ {0}
  PROVE  MadeOf(U, Iter(n)) /\ Refers(im, nb, n, Iter(n))
BY DEF MadeOf, Refers, Iter, Val

LEMMA MakeBoxGoes ==
  ASSUME NEW U, Holds(U), Accepted(image), MakeBox
  PROVE  Goes
<1>1. /\ Running /\ Cur.op = "plist" /\ boxes' = Append(boxes, Get(Cur.b))
      /\ Replace(Put(Advanced, Cur.a, Box(Len(boxes')))) /\ UNCHANGED <<image, iters>>
  BY DEF MakeBox
<1>2. Cur.c = 1 BY <1>1, RunningIs, InstructionIs
<1>3. Cur.a \in Registers(Cur) /\ Cur.b \in Registers(Cur) BY <1>1, <1>2, OperandsOf
<1>4. Cur.a \in Int /\ Cur.b \in Int BY <1>1, RunningIs
<1>5. InFrame(Top, Cur.a) /\ Get(Cur.b) \in U BY <1>1, <1>3, <1>4, OperandIs
<1>6. boxes \in Seq(U) /\ iters \in Seq(U) BY DEF Holds
<1>7. boxes' \in Seq(U) /\ Len(boxes') = Len(boxes) + 1 BY <1>1, <1>5, <1>6
<1>8. Kept(U) BY <1>1, <1>6, <1>7 DEF Kept
<1>9. PICK v : v = Box(Len(boxes')) OBVIOUS
<1>10. MadeOf(U, v) /\ Refers(image, Len(boxes'), Len(iters'), v)
  <2>1. PICK n \in Nat \ {0} : n = Len(boxes') BY <1>6, <1>7
  <2>2. v = Box(n) BY <1>9, <2>1
  <2>3. MadeOf(U, Box(n)) /\ Refers(image, Len(boxes'), Len(iters'), Box(n)) BY <2>1, BoxIs
  <2> QED BY <2>2, <2>3
<1>11. Cur.op \notin Onward BY <1>1 DEF Onward
<1> QED BY <1>1, <1>5, <1>8, <1>9, <1>10, <1>11, Makes DEF Goes

LEMMA MakeIterGoes ==
  ASSUME NEW U, Holds(U), Accepted(image), MakeIter
  PROVE  Goes
<1>1. /\ Running /\ Cur.op = "iter" /\ iters' = Append(iters, Get(Cur.b))
      /\ Replace(Put(Advanced, Cur.a, Iter(Len(iters')))) /\ UNCHANGED <<image, boxes>>
  BY DEF MakeIter
<1>3. Cur.a \in Registers(Cur) /\ Cur.b \in Registers(Cur) BY <1>1, OperandsOf
<1>4. Cur.a \in Int /\ Cur.b \in Int BY <1>1, RunningIs
<1>5. InFrame(Top, Cur.a) /\ Get(Cur.b) \in U BY <1>1, <1>3, <1>4, OperandIs
<1>6. boxes \in Seq(U) /\ iters \in Seq(U) BY DEF Holds
<1>7. iters' \in Seq(U) /\ Len(iters') = Len(iters) + 1 BY <1>1, <1>5, <1>6
<1>8. Kept(U) BY <1>1, <1>6, <1>7 DEF Kept
<1>9. PICK v : v = Iter(Len(iters')) OBVIOUS
<1>10. MadeOf(U, v) /\ Refers(image, Len(boxes'), Len(iters'), v)
  <2>1. PICK n \in Nat \ {0} : n = Len(iters') BY <1>6, <1>7
  <2>2. v = Iter(n) BY <1>9, <2>1
  <2>3. MadeOf(U, Iter(n)) /\ Refers(image, Len(boxes'), Len(iters'), Iter(n)) BY <2>1, IterIs
  <2> QED BY <2>2, <2>3
<1>11. Cur.op \notin Onward BY <1>1 DEF Onward
<1> QED BY <1>1, <1>5, <1>8, <1>9, <1>10, <1>11, Makes DEF Goes

LEMMA SetBoxGoes ==
  ASSUME NEW U, Holds(U), Accepted(image), SetBox
  PROVE  Goes
<1>1. /\ Running /\ Cur.op = "setidx" /\ UNCHANGED <<image, iters>>
      /\ IF Get(Cur.a).t = "box"
         THEN Replace(Advanced) /\ boxes' = [boxes EXCEPT ![Get(Cur.a).n] = Get(Cur.c)]
         ELSE RaiseHere /\ UNCHANGED boxes
  BY DEF SetBox
<1>2. CASE Get(Cur.a).t = "box"
  <2>1. Cur.a \in Registers(Cur) /\ Cur.c \in Registers(Cur) BY <1>1, OperandsOf
  <2>2. PICK box \in U, v \in U : box = Get(Cur.a) /\ v = Get(Cur.c)
    BY <1>1, <2>1, OperandIs, RunningIs
  <2>3. box.n \in 1 .. Len(boxes) BY <1>2, <2>2 DEF Holds, Closed, Refers
  <2>4. boxes \in Seq(U) /\ iters \in Seq(U) BY DEF Holds
  <2>5. boxes' = [boxes EXCEPT ![box.n] = v] BY <1>1, <1>2, <2>2
  <2>6. boxes' \in Seq(U) /\ Len(boxes') = Len(boxes) BY <2>3, <2>4, <2>5, ExceptSeq
  <2>7. Kept(U) BY <1>1, <2>4, <2>6 DEF Kept
  <2>8. Cur.op \notin Onward BY <1>1 DEF Onward
  <2>9. stack # <<>> /\ Fits(image, U, Advanced) /\ Advanced.base = Top.base BY <1>1, <2>8, RunningIs
  <2> QED BY <1>1, <1>2, <2>7, <2>9, Replaces DEF Goes
<1>3. CASE Get(Cur.a).t # "box"
  BY <1>1, <1>3, Raises DEF Running, Goes
<1> QED BY <1>2, <1>3

LEMMA BranchGoes ==
  ASSUME NEW U, Holds(U), Accepted(image), Branch
  PROVE  Goes
<1> DEFINE new == IF Taken(Cur) THEN [Top EXCEPT !.ip = Cur.b] ELSE Advanced
<1>1. /\ Running /\ Cur.op \in {"jmp", "jf", "jt", "jnerr"} /\ Replace(new)
      /\ UNCHANGED <<image, boxes, iters>>
  BY DEF Branch
<1>2. /\ stack # <<>> /\ Top.leaving = "no" /\ Fits(image, U, Top) /\ Cur = At(image, Top) BY <1>1, RunningIs
<1>3. JumpTargets(Cur) = {Cur.b} BY <1>1, OperandsOf
<1>4. Cur.b \in 0 .. (Len(image[Top.fn].code) - 1) BY <1>2, <1>3, InstructionIs
<1>5. Fits(image, U, [Top EXCEPT !.ip = Cur.b]) /\ [Top EXCEPT !.ip = Cur.b].base = Top.base
  BY <1>2, <1>4, MovedFits
<1>6. ~Taken(Cur) => Fits(image, U, Advanced) /\ Advanced.base = Top.base
  <2>1. ~Taken(Cur) => Cur.op \notin Onward BY <1>1 DEF Taken, Onward
  <2> QED BY <1>1, <2>1, RunningIs
<1>7. Kept(U) BY <1>1 DEF Kept, Holds
<1> QED BY <1>1, <1>2, <1>5, <1>6, <1>7, Replaces DEF Goes

LEMMA IterNextGoes ==
  ASSUME NEW U, Holds(U), Accepted(image), IterNext
  PROVE  Goes
<1> DEFINE it == Get(Cur.b)
           left == iters[it.n]
<1>1. /\ Running /\ Cur.op = "itnext" /\ UNCHANGED <<image, boxes>>
      /\ IF it.t # "iter" \/ left.t \notin {"list", "nil"}
         THEN RaiseHere /\ UNCHANGED iters
         ELSE IF left.items = <<>>
         THEN Replace([Top EXCEPT !.ip = Cur.c]) /\ UNCHANGED iters
         ELSE /\ Replace(Put(Advanced, Cur.a, Head(left.items)))
              /\ iters' = [iters EXCEPT ![it.n].items = Tail(@)]
  BY DEF IterNext
<1>2. Cur.a \in Registers(Cur) /\ Cur.b \in Registers(Cur) BY <1>1, OperandsOf
<1>3. it \in U /\ InFrame(Top, Cur.a) BY <1>1, <1>2, OperandIs, RunningIs
<1>4. /\ stack # <<>> /\ Top.leaving = "no" /\ Fits(image, U, Top) /\ Cur = At(image, Top) BY <1>1, RunningIs
<1>5. CASE it.t # "iter" \/ left.t \notin {"list", "nil"}
  BY <1>1, <1>4, <1>5, Raises DEF Goes
<1>6. CASE it.t = "iter" /\ left.t \in {"list", "nil"} /\ left.items = <<>>
  <2>1. JumpTargets(Cur) = {Cur.c} BY <1>1, OperandsOf
  <2>2. Cur.c \in 0 .. (Len(image[Top.fn].code) - 1) BY <1>4, <2>1, InstructionIs
  <2>3. Fits(image, U, [Top EXCEPT !.ip = Cur.c]) /\ [Top EXCEPT !.ip = Cur.c].base = Top.base
    BY <1>4, <2>2, MovedFits
  <2>4. Kept(U) BY <1>1, <1>6 DEF Kept, Holds
  <2> QED BY <1>1, <1>4, <1>6, <2>3, <2>4, Replaces DEF Goes
<1>7. CASE it.t = "iter" /\ left.t \in {"list", "nil"} /\ left.items # <<>>
  <2>1. PICK k \in 1 .. Len(iters) : k = it.n
    BY <1>3, <1>7 DEF Holds, Closed, Refers
  <2>2. iters \in Seq(U) /\ boxes \in Seq(U) BY DEF Holds
  <2>3. PICK w \in U : w = iters[k] BY <2>1, <2>2
  <2>4. /\ w = left /\ MadeOf(U, w) /\ Refers(image, Len(boxes), Len(iters), w) BY <2>1, <2>3 DEF Holds, Closed
  <2>5. PICK v \in U : v = Head(w.items) BY <1>7, <2>4, HeadTailProperties DEF MadeOf
  <2>6. PICK rest \in Seq(U) : rest = Tail(w.items) BY <1>7, <2>4, HeadTailProperties DEF MadeOf
  <2>7. PICK next : next = [w EXCEPT !.items = rest] OBVIOUS
  \* The iterator with less left is one value more, and so a set of its own.
  <2>8. /\ next = Val(w.t, w.n, rest) /\ next.t = w.t /\ next.n = w.n /\ next.items = rest
    BY <2>4, <2>7 DEF MadeOf, Val
  <2>9. MadeOf(U, next) BY <2>4, <2>6, <2>8 DEF MadeOf
  <2>10. Refers(image, Len(boxes), Len(iters), next)
    BY <1>7, <2>4, <2>8 DEF Refers
  <2> DEFINE V == U \cup {next}
  <2>11. Closed(image, Len(boxes), Len(iters), V)
    BY <2>2, <2>9, <2>10, Grow DEF Holds
  <2>12. Seq(U) \subseteq Seq(V) BY SeqMonotonic
  <2>13. Holds(V)
    BY <2>11, <2>12, StackGrows DEF Holds
  <2>14. iters' = [iters EXCEPT ![k] = next]
    BY <1>1, <1>7, <2>1, <2>2, <2>3, <2>6, <2>7
  <2>15. iters' \in Seq(V) /\ Len(iters') = Len(iters)
    BY <2>2, <2>12, <2>14, ExceptSeq
  <2>16. Kept(V) BY <1>1, <2>2, <2>12, <2>15 DEF Kept
  <2>17. v \in V /\ MadeOf(V, v) /\ Refers(image, Len(boxes'), Len(iters'), v)
    BY <1>1, <2>11, <2>15 DEF Closed
  <2>18. Replace(Put(Advanced, Cur.a, v)) BY <1>1, <1>7, <2>4, <2>5
  <2>19. Cur.op \notin Onward BY <1>1 DEF Onward
  <2> HIDE DEF V
  <2> QED BY <1>1, <1>3, <2>13, <2>16, <2>17, <2>18, <2>19, Makes DEF Goes
<1> QED BY <1>5, <1>6, <1>7

LEMMA ArmDeferGoes ==
  ASSUME NEW U, Holds(U), Accepted(image), ArmDefer
  PROVE  Goes
<1>1. /\ Running /\ Cur.op = "defer_reg" /\ UNCHANGED <<image, boxes, iters>>
      /\ Replace([Advanced EXCEPT !.defers = Append(@, [f |-> Get(Cur.a), onError |-> Cur.b = 1])])
  BY DEF ArmDefer
<1>2. Cur.a \in Registers(Cur) BY <1>1, OperandsOf
<1>3. PICK f \in U : f = Get(Cur.a) BY <1>1, <1>2, OperandIs, RunningIs
<1>4. PICK d \in Deferred(U) : d = [f |-> f, onError |-> Cur.b = 1]
  <2>1. PICK on \in BOOLEAN : on = (Cur.b = 1) BY Zenon
  <2>2. [f |-> f, onError |-> on] \in Deferred(U) BY <1>3, <2>1 DEF Deferred
  <2> QED BY <2>1, <2>2
<1>5. Cur.op \notin Onward BY <1>1 DEF Onward
<1>6. PICK fr : fr = Advanced OBVIOUS
<1>7. stack # <<>> /\ Fits(image, U, fr) /\ fr.base = Top.base
  BY <1>1, <1>5, <1>6, RunningIs
<1>8. fr \in Frames(image, U) /\ fr.defers \in Seq(Deferred(U)) BY <1>7 DEF Fits, Frames
<1>9. PICK ds \in Seq(Deferred(U)) : ds = Append(fr.defers, d)
  <2>1. Append(fr.defers, d) \in Seq(Deferred(U)) BY <1>4, <1>8
  <2> QED BY <2>1
<1>10. PICK new : new = [fr EXCEPT !.defers = ds] OBVIOUS
<1>11. Fits(image, U, new) /\ new.base = Top.base
  BY <1>7, <1>8, <1>10 DEF Fits, Frames
<1>12. Replace(new)
  BY <1>1, <1>3, <1>4, <1>6, <1>9, <1>10
<1>13. Kept(U) BY <1>1 DEF Kept, Holds
<1> QED BY <1>7, <1>11, <1>12, <1>13, Replaces DEF Goes

LEMMA TrapGoes ==
  ASSUME NEW U, Holds(U), Accepted(image), Trap
  PROVE  Goes
BY Raises DEF Trap, Running, Goes

LEMMA CallHostGoes ==
  ASSUME NEW U, Holds(U), Accepted(image), CallHost
  PROVE  Goes
<1>1. /\ Running /\ Cur.op = "call" /\ UNCHANGED <<image, boxes, iters>>
      /\ \/ RaiseHere
         \/ \E v \in {Nil, Err} : Replace(Put(Advanced, Cur.a, v))
  BY DEF CallHost
<1>2. CASE RaiseHere
  BY <1>1, <1>2, Raises DEF Running, Goes
<1>3. ASSUME NEW v \in {Nil, Err}, Replace(Put(Advanced, Cur.a, v))
      PROVE  Goes
  <2>1. Cur.a \in Registers(Cur) BY <1>1, OperandsOf
  <2>2. InFrame(Top, Cur.a) BY <1>1, <2>1, OperandIs, RunningIs
  <2>3. MadeOf(U, v) /\ Refers(image, Len(boxes'), Len(iters'), v)
    <3>1. <<>> \in Seq(U) OBVIOUS
    <3>2. CASE v = Nil BY <3>1, <3>2 DEF MadeOf, Refers, Nil, Val
    <3>3. CASE v = Err BY <3>1, <3>3 DEF MadeOf, Refers, Err, Val
    <3> QED BY <3>2, <3>3
  <2>4. Kept(U) BY <1>1 DEF Kept, Holds
  <2>5. Cur.op \notin Onward BY <1>1 DEF Onward
  <2> QED BY <1>1, <1>3, <2>2, <2>3, <2>4, <2>5, Makes DEF Goes
<1> QED BY <1>1, <1>2, <1>3

LEMMA ReturnGoes ==
  ASSUME NEW U, Holds(U), Accepted(image), ReturnFrom
  PROVE  Goes
<1>1. /\ Running /\ Cur.op = "return" /\ UNCHANGED <<image, boxes, iters>>
      /\ Replace([Top EXCEPT !.leaving = "return", !.value = Get(Cur.a), !.defers = <<>>,
                             !.due = Reverse(Top.defers)])
  BY DEF ReturnFrom
<1>2. Cur.a \in Registers(Cur) BY <1>1, OperandsOf
<1>3. PICK v \in U : v = Get(Cur.a) BY <1>1, <1>2, OperandIs, RunningIs
<1>4. stack # <<>> /\ Fits(image, U, Top) BY <1>1, RunningIs
<1>5. PICK fr : fr = Top OBVIOUS
<1>6. fr \in Frames(image, U) /\ fr.defers \in Seq(Deferred(U)) BY <1>4, <1>5 DEF Fits, Frames
<1>7. PICK ds \in Seq(Deferred(U)) : ds = Reverse(fr.defers) BY <1>6, ReverseIs
<1>8. PICK new : new = [fr EXCEPT !.leaving = "return", !.value = v, !.defers = <<>>, !.due = ds] OBVIOUS
<1>9. /\ new.leaving = "return" /\ new.base = fr.base /\ new.fn = fr.fn
      /\ new.l = fr.l /\ new.p = fr.p
  BY <1>6, <1>8 DEF Frames
<1>10. <<>> \in Seq(Deferred(U)) OBVIOUS
<1>11. new \in Frames(image, U) BY <1>6, <1>8, <1>10 DEF Frames
<1>12. Fits(image, U, new) BY <1>4, <1>5, <1>9, <1>11 DEF Fits
<1>13. Replace(new) BY <1>1, <1>3, <1>5, <1>7, <1>8
<1>14. Kept(U) BY <1>1 DEF Kept, Holds
<1> QED BY <1>4, <1>5, <1>9, <1>12, <1>13, <1>14, Replaces DEF Goes

-----------------------------------------------------------------------------
(* Frames made and left. *)

\* A call of a closure with as many arguments as it takes: the frame is of the
\* size its body was compiled for, and starts at its first instruction.
LEMMA FrameFits ==
  ASSUME NEW U, NEW nb, NEW ni, {Blank, Nil} \subseteq U, Closed(image, nb, ni, U),
         Accepted(image), NEW f \in U, f.t = "fn",
         NEW args \in Seq(U), Len(args) = image[f.n].nparams, NEW base \in Int
  PROVE  Fits(image, U, Frame(f, args, base)) /\ Frame(f, args, base).base = base
<1> DEFINE fn == image[f.n]
           l == [i \in 1 .. fn.nlocals |-> Blank]
           p == args \o f.items
           new == Frame(f, args, base)
<1>1. f.n \in DOMAIN image /\ Len(f.items) = Len(fn.captures) /\ f.items \in Seq(U)
  BY DEF Closed, MadeOf, Refers
<1>2. fn.nlocals \in Nat /\ fn.nparams \in Nat /\ Len(fn.captures) \in Nat /\ Len(fn.code) \in Nat
  BY <1>1, ImageIs
<1>3. Blank \in U /\ Nil \in U OBVIOUS
<1>4. l \in Seq(U) /\ Len(l) = fn.nlocals BY <1>2, <1>3
<1>5. p \in Seq(U) /\ Len(p) = fn.nparams + Len(fn.captures)
  <2>1. Len(args \o f.items) = Len(args) + Len(f.items) /\ args \o f.items \in Seq(U)
    BY <1>1, ConcatProperties
  <2> QED BY <1>1, <2>1
<1>6. Len(fn.code) > 0 BY <1>1 DEF Accepted, BodiesEnd
<1>7. new = [fn |-> f.n, ip |-> 0, l |-> l, p |-> p, base |-> base, defers |-> <<>>,
             leaving |-> "no", due |-> <<>>, value |-> Nil]
  BY DEF Frame
<1>8. /\ new.fn = f.n /\ new.ip = 0 /\ new.l = l /\ new.p = p /\ new.base = base
      /\ new.leaving = "no" /\ new.due = <<>>
  BY <1>7
<1>9. <<>> \in Seq(Deferred(U)) OBVIOUS
<1> HIDE DEF l, p
<1>10. new \in Frames(image, U) BY <1>1, <1>3, <1>4, <1>5, <1>7, <1>9 DEF Frames
<1> HIDE DEF new
<1>11. Fits(image, U, new)
  BY <1>2, <1>4, <1>5, <1>6, <1>8, <1>10 DEF Fits
<1> QED BY <1>8, <1>11 DEF new

\* The running frame becomes `low`, under a new one.
LEMMA Pushes ==
  ASSUME NEW U, Holds(U), stack # <<>>,
         NEW low, Fits(image, U, low), low.base = Top.base,
         NEW new, Fits(image, U, new), Above(image, low, new.base),
         stack' = Append([stack EXCEPT ![Len(stack)] = low], new),
         UNCHANGED <<image, boxes, iters>>
  PROVE  Goes
<1> DEFINE st == [stack EXCEPT ![Len(stack)] = low]
<1>1. Stacked(image, U, stack) /\ Top = Last(stack) BY DEF Holds, Top
<1>2. Stacked(image, U, st) BY <1>1, ReplaceTop
<1>3. stack \in Seq(Frames(image, U)) /\ low \in Frames(image, U) /\ new \in Frames(image, U)
  BY <1>1 DEF Stacked, Fits
<1>4. Len(stack) \in Nat \ {0} BY <1>1, TopIs
<1>5. Len(st) = Len(stack) /\ st[Len(stack)] = low /\ st \in Seq(Frames(image, U))
  BY <1>3, <1>4, ExceptSeq
<1>6. st # <<>> /\ Last(st) = low BY <1>4, <1>5 DEF Last
<1> HIDE DEF st
<1>7. Stacked(image, U, Append(st, new)) BY <1>2, <1>6, PushFrame
<1>8. Kept(U) BY DEF Kept, Holds
<1>9. Holds(U)' BY <1>7, <1>8, KeptHolds DEF st
<1>10. stack' # <<>>
  <2>1. Len(Append(st, new)) = Len(st) + 1 BY <1>3, <1>5
  <2>2. Len(Append(st, new)) # 0 BY <1>4, <1>5, <2>1
  <2> QED BY <2>2 DEF st
<1> QED BY <1>9, <1>10 DEF Goes

LEMMA CallFunctionGoes ==
  ASSUME NEW U, Holds(U), Accepted(image), CallFunction
  PROVE  Goes
<1>1. /\ Running /\ Cur.op = "call" /\ Get(Cur.a).t = "fn" /\ UNCHANGED <<image, boxes, iters>>
      /\ IF Cur.b # image[Get(Cur.a).n].nparams THEN RaiseHere
         ELSE stack' = Append([stack EXCEPT ![Len(stack)] = Advanced],
                              Frame(Get(Cur.a), Window(Cur.a + 1, Cur.b), Cur.a))
  BY DEF CallFunction
<1>2. CASE Cur.b # image[Get(Cur.a).n].nparams
  BY <1>1, <1>2, Raises DEF Running, Goes
<1>3. CASE Cur.b = image[Get(Cur.a).n].nparams
  <2>1. /\ Fits(image, U, Top) /\ Top.leaving = "no" /\ Cur = At(image, Top) /\ stack # <<>>
        /\ Cur.a \in Int /\ Cur.b \in Int
    BY <1>1, RunningIs
  <2>2. Cur.b \in Nat BY <1>1, <2>1, InstructionIs
  <2>3. Cur.a \in Registers(Cur) BY <1>1, OperandsOf
  <2>4. PICK f \in U : f = Get(Cur.a) BY <1>1, <2>1, <2>3, OperandIs
  <2>5. <<Cur.a, Cur.b + 1>> \in Windows(image, Cur) BY <1>1, OperandsOf
  <2>6. Cur.a >= 0 /\ Cur.a + (Cur.b + 1) <= Len(Top.l)
    <3>1. PICK n \in Nat : n = Cur.b + 1 BY <2>2
    <3>2. <<Cur.a, n>> \in Windows(image, Cur) BY <2>5, <3>1
    <3>3. Cur.a >= 0 /\ Cur.a + n <= Len(Top.l) BY <1>1, <2>1, <3>2, OperandWindowIs
    <3> QED BY <3>1, <3>3
  <2>7. Window(Cur.a + 1, Cur.b) \in Seq(U) /\ Len(Window(Cur.a + 1, Cur.b)) = Cur.b
    <3>1. Len(Top.l) \in Nat BY <2>1 DEF Fits, Frames
    <3>2. Cur.a + 1 \in Int /\ Cur.a + 1 >= 0 /\ (Cur.a + 1) + Cur.b <= Len(Top.l)
      BY <2>1, <2>2, <2>6, <3>1
    <3> QED BY <2>1, <2>2, <3>2, WindowIs
  <2>8. PICK new : new = Frame(f, Window(Cur.a + 1, Cur.b), Cur.a) OBVIOUS
  <2>9. Fits(image, U, new) /\ new.base = Cur.a
    BY <1>1, <1>3, <2>1, <2>4, <2>7, <2>8, FrameFits DEF Holds
  <2>10. Cur.op \notin Onward BY <1>1 DEF Onward
  <2>11. /\ Fits(image, U, Advanced) /\ Advanced.base = Top.base /\ Advanced.leaving = "no"
         /\ Advanced.fn = Top.fn
    BY <1>1, <2>10, RunningIs
  <2>12. Above(image, Advanced, new.base)
    <3>1. Len(Top.l) = image[Top.fn].nlocals /\ Len(Top.l) \in Nat BY <2>1 DEF Fits, Frames
    <3> QED BY <2>1, <2>2, <2>6, <2>9, <2>11, <3>1 DEF Above
  <2> QED BY <1>1, <1>3, <2>1, <2>4, <2>8, <2>9, <2>11, <2>12, Pushes
<1> QED BY <1>2, <1>3

LEMMA RunDeferGoes ==
  ASSUME NEW U, Holds(U), Accepted(image), RunDefer
  PROVE  Goes
<1> DEFINE d == Head(Top.due)
           left == [Top EXCEPT !.due = Tail(@)]
<1>1. /\ stack # <<>> /\ Top.leaving # "no" /\ Top.due # <<>> /\ UNCHANGED <<image, boxes, iters>>
      /\ IF (d.onError /\ ~LeavesBadly) \/ d.f = Println
         THEN Replace(left)
         ELSE IF d.f.t = "fn" /\ image[d.f.n].nparams = 0
         THEN stack' = Append([stack EXCEPT ![Len(stack)] = left], Frame(d.f, <<>>, -1))
         ELSE RaiseHere
  BY DEF RunDefer
<1>2. Fits(image, U, Top) BY <1>1, TopIs DEF Holds, Top
<1>3. PICK fr : fr = Top OBVIOUS
<1>4. fr \in Frames(image, U) /\ fr.due \in Seq(Deferred(U)) BY <1>2, <1>3 DEF Fits, Frames
<1>5. PICK ds \in Seq(Deferred(U)) : ds = Tail(fr.due) BY <1>1, <1>3, <1>4, HeadTailProperties
<1>6. d \in Deferred(U) BY <1>1, <1>3, <1>4, HeadTailProperties
<1>7. PICK f \in U : f = d.f BY <1>6 DEF Deferred
<1>8. PICK low : low = [fr EXCEPT !.due = ds] OBVIOUS
<1>9. low = left BY <1>3, <1>5, <1>8
<1>10. /\ low.base = fr.base /\ low.leaving = fr.leaving /\ low.fn = fr.fn
       /\ low.l = fr.l /\ low.p = fr.p
  BY <1>4, <1>8 DEF Frames
<1>11. low \in Frames(image, U) BY <1>4, <1>8 DEF Frames
<1>12. Fits(image, U, low) BY <1>1, <1>2, <1>3, <1>10, <1>11 DEF Fits
<1>13. Kept(U) BY <1>1 DEF Kept, Holds
<1>14. CASE Replace(left)
  BY <1>1, <1>3, <1>9, <1>10, <1>12, <1>13, <1>14, Replaces DEF Goes
<1>15. CASE RaiseHere
  BY <1>1, <1>15, Raises DEF Goes
<1>16. CASE /\ f.t = "fn" /\ image[f.n].nparams = 0
            /\ stack' = Append([stack EXCEPT ![Len(stack)] = low], Frame(f, <<>>, -1))
  <2>1. <<>> \in Seq(U) /\ Len(<<>>) = 0 OBVIOUS
  <2>2. PICK new : new = Frame(f, <<>>, -1) OBVIOUS
  <2>3. Fits(image, U, new) /\ new.base = -1
    <3>1. f.t = "fn" /\ Len(<<>>) = image[f.n].nparams BY <1>16, <2>1
    <3>2. -1 \in Int OBVIOUS
    <3> QED BY <2>1, <2>2, <3>1, <3>2, FrameFits DEF Holds
  <2>4. Above(image, low, new.base) BY <1>1, <1>3, <1>10, <2>3 DEF Above
  <2> QED BY <1>1, <1>3, <1>10, <1>12, <1>16, <2>2, <2>3, <2>4, Pushes
<1> QED BY <1>1, <1>7, <1>9, <1>14, <1>15, <1>16

\* The frame below takes the value, or the exception; or the run is over.
LEMMA LeaveGoes ==
  ASSUME NEW U, Holds(U), Accepted(image), Leave
  PROVE  \/ Goes /\ UNCHANGED outcome
         \/ Holds(U)' /\ stack' = <<>> /\ outcome'.k # "running"
<1> DEFINE rest == Front(stack)
           below == Last(rest)
           next == IF Top.leaving = "raise" THEN Failing(below)
                   ELSE IF Top.base = -1 THEN below
                   ELSE Put(below, Top.base, Top.value)
<1>1. /\ stack # <<>> /\ Top.leaving # "no" /\ UNCHANGED <<image, boxes, iters>>
      /\ IF rest = <<>>
         THEN /\ stack' = <<>>
              /\ outcome' = IF Top.leaving = "raise" THEN [k |-> "raise", v |-> Nil]
                            ELSE [k |-> "next", v |-> Shown(Top.value)]
         ELSE stack' = [rest EXCEPT ![Len(rest)] = next] /\ UNCHANGED outcome
  BY DEF Leave
<1>2. Stacked(image, U, stack) BY DEF Holds
<1>3. Kept(U) BY <1>1 DEF Kept, Holds
<1>4. CASE rest = <<>>
  <2>1. Stacked(image, U, <<>>) BY DEF Stacked
  <2>2. Holds(U)' BY <1>1, <1>3, <1>4, <2>1, KeptHolds
  <2> QED BY <1>1, <1>4, <2>2
<1>5. CASE rest # <<>>
  <2>1. PICK st : st = rest OBVIOUS
  <2>2. Stacked(image, U, st) /\ st # <<>> BY <1>1, <1>2, <1>5, <2>1, PopFrame
  <2>3. Above(image, Last(st), Top.base) BY <1>1, <1>2, <1>5, <2>1, PopFrame DEF Top
  <2>4. PICK fr : fr = Last(st) OBVIOUS
  <2>5. Fits(image, U, fr) BY <2>2, <2>4, TopIs
  <2>6. Fits(image, U, Top) BY <1>1, <1>2, TopIs DEF Top
  <2>7. Top.base \in Int /\ Top.value \in U BY <2>6 DEF Fits, Frames
  <2>8. PICK new : new = next OBVIOUS
  <2>9. Fits(image, U, new) /\ new.base = fr.base
    <3>1. CASE Top.leaving = "raise"
      BY <2>1, <2>4, <2>5, <2>8, <3>1, FailingFits
    <3>2. CASE Top.leaving # "raise" /\ Top.base = -1
      BY <2>1, <2>4, <2>5, <2>8, <3>2
    <3>3. CASE Top.leaving # "raise" /\ Top.base # -1
      <4>1. Top.base \in 0 .. (image[fr.fn].nlocals - 1) BY <2>3, <2>4, <3>3 DEF Above
      <4>2. fr.fn \in DOMAIN image /\ Len(fr.l) = image[fr.fn].nlocals BY <2>5 DEF Fits, Frames
      <4>3. image[fr.fn].nlocals \in Nat BY <4>2, ImageIs
      <4>4. InFrame(fr, Top.base) BY <2>7, <4>1, <4>2, <4>3 DEF InFrame
      <4>5. new = Put(fr, Top.base, Top.value) BY <2>1, <2>4, <2>8, <3>3
      <4> QED BY <2>5, <2>7, <4>4, <4>5, PutFits
    <3> QED BY <3>1, <3>2, <3>3
  <2>10. stack' = [st EXCEPT ![Len(st)] = new] BY <1>1, <1>5, <2>1, <2>8
  <2>11. Stacked(image, U, stack') BY <2>2, <2>4, <2>9, <2>10, ReplaceTop
  <2>12. Holds(U)' BY <1>3, <2>11, KeptHolds
  <2>13. stack' # <<>>
    <3>1. st \in Seq(Frames(image, U)) BY <2>2 DEF Stacked
    <3>2. DOMAIN stack' = DOMAIN st BY <2>10
    <3> QED BY <2>2, <3>1, <3>2
  <2> QED BY <1>1, <1>5, <2>12, <2>13 DEF Goes
<1> QED BY <1>4, <1>5

-----------------------------------------------------------------------------
(* The verifier is sound. *)

LEMMA LoadHolds ==
  ASSUME Accepted(image), Load
  PROVE  MachineInv
<1> DEFINE f == Val("fn", Len(image), <<>>)
           U == {Blank, Nil, f}
<1>1. /\ stack = <<Frame(f, <<>>, -1)>> /\ boxes = <<>> /\ iters = <<>>
      /\ outcome.k = "running" /\ strayed = {}
  BY DEF Load
<1>2. /\ Len(image) \in DOMAIN image /\ Len(image[Len(image)].captures) = 0
      /\ image[Len(image)].nparams = 0
  <2>1. Decoded(image) BY DEF Accepted
  <2>2. Len(image) > 0 /\ DOMAIN image = 1 .. Len(image) /\ Len(image) \in Nat BY <2>1 DEF Decoded
  <2> QED BY <2>1, <2>2 DEF Decoded
<1>3. f.t = "fn" /\ f.n = Len(image) /\ f.items = <<>> BY DEF Val
<1>4. Closed(image, 0, 0, U)
  <2>1. <<>> \in Seq(U) /\ Len(<<>>) = 0 OBVIOUS
  <2>2. Len(image) \in Int BY <1>2 DEF Accepted, Decoded
  <2>3. MadeOf(U, f) /\ Refers(image, 0, 0, f)
    BY <1>2, <1>3, <2>1, <2>2 DEF MadeOf, Refers
  <2> HIDE DEF U
  <2>4. MadeOf(U, Blank) /\ Refers(image, 0, 0, Blank) BY <2>1 DEF MadeOf, Refers, Blank, Val
  <2>5. MadeOf(U, Nil) /\ Refers(image, 0, 0, Nil) BY <2>1 DEF MadeOf, Refers, Nil, Val
  <2> QED BY <2>3, <2>4, <2>5 DEF Closed, U
<1>5. PICK fr : fr = Frame(f, <<>>, -1) OBVIOUS
<1>6. Fits(image, U, fr)
  <2>1. {Blank, Nil} \subseteq U /\ f \in U OBVIOUS
  <2>2. <<>> \in Seq(U) /\ Len(<<>>) = image[f.n].nparams BY <1>2, <1>3
  <2>3. -1 \in Int OBVIOUS
  <2> HIDE DEF U, f
  <2> QED BY <1>3, <1>4, <1>5, <2>1, <2>2, <2>3, FrameFits
<1> HIDE DEF U
<1>7. Stacked(image, U, stack)
  <2>1. fr \in Frames(image, U) BY <1>6 DEF Fits
  <2>2. stack = <<fr>> BY <1>1, <1>5
  <2>3. stack \in Seq(Frames(image, U)) /\ Len(stack) = 1 /\ stack[1] = fr BY <2>1, <2>2
  <2> QED BY <1>6, <2>3 DEF Stacked
<1>8. boxes \in Seq(U) /\ iters \in Seq(U) /\ Len(boxes) = 0 /\ Len(iters) = 0 BY <1>1
<1>9. Holds(U) BY <1>4, <1>7, <1>8 DEF Holds, U
<1>10. stack # <<>> BY <1>1
<1> QED BY <1>1, <1>9, <1>10 DEF MachineInv, Over

LEMMA StepHolds ==
  ASSUME MachineInv, [Step]_vmVars
  PROVE  MachineInv'
<1>1. PICK U : Holds(U) BY DEF MachineInv
<1>2. Accepted(image) /\ strayed \subseteq Astray /\ Over = (outcome.k # "running")
  BY DEF MachineInv
<1>3. CASE UNCHANGED vmVars
  BY <1>3 DEF vmVars, MachineInv, Holds, Over
<1>4. ASSUME stack # <<>>, image' = image, UNCHANGED outcome, strayed' \subseteq Astray, Goes
      PROVE  MachineInv'
  <2>1. ~Over /\ ~Over' BY <1>4 DEF Over, Goes
  <2>2. PICK V : Holds(V)' BY <1>4 DEF Goes
  <2>3. Accepted(image)' BY <1>2, <1>4
  <2>4. outcome'.k = "running" BY <1>2, <1>4, <2>1
  <2>5. (Over = (outcome.k # "running"))' BY <1>4, <2>4 DEF Over, Goes
  <2>6. (\E W : Holds(W))' BY <2>2
  <2> QED BY <1>4, <2>3, <2>5, <2>6 DEF MachineInv
<1>5. CASE Compute
  <2>1. Goes BY <1>1, <1>2, <1>5, ComputeGoes
  <2> QED BY <1>2, <1>4, <1>5, <2>1 DEF Compute, Straying, Strays, Astray, Running
<1>6. CASE MakeBox
  <2>1. Goes BY <1>1, <1>2, <1>6, MakeBoxGoes
  <2> QED BY <1>2, <1>4, <1>6, <2>1 DEF MakeBox, Running
<1>7. CASE SetBox
  <2>1. Goes BY <1>1, <1>2, <1>7, SetBoxGoes
  <2> QED BY <1>2, <1>4, <1>7, <2>1 DEF SetBox, Straying, Strays, Astray, Running
<1>8. CASE Branch
  <2>1. Goes BY <1>1, <1>2, <1>8, BranchGoes
  <2> QED BY <1>2, <1>4, <1>8, <2>1 DEF Branch, Straying, Strays, Astray, Running
<1>9. CASE MakeIter
  <2>1. Goes BY <1>1, <1>2, <1>9, MakeIterGoes
  <2> QED BY <1>2, <1>4, <1>9, <2>1 DEF MakeIter, Straying, Strays, Astray, Running
<1>10. CASE IterNext
  <2>1. Goes BY <1>1, <1>2, <1>10, IterNextGoes
  <2> QED BY <1>2, <1>4, <1>10, <2>1 DEF IterNext, Straying, Astray, Running
<1>11. CASE ArmDefer
  <2>1. Goes BY <1>1, <1>2, <1>11, ArmDeferGoes
  <2> QED BY <1>2, <1>4, <1>11, <2>1 DEF ArmDefer, Running
<1>12. CASE Trap
  <2>1. Goes BY <1>1, <1>2, <1>12, TrapGoes
  <2> QED BY <1>2, <1>4, <1>12, <2>1 DEF Trap, Straying, Astray, Running
<1>13. CASE CallFunction
  <2>1. Goes BY <1>1, <1>2, <1>13, CallFunctionGoes
  <2> QED BY <1>2, <1>4, <1>13, <2>1 DEF CallFunction, Straying, Strays, Astray, Running
<1>14. CASE CallHost
  <2>1. Goes BY <1>1, <1>2, <1>14, CallHostGoes
  <2> QED BY <1>2, <1>4, <1>14, <2>1 DEF CallHost, Straying, Strays, Astray, Running
<1>15. CASE ReturnFrom
  <2>1. Goes BY <1>1, <1>2, <1>15, ReturnGoes
  <2> QED BY <1>2, <1>4, <1>15, <2>1 DEF ReturnFrom, Straying, Strays, Astray, Running
<1>16. CASE RunDefer
  <2>1. Goes BY <1>1, <1>2, <1>16, RunDeferGoes
  <2> QED BY <1>2, <1>4, <1>16, <2>1 DEF RunDefer
<1>17. CASE Leave
  <2>1. stack # <<>> /\ image' = image /\ strayed' = strayed BY <1>17 DEF Leave
  <2>2. CASE Goes /\ UNCHANGED outcome
    BY <1>2, <1>4, <2>1, <2>2
  <2>3. CASE Holds(U)' /\ stack' = <<>> /\ outcome'.k # "running"
    BY <1>2, <2>1, <2>3 DEF MachineInv, Over
  <2> QED BY <1>1, <1>2, <1>17, <2>2, <2>3, LeaveGoes
<1>18. CASE Halted
  BY <1>3, <1>18 DEF Halted
<1> QED BY <1>3, <1>5, <1>6, <1>7, <1>8, <1>9, <1>10, <1>11, <1>12, <1>13, <1>14, <1>15, <1>16, <1>17,
           <1>18 DEF Step

LEMMA InvInside ==
  ASSUME MachineInv
  PROVE  InsideBody
<1>1. PICK U : Holds(U) BY DEF MachineInv
<1>2. /\ stack \in Seq(Frames(image, U)) /\ \A i \in 1 .. Len(stack) : Fits(image, U, stack[i])
      /\ \A i \in 1 .. (Len(stack) - 1) : Above(image, stack[i], stack[i + 1].base)
  BY <1>1 DEF Holds, Stacked
<1>3. DOMAIN stack = 1 .. Len(stack) /\ Len(stack) \in Nat BY <1>2
<1>4. \A v \in U : Refers(image, Len(boxes), Len(iters), v) BY <1>1 DEF Holds, Closed
<1>5. DOMAIN boxes = 1 .. Len(boxes) /\ DOMAIN iters = 1 .. Len(iters) BY <1>1 DEF Holds
<1>6. ASSUME NEW i \in DOMAIN stack
      PROVE  LET fr == stack[i]
                 fn == image[fr.fn]
             IN  /\ DOMAIN fr.l = 1..fn.nlocals
                 /\ Len(fr.p) = fn.nparams + Len(fn.captures)
                 /\ fr.leaving = "no" => fr.due = <<>>
                 /\ i < Len(stack) /\ fr.leaving = "no" => stack[i + 1].base \in 0..(fn.nlocals - 1)
                 /\ \A r \in DOMAIN fr.l : /\ fr.l[r].t = "box" => fr.l[r].n \in DOMAIN boxes
                                           /\ fr.l[r].t = "iter" => fr.l[r].n \in DOMAIN iters
  <2>1. PICK fr : fr = stack[i] OBVIOUS
  <2>2. Fits(image, U, fr) BY <1>2, <1>3, <2>1
  <2>3. fr.l \in Seq(U) BY <2>2 DEF Fits, Frames
  <2>4. \A r \in DOMAIN fr.l : fr.l[r] \in U BY <2>3
  <2>5. \A r \in DOMAIN fr.l : /\ fr.l[r].t = "box" => fr.l[r].n \in DOMAIN boxes
                               /\ fr.l[r].t = "iter" => fr.l[r].n \in DOMAIN iters
    BY <1>4, <1>5, <2>4 DEF Refers
  <2>6. DOMAIN fr.l = 1 .. image[fr.fn].nlocals BY <2>2, <2>3 DEF Fits
  <2>7. ASSUME i < Len(stack), fr.leaving = "no"
        PROVE  stack[i + 1].base \in 0..(image[fr.fn].nlocals - 1)
    <3>1. i \in 1 .. (Len(stack) - 1) BY <1>3, <2>7
    <3>2. Above(image, fr, stack[i + 1].base) BY <1>2, <2>1, <3>1
    <3> QED BY <2>7, <3>2 DEF Above
  <2> QED BY <2>1, <2>2, <2>5, <2>6, <2>7 DEF Fits
<1>7. Running => Top.ip < Len(Code)
  <2>1. SUFFICES ASSUME Running PROVE Top.ip < Len(Code) OBVIOUS
  <2>2. Stacked(image, U, stack) /\ stack # <<>> /\ Top.leaving = "no" BY <1>1, <2>1 DEF Holds, Running
  <2>3. Fits(image, U, Top) BY <2>2, TopIs DEF Top
  <2>4. Top.ip \in 0 .. (Len(Code) - 1) BY <2>2, <2>3 DEF Fits, Code
  <2>5. Len(Code) \in Nat BY <2>3, ImageIs DEF Fits, Frames, Code, MachineInv
  <2> QED BY <2>4, <2>5
<1> QED BY <1>6, <1>7 DEF InsideBody, TypeOK, MachineInv, Astray

\* Whatever image the verifier accepts whose bodies end: no run of it reads or
\* writes outside a frame, takes a box or an iterator that is not there, puts a
\* result where no window is, or runs on past the end of a body (verify, execute).
THEOREM VerifiedRunsInside == Accepted(image) /\ MachineSpec => []InsideBody
<1>1. Accepted(image) /\ Load => MachineInv BY LoadHolds
<1>2. MachineInv /\ [Step]_vmVars => MachineInv' BY StepHolds
<1>3. MachineInv => InsideBody BY InvInside
<1> QED BY <1>1, <1>2, <1>3, PTL DEF MachineSpec

-----------------------------------------------------------------------------
(* Linking: the inductive invariant. *)

\* What has run: the statements of the walker, and those of the VM's passes.
WalkRan == {program[i] : i \in {i \in DOMAIN program : <<0, i>> \notin todo}}
Executed == Compiled \ todo
VmRan == {program[p[2]] : p \in Executed}

\* The statements still to run are a tail of the program, or of the passes.
Linked == phase \in {"vm", "vm only", "stopped"}
Walking == {<<0, i>> : i \in DOMAIN program}
TodoInv ==
  /\ program \in Programs
  /\ todo \subseteq (IF Linked THEN Compiled ELSE Walking)
  /\ \A p \in todo, q \in (IF Linked THEN Compiled ELSE Walking) : Before(p, q) => q \in todo

\* One of the values of W if that is all there is, else the marker.
Picks(W, x) == W = {x} \/ (x = Ambiguous /\ \E v, w \in W : v # w)

\* Two states of the slots agree about one.
Same(a, b, slot) ==
  /\ slot \in DOMAIN b.globals <=> slot \in DOMAIN a.globals
  /\ slot \in DOMAIN a.globals => b.globals[slot] = a.globals[slot]
  /\ slot \in DOMAIN b.layer <=> slot \in DOMAIN a.layer
  /\ slot \in DOMAIN a.layer => b.layer[slot] = a.layer[slot]
Stronger(a, b) ==
  \A slot \in DOMAIN a.layer :
     /\ slot \in DOMAIN b.layer
     /\ \/ b.layer[slot].layer < a.layer[slot].layer
        \/ b.layer[slot] = a.layer[slot] /\ b.globals[slot] \in {a.globals[slot], Ambiguous}
\* Every slot a layer filled is one of the module's.
IsLayer(lay) == lay \in 1..3
Layers(st) == \A slot \in DOMAIN st.layer : slot \in DOMAIN st.globals /\ st.layer[slot].layer \in 1..3

\* The state of the slots as the operators of Linking take and give it.
IsSlots(st) == st = [globals |-> st.globals, layer |-> st.layer]

\* No layer fills a name of the module's own, and an import fills the path of
\* a member or a message with that.
Reserved(D, st) == \A n \in D : Bare(n) \notin DOMAIN st.layer
Named(m) == MembersOf(m) \cup MessagesOf(m)
Paths(st) ==
  \A m \in DOMAIN Modules : \A x \in Named(m) : Path(m, x) \in DOMAIN st.layer =>
     st.layer[Path(m, x)].layer = 1 /\ st.globals[Path(m, x)] = ImportPath(m, x)
Sound(D, st) == IsSlots(st) /\ Layers(st) /\ Reserved(D, st) /\ Paths(st)

\* A name the module does not define, when the wildcards so far offer W.
FreeAt(W, st, n) ==
  LET slot == Bare(n)
  IN  /\ slot \in DOMAIN st.globals
      /\ IF W # {}
         THEN /\ slot \in DOMAIN st.layer /\ st.layer[slot].layer = 2
              /\ Picks(W, st.globals[slot])
              /\ st.layer[slot].source \in DOMAIN Modules
              /\ st.globals[slot] \in {Member(st.layer[slot].source, n), Ambiguous}
         ELSE IF n \in DOMAIN Builtins
         THEN slot \in DOMAIN st.layer /\ st.layer[slot].layer = 3 /\ st.globals[slot] = Owned(Builtins[n])
         ELSE slot \notin DOMAIN st.layer /\ st.globals[slot] = Unset

\* A name of the walker's scope, when its statements so far bind it to E and its
\* wildcards offer W.
NameAt(E, W, ctx, n) ==
  IF E # {} THEN n \in DOMAIN ctx /\ ctx[n].source = "" /\ ctx[n].value \in E
  ELSE IF W # {} THEN n \in DOMAIN ctx /\ ctx[n].source # "" /\ Picks(W, ctx[n].value)
  ELSE n \notin DOMAIN ctx
Sources(ctx) == \A n \in DOMAIN ctx : ctx[n].source \in DOMAIN Modules \cup {""}
Bindings(ran, n) == Explicit("walker", ran, n)
Plain == Names \ (DOMAIN Modules \cup DOMAIN Builtins)
ScopeInv ==
  /\ Sources(scope)
  /\ phase \in {"walk", "vm"} =>
       \A n \in Plain : NameAt(Bindings(WalkRan, n), Wildcard(WalkRan, n), scope, n)

\* A name of the module's own: unset until a statement that binds it has run.
Binds(p, n) ==
  LET s == program[p[2]]
  IN  \/ p[1] = 1 /\ s.op \in {"leaf", "whole", "static"} /\ s.as = n
      \/ p[1] = 2 /\ s.as = n
      \/ p[1] = 3 /\ s.op = "var" /\ s.name = n
OwnAt(st, n) ==
  /\ Bare(n) \in DOMAIN st.globals
  /\ st.globals[Bare(n)] \in {Unset} \cup Explicit("vm", Statement, n)
  /\ (\E p \in Executed : Binds(p, n)) => st.globals[Bare(n)] # Unset
Slots == [globals |-> globals, layer |-> layer]
SlotInv ==
  /\ Sound(Declared, Slots)
  /\ phase \in {"vm", "vm only"} =>
       /\ \A n \in FreeNames : FreeAt(Wildcard(VmRan, n), Slots, n)
       /\ \A n \in (Names \cap Declared) \ DOMAIN Modules : OwnAt(Slots, n)

\* A message, when the imports so far brought the methods `brought`: a definition
\* stays one of them, the program's own method or the marker.
Sendables == UNION {MessagesOf(m) : m \in DOMAIN Modules}
Defines == {s.name : s \in Statement}
Called == Sendables \cup Defines
MessageAt(engine, ran, table, h) ==
  LET brought == Brought(engine, ran, h)
  IN  /\ Define(h) \notin ran /\ brought = {} => h \notin DOMAIN table
      /\ Define(h) \notin ran /\ brought # {} => h \in DOMAIN table /\ Picks(brought, table[h])
      /\ Define(h) \in ran => h \in DOMAIN table /\ table[h] \in brought \cup {Own(h), Ambiguous}
\* The module a method is from answers it, or the program does, which defines
\* a message that has it.
AnswersAt(names, engine, ran, table, answer) ==
  /\ Methods \subseteq DOMAIN answer
  /\ \A m \in DOMAIN answer :
       \/ answer[m] = m.owner
       \/ answer[m] = Main /\ \E s \in ran : s.op = "fn" /\ m \in Brought(engine, ran, s.name)
  /\ \A h \in names : Define(h) \in ran /\ table[h] # Ambiguous => table[h] \in DOMAIN answer
Sendable(names, engine, ran, table, answer) ==
  /\ \A h \in names : MessageAt(engine, ran, table, h)
  /\ AnswersAt(names, engine, ran, table, answer)
\* A definition the walker has reached with no import before it.
First(h) == \E i \in DOMAIN program : /\ <<0, i>> \notin todo /\ program[i] = Define(h)
                                      /\ \A j \in DOMAIN program : j < i => ~IsImport(program[j])
WalkerMessages ==
  phase \in {"walk", "vm"} =>
     /\ Sendable(Called, "walker", WalkRan, messages["walker"], answers["walker"])
     /\ \A h \in Called : First(h) => messages["walker"][h] = Own(h)
\* In the VM the imports have all run before the first definition.
Ours(names, ran, table, answer) ==
  \A h \in names : Define(h) \in ran => table[h] # Ambiguous /\ answer[table[h]] = Main
Ran == IF Linked THEN VmRan ELSE {}
VmMessages ==
  /\ Sendable(Called, "vm", Ran, messages["vm"], answers["vm"])
  /\ Ours(Called, Ran, messages["vm"], answers["vm"])
MessagesInv == DOMAIN messages = Engines /\ DOMAIN answers = Engines /\ WalkerMessages /\ VmMessages
\* All of it, which every reachable state satisfies.
LinkInv == TodoInv /\ ScopeInv /\ SlotInv /\ MessagesInv

-----------------------------------------------------------------------------
(* Linking: what one fill does. *)

\* Slots are paths: a bare name is no path through a module.
LEMMA SlotsDiffer ==
  ASSUME NEW n, NEW k, NEW m, NEW x
  PROVE  /\ Bare(n) # Path(m, x)
         /\ Bare(n) = Bare(k) <=> n = k
         /\ Bare(n)[1] = n /\ Path(m, x)[2] = x
BY DEF Bare, Path

Took(st, offered, lay, slot) == slot \in DOMAIN offered /\ Takes(st, slot, lay)
Clashed(st, offered, lay, source, slot) ==
  slot \in DOMAIN offered /\ Clashes(st, slot, offered[slot], lay, source)

LEMMA FillIs ==
  ASSUME NEW st, NEW offered, NEW lay, NEW source, NEW slot
  PROVE  /\ slot \in DOMAIN Fill(st, offered, lay, source).globals
              <=> slot \in DOMAIN st.globals \/ Took(st, offered, lay, slot)
         /\ slot \in DOMAIN Fill(st, offered, lay, source).layer
              <=> slot \in DOMAIN st.layer \/ Took(st, offered, lay, slot)
         /\ Took(st, offered, lay, slot) =>
              /\ Fill(st, offered, lay, source).globals[slot] = offered[slot]
              /\ Fill(st, offered, lay, source).layer[slot] = [layer |-> lay, source |-> source]
         /\ ~Took(st, offered, lay, slot) /\ slot \in DOMAIN st.layer =>
              Fill(st, offered, lay, source).layer[slot] = st.layer[slot]
         /\ ~Took(st, offered, lay, slot) /\ slot \in DOMAIN st.globals =>
              /\ Clashed(st, offered, lay, source, slot) =>
                   Fill(st, offered, lay, source).globals[slot] = Ambiguous
              /\ ~Clashed(st, offered, lay, source, slot) =>
                   Fill(st, offered, lay, source).globals[slot] = st.globals[slot]
<1> DEFINE takes == {x \in DOMAIN offered : Takes(st, x, lay)}
           f == Fill(st, offered, lay, source)
           g == [x \in DOMAIN st.globals \cup takes |->
                   IF x \in takes THEN offered[x]
                   ELSE IF x \in DOMAIN offered /\ Clashes(st, x, offered[x], lay, source)
                   THEN Ambiguous ELSE st.globals[x]]
           h == [x \in DOMAIN st.layer \cup takes |->
                   IF x \in takes THEN [layer |-> lay, source |-> source] ELSE st.layer[x]]
<1>1. f.globals = g /\ f.layer = h BY DEF Fill
<1>2. slot \in takes <=> Took(st, offered, lay, slot) BY DEF Took
<1>3. DOMAIN g = DOMAIN st.globals \cup takes OBVIOUS
<1>4. DOMAIN h = takes \cup DOMAIN st.layer OBVIOUS
<1>5. slot \in takes => h[slot] = [layer |-> lay, source |-> source] OBVIOUS
<1>6. slot \notin takes /\ slot \in DOMAIN st.layer => h[slot] = st.layer[slot] OBVIOUS
<1>7. slot \in takes => g[slot] = offered[slot] OBVIOUS
<1>8. slot \notin takes /\ slot \in DOMAIN st.globals =>
         /\ Clashed(st, offered, lay, source, slot) => g[slot] = Ambiguous
         /\ ~Clashed(st, offered, lay, source, slot) => g[slot] = st.globals[slot]
  BY DEF Clashed
<1> HIDE DEF takes, f, g, h
<1>9. QED BY <1>1, <1>2, <1>3, <1>4, <1>5, <1>6, <1>7, <1>8 DEF f

Has(table, key, value) == key \in DOMAIN table /\ table[key] = value
LEMMA FillTook ==
  ASSUME NEW st, NEW offered, NEW lay, NEW source, NEW slot, Took(st, offered, lay, slot)
  PROVE  /\ Has(Fill(st, offered, lay, source).globals, slot, offered[slot])
         /\ Has(Fill(st, offered, lay, source).layer, slot, [layer |-> lay, source |-> source])
BY FillIs DEF Has
LEMMA FillKeepsLayer ==
  ASSUME NEW st, NEW offered, NEW lay, NEW source, NEW slot, ~Took(st, offered, lay, slot),
         slot \in DOMAIN st.layer
  PROVE  Has(Fill(st, offered, lay, source).layer, slot, st.layer[slot])
BY FillIs DEF Has
LEMMA FillNotTook ==
  ASSUME NEW st, NEW offered, NEW lay, NEW source, NEW slot, ~Took(st, offered, lay, slot),
         slot \in DOMAIN st.globals
  PROVE  /\ slot \in DOMAIN Fill(st, offered, lay, source).layer <=> slot \in DOMAIN st.layer
         /\ slot \in DOMAIN st.layer => Has(Fill(st, offered, lay, source).layer, slot, st.layer[slot])
         /\ Clashed(st, offered, lay, source, slot) =>
               Has(Fill(st, offered, lay, source).globals, slot, Ambiguous)
         /\ ~Clashed(st, offered, lay, source, slot) =>
               Has(Fill(st, offered, lay, source).globals, slot, st.globals[slot])
<1>1. slot \in DOMAIN Fill(st, offered, lay, source).globals BY FillIs
<1>2. slot \in DOMAIN Fill(st, offered, lay, source).layer <=> slot \in DOMAIN st.layer BY FillIs
<1>3. ASSUME slot \in DOMAIN st.layer
      PROVE  Has(Fill(st, offered, lay, source).layer, slot, st.layer[slot])
  BY <1>3, FillKeepsLayer
<1>4. ASSUME Clashed(st, offered, lay, source, slot)
      PROVE  Fill(st, offered, lay, source).globals[slot] = Ambiguous
  BY <1>4, FillIs
<1>5. ASSUME ~Clashed(st, offered, lay, source, slot)
      PROVE  Fill(st, offered, lay, source).globals[slot] = st.globals[slot]
  BY <1>5, FillIs
<1> QED BY <1>1, <1>2, <1>3, <1>4, <1>5 DEF Has

LEMMA FillElsewhere ==
  ASSUME NEW st, NEW offered, NEW lay, NEW source, NEW slot, slot \notin DOMAIN offered
  PROVE  Same(st, Fill(st, offered, lay, source), slot)
<1> DEFINE f == Fill(st, offered, lay, source)
<1>0. ~Took(st, offered, lay, slot) /\ ~Clashed(st, offered, lay, source, slot) BY DEF Took, Clashed
<1>1. slot \in DOMAIN f.globals <=> slot \in DOMAIN st.globals BY <1>0, FillIs
<1>2. slot \in DOMAIN st.globals => f.globals[slot] = st.globals[slot] BY <1>0, FillIs
<1>3. slot \in DOMAIN f.layer <=> slot \in DOMAIN st.layer BY <1>0, FillIs
<1>4. slot \in DOMAIN st.layer => f.layer[slot] = st.layer[slot] BY <1>0, FillIs
<1> HIDE DEF f
<1> QED BY <1>1, <1>2, <1>3, <1>4 DEF Same, f

LEMMA FillKeeps ==
  ASSUME NEW st, NEW offered, NEW lay, NEW source, NEW slot, slot \in DOMAIN st.globals,
         ~Took(st, offered, lay, slot)
  PROVE  Fill(st, offered, lay, source).globals[slot] \in {st.globals[slot], Ambiguous}
<1>1. CASE Clashed(st, offered, lay, source, slot)
  <2>1. Fill(st, offered, lay, source).globals[slot] = Ambiguous BY <1>1, FillIs
  <2> QED BY <2>1
<1>2. CASE ~Clashed(st, offered, lay, source, slot)
  <2>1. Fill(st, offered, lay, source).globals[slot] = st.globals[slot] BY <1>2, FillIs
  <2> QED BY <2>1
<1> QED BY <1>1, <1>2

LEMMA FillStronger ==
  ASSUME NEW st, NEW offered, NEW lay, NEW source, IsLayer(lay), Layers(st)
  PROVE  Stronger(st, Fill(st, offered, lay, source)) /\ Layers(Fill(st, offered, lay, source))
<1> DEFINE f == Fill(st, offered, lay, source)
<1>1. ASSUME NEW slot \in DOMAIN st.layer
      PROVE  /\ slot \in DOMAIN f.layer
             /\ \/ f.layer[slot].layer < st.layer[slot].layer
                \/ f.layer[slot] = st.layer[slot] /\ f.globals[slot] \in {st.globals[slot], Ambiguous}
  <2>1. slot \in DOMAIN st.globals BY DEF Layers
  <2>2. CASE Took(st, offered, lay, slot)
    <3>1. f.layer[slot] = [layer |-> lay, source |-> source] /\ slot \in DOMAIN f.layer BY <2>2, FillIs
    <3>2. lay < st.layer[slot].layer BY <2>2 DEF Took, Takes
    <3> QED BY <3>1, <3>2
  <2>3. CASE ~Took(st, offered, lay, slot)
    <3>1. f.layer[slot] = st.layer[slot] /\ slot \in DOMAIN f.layer BY <2>3, FillIs
    <3>2. f.globals[slot] \in {st.globals[slot], Ambiguous} BY <2>1, <2>3, FillKeeps
    <3> QED BY <3>1, <3>2
  <2> QED BY <2>2, <2>3
<1>2. ASSUME NEW slot \in DOMAIN f.layer PROVE slot \in DOMAIN f.globals /\ f.layer[slot].layer \in 1..3
  <2>1. CASE Took(st, offered, lay, slot)
    <3>1. slot \in DOMAIN f.globals BY <2>1, FillIs
    <3>2. f.layer[slot] = [layer |-> lay, source |-> source] BY <2>1, FillIs
    <3> QED BY <3>1, <3>2 DEF IsLayer
  <2>2. CASE ~Took(st, offered, lay, slot)
    <3>1. slot \in DOMAIN st.layer /\ f.layer[slot] = st.layer[slot] BY <1>2, <2>2, FillIs
    <3>2. slot \in DOMAIN f.globals BY <3>1, FillIs DEF Layers
    <3> QED BY <3>1, <3>2 DEF Layers
  <2> QED BY <2>1, <2>2
<1> QED BY <1>1, <1>2 DEF Stronger, Layers

LEMMA WithIs ==
  ASSUME NEW table, NEW key, NEW value, NEW k
  PROVE  /\ k \in DOMAIN With(table, key, value) <=> k \in DOMAIN table \/ k = key
         /\ k = key => With(table, key, value)[k] = value
         /\ k # key /\ k \in DOMAIN table => With(table, key, value)[k] = table[k]
BY DEF With

LEMMA FillIsSlots ==
  ASSUME NEW st, NEW offered, NEW lay, NEW source
  PROVE  IsSlots(Fill(st, offered, lay, source))
BY DEF IsSlots, Fill

LEMMA SetIs ==
  ASSUME NEW st, NEW name, NEW value, IsSlots(st)
  PROVE  /\ IsSlots(Set(st, name, value))
         /\ Set(st, name, value).globals = With(st.globals, Bare(name), value)
         /\ Set(st, name, value).layer = st.layer
<1>1. PICK g, l : g = st.globals /\ l = st.layer OBVIOUS
<1>2. st = [globals |-> g, layer |-> l] BY <1>1 DEF IsSlots
<1>3. Set(st, name, value) = [globals |-> With(g, Bare(name), value), layer |-> l] BY <1>2 DEF Set
<1> QED BY <1>1, <1>3 DEF IsSlots

LEMMA SetElsewhere ==
  ASSUME NEW st, NEW name, NEW value, IsSlots(st), NEW slot, slot # Bare(name)
  PROVE  Same(st, Set(st, name, value), slot)
<1>1. PICK b : b = Set(st, name, value) OBVIOUS
<1>2. b.globals = With(st.globals, Bare(name), value) /\ b.layer = st.layer BY <1>1, SetIs
<1>3. PICK g : g = st.globals OBVIOUS
<1>4. PICK key : key = Bare(name) OBVIOUS
<1>5. PICK w : w = With(g, key, value) OBVIOUS
<1>6. slot # key => (slot \in DOMAIN w <=> slot \in DOMAIN g) /\ (slot \in DOMAIN g => w[slot] = g[slot])
  BY <1>5, WithIs
<1>7. Same(st, b, slot) BY <1>2, <1>3, <1>4, <1>5, <1>6 DEF Same
<1> QED BY <1>1, <1>7

LEMMA SetHere ==
  ASSUME NEW st, NEW name, NEW value, IsSlots(st)
  PROVE  /\ Bare(name) \in DOMAIN Set(st, name, value).globals
         /\ Set(st, name, value).globals[Bare(name)] = value
<1>1. PICK g, key : g = st.globals /\ key = Bare(name) OBVIOUS
<1>2. PICK w : w = With(g, key, value) OBVIOUS
<1>3. key \in DOMAIN w /\ w[key] = value BY <1>2, WithIs
<1>4. Set(st, name, value).globals = w BY <1>1, <1>2, SetIs
<1> QED BY <1>1, <1>3, <1>4

LEMMA SetStronger ==
  ASSUME NEW st, NEW name, NEW value, IsSlots(st), Layers(st), Bare(name) \notin DOMAIN st.layer
  PROVE  Stronger(st, Set(st, name, value)) /\ Layers(Set(st, name, value))
<1>1. PICK b : b = Set(st, name, value) OBVIOUS
<1>2. b.globals = With(st.globals, Bare(name), value) /\ b.layer = st.layer BY <1>1, SetIs
<1>3. \A slot \in DOMAIN st.layer : Same(st, b, slot) BY <1>1, SetElsewhere
<1>4. Layers(b) BY <1>2, <1>3 DEF Layers, Same
<1>5. Stronger(st, b) BY <1>2, <1>3 DEF Stronger, Same, Layers
<1> QED BY <1>1, <1>4, <1>5

LEMMA SameTrans ==
  ASSUME NEW a, NEW b, NEW c, NEW slot, Same(a, b, slot), Same(b, c, slot)
  PROVE  Same(a, c, slot)
BY DEF Same

LEMMA StrongerTrans ==
  ASSUME NEW a, NEW b, NEW c, Layers(a), Layers(b), Layers(c), Stronger(a, b), Stronger(b, c)
  PROVE  Stronger(a, c)
<1> SUFFICES ASSUME NEW slot \in DOMAIN a.layer
             PROVE  /\ slot \in DOMAIN c.layer
                    /\ \/ c.layer[slot].layer < a.layer[slot].layer
                       \/ c.layer[slot] = a.layer[slot] /\ c.globals[slot] \in {a.globals[slot], Ambiguous}
  BY DEF Stronger
<1>1. slot \in DOMAIN b.layer /\ slot \in DOMAIN c.layer BY DEF Stronger
<1>2. /\ a.layer[slot].layer \in 1..3 /\ b.layer[slot].layer \in 1..3 /\ c.layer[slot].layer \in 1..3
  BY <1>1 DEF Layers
<1>3. \/ b.layer[slot].layer < a.layer[slot].layer
      \/ b.layer[slot] = a.layer[slot] /\ b.globals[slot] \in {a.globals[slot], Ambiguous}
  BY DEF Stronger
<1>4. \/ c.layer[slot].layer < b.layer[slot].layer
      \/ c.layer[slot] = b.layer[slot] /\ c.globals[slot] \in {b.globals[slot], Ambiguous}
  BY <1>1 DEF Stronger
<1> QED BY <1>1, <1>2, <1>3, <1>4

-----------------------------------------------------------------------------
(* Linking: the slots of a module's own names, and of the paths. *)
LEMMA ReservedFill ==
  ASSUME NEW D, NEW st, NEW offered, NEW lay, NEW source, Reserved(D, st),
         \A n \in D : Bare(n) \notin DOMAIN offered
  PROVE  Reserved(D, Fill(st, offered, lay, source))
<1> SUFFICES ASSUME NEW n \in D PROVE Bare(n) \notin DOMAIN Fill(st, offered, lay, source).layer
  BY DEF Reserved
<1>1. Bare(n) \notin DOMAIN offered /\ Bare(n) \notin DOMAIN st.layer BY DEF Reserved
<1>2. ~Took(st, offered, lay, Bare(n)) BY <1>1 DEF Took
<1> QED BY <1>1, <1>2, FillIs

\* What imports offer to paths is what the paths name.
LEMMA PathsFill ==
  ASSUME NEW st, NEW offered, NEW lay, NEW source, Layers(st), Paths(st), lay = 1,
         \A m, x : Path(m, x) \in DOMAIN offered => offered[Path(m, x)] = ImportPath(m, x)
  PROVE  Paths(Fill(st, offered, lay, source))
<1>1. PICK f : f = Fill(st, offered, lay, source) OBVIOUS
<1> SUFFICES ASSUME NEW m \in DOMAIN Modules, NEW x \in Named(m), Path(m, x) \in DOMAIN f.layer
             PROVE  f.layer[Path(m, x)].layer = 1 /\ f.globals[Path(m, x)] = ImportPath(m, x)
  BY <1>1 DEF Paths
<1>2. PICK slot : slot = Path(m, x) OBVIOUS
<1>3. CASE Took(st, offered, lay, slot)
  <2>1. slot \in DOMAIN offered BY <1>3 DEF Took
  <2>2. f.globals[slot] = offered[slot] /\ f.layer[slot] = [layer |-> lay, source |-> source] BY <1>1, <1>3, FillIs
  <2> QED BY <1>2, <2>1, <2>2
<1>4. CASE ~Took(st, offered, lay, slot)
  <2>1. slot \in DOMAIN st.layer BY <1>1, <1>2, <1>4, FillIs
  <2>2. f.layer[slot] = st.layer[slot] BY <1>1, <1>4, <2>1, FillIs
  <2>3. st.layer[slot].layer = 1 /\ st.globals[slot] = ImportPath(m, x) BY <1>2, <2>1 DEF Paths
  <2>4. slot \in DOMAIN st.globals BY <2>1 DEF Layers
  <2>5. ~Clashed(st, offered, lay, source, slot) BY <1>2, <2>3 DEF Clashed, Clashes
  <2>6. Has(f.globals, slot, st.globals[slot]) BY <1>1, <1>4, <2>4, <2>5, FillNotTook
  <2> QED BY <1>2, <2>2, <2>3, <2>6 DEF Has
<1> QED BY <1>3, <1>4

LEMMA PathsSame ==
  ASSUME NEW a, NEW b, Layers(a), Paths(a), \A m, x : Same(a, b, Path(m, x))
  PROVE  Paths(b)
<1> SUFFICES ASSUME NEW m \in DOMAIN Modules, NEW x \in Named(m), Path(m, x) \in DOMAIN b.layer
             PROVE  b.layer[Path(m, x)].layer = 1 /\ b.globals[Path(m, x)] = ImportPath(m, x)
  BY DEF Paths
<1>1. Same(a, b, Path(m, x)) OBVIOUS
<1>2. Path(m, x) \in DOMAIN a.layer BY <1>1 DEF Same
<1>3. Path(m, x) \in DOMAIN a.globals BY <1>2 DEF Layers
<1> QED BY <1>1, <1>2, <1>3 DEF Same, Paths

LEMMA SoundSet ==
  ASSUME NEW D, NEW st, NEW name \in D, NEW value, Sound(D, st)
  PROVE  Sound(D, Set(st, name, value)) /\ Stronger(st, Set(st, name, value))
<1>1. PICK b : b = Set(st, name, value) OBVIOUS
<1>2. IsSlots(st) /\ Layers(st) /\ Reserved(D, st) /\ Paths(st) BY DEF Sound
<1>3. Bare(name) \notin DOMAIN st.layer BY <1>2 DEF Reserved
<1>4. Stronger(st, b) /\ Layers(b) BY <1>1, <1>2, <1>3, SetStronger
<1>5. IsSlots(b) /\ b.layer = st.layer BY <1>1, <1>2, SetIs
<1>6. Reserved(D, b) BY <1>2, <1>5 DEF Reserved
<1>7. \A m, x : Same(st, b, Path(m, x)) BY <1>1, <1>2, SetElsewhere, SlotsDiffer
<1>8. Paths(b) BY <1>2, <1>7, PathsSame
<1> QED BY <1>1, <1>4, <1>5, <1>6, <1>8 DEF Sound

\* An import touches the paths through its module only.
LEMMA SoundImport ==
  ASSUME NEW D, NEW st, NEW mod \in DOMAIN Modules, Sound(D, st)
  PROVE  /\ Sound(D, FillFromImport(st, mod)) /\ Stronger(st, FillFromImport(st, mod))
         /\ \A n : Same(st, FillFromImport(st, mod), Bare(n))
<1>1. PICK offered : offered = [slot \in {Path(mod, n) : n \in MembersOf(mod)} |-> Member(mod, slot[2])] OBVIOUS
<1>2. PICK lay : lay = 1 OBVIOUS
<1>3. PICK b : b = FillFromImport(st, mod) OBVIOUS
<1>4. b = Fill(st, offered, lay, mod) BY <1>1, <1>2, <1>3 DEF FillFromImport
<1>5. IsSlots(st) /\ Layers(st) /\ Reserved(D, st) /\ Paths(st) BY DEF Sound
<1>6. IsLayer(lay) BY <1>2 DEF IsLayer
<1>7. Stronger(st, b) /\ Layers(b) BY <1>4, <1>5, <1>6, FillStronger
<1>8. \A n : Bare(n) \notin DOMAIN offered BY <1>1, SlotsDiffer
<1>9. Reserved(D, b) BY <1>4, <1>5, <1>8, ReservedFill
<1>10. \A n : Same(st, b, Bare(n)) BY <1>4, <1>8, FillElsewhere
<1>11. ASSUME NEW m, NEW x, Path(m, x) \in DOMAIN offered PROVE offered[Path(m, x)] = ImportPath(m, x)
  <2>1. PICK n \in MembersOf(mod) : Path(m, x) = Path(mod, n) BY <1>1, <1>11
  <2>2. m = mod /\ x = n BY <2>1 DEF Path
  <2>3. offered[Path(m, x)] = Member(mod, Path(m, x)[2]) BY <1>1, <1>11
  <2> QED BY <2>2, <2>3, SlotsDiffer DEF ImportPath
<1>12. Paths(b) BY <1>2, <1>4, <1>5, <1>11, PathsFill
<1>13. IsSlots(b) BY <1>4, FillIsSlots
<1> QED BY <1>3, <1>7, <1>9, <1>10, <1>12, <1>13 DEF Sound

\* So does the import of a member by its path.
LEMMA SoundLeaf ==
  ASSUME NEW D, NEW st, NEW mod, NEW name, NEW source, Sound(D, st)
  PROVE  LET b == Fill(st, [slot \in {Path(mod, name)} |-> ImportPath(mod, name)], 1, source)
         IN  Sound(D, b) /\ Stronger(st, b) /\ \A n : Same(st, b, Bare(n))
<1>1. PICK offered : offered = [slot \in {Path(mod, name)} |-> ImportPath(mod, name)] OBVIOUS
<1>2. PICK lay : lay = 1 OBVIOUS
<1>3. PICK b : b = Fill(st, [slot \in {Path(mod, name)} |-> ImportPath(mod, name)], 1, source) OBVIOUS
<1>4. b = Fill(st, offered, lay, source) BY <1>1, <1>2, <1>3
<1>5. IsSlots(st) /\ Layers(st) /\ Reserved(D, st) /\ Paths(st) BY DEF Sound
<1>6. IsLayer(lay) BY <1>2 DEF IsLayer
<1>7. Stronger(st, b) /\ Layers(b) BY <1>4, <1>5, <1>6, FillStronger
<1>8. \A n : Bare(n) \notin DOMAIN offered BY <1>1, SlotsDiffer
<1>9. Reserved(D, b) BY <1>4, <1>5, <1>8, ReservedFill
<1>10. \A n : Same(st, b, Bare(n)) BY <1>4, <1>8, FillElsewhere
<1>11. ASSUME NEW m, NEW x, Path(m, x) \in DOMAIN offered PROVE offered[Path(m, x)] = ImportPath(m, x)
  <2>1. Path(m, x) = Path(mod, name) BY <1>1, <1>11
  <2>2. m = mod /\ x = name BY <2>1 DEF Path
  <2> QED BY <1>1, <2>1, <2>2
<1>12. Paths(b) BY <1>2, <1>4, <1>5, <1>11, PathsFill
<1>13. IsSlots(b) BY <1>4, FillIsSlots
<1>14. Sound(D, b) BY <1>7, <1>9, <1>12, <1>13 DEF Sound
<1> HIDE DEF Sound
<1> QED BY <1>3, <1>7, <1>10, <1>14

\* The builtins and the wildcards fill bare names that are free.
LEMMA SoundBare ==
  ASSUME NEW D, NEW st, NEW names, NEW offered, NEW lay, NEW source, Sound(D, st), IsLayer(lay),
         DOMAIN offered = {Bare(n) : n \in names}, names \cap D = {}
  PROVE  LET b == Fill(st, offered, lay, source)
         IN  /\ Sound(D, b) /\ Stronger(st, b)
             /\ \A n : n \notin names => Same(st, b, Bare(n))
<1>1. PICK b : b = Fill(st, offered, lay, source) OBVIOUS
<1>2. IsSlots(st) /\ Layers(st) /\ Reserved(D, st) /\ Paths(st) BY DEF Sound
<1>3. Stronger(st, b) /\ Layers(b) BY <1>1, <1>2, FillStronger
<1>4. \A n : Bare(n) \in DOMAIN offered <=> n \in names BY SlotsDiffer
<1>5. \A n \in D : Bare(n) \notin DOMAIN offered BY <1>4
<1>6. Reserved(D, b) BY <1>1, <1>2, <1>5, ReservedFill
<1>7. \A n : n \notin names => Same(st, b, Bare(n)) BY <1>1, <1>4, FillElsewhere
<1>8. \A m, x : Path(m, x) \notin DOMAIN offered BY SlotsDiffer
<1>9. \A m, x : Same(st, b, Path(m, x)) BY <1>1, <1>8, FillElsewhere
<1>10. Paths(b) BY <1>2, <1>9, PathsSame
<1>11. IsSlots(b) BY <1>1, FillIsSlots
<1>12. Sound(D, b) BY <1>3, <1>6, <1>10, <1>11 DEF Sound
<1> HIDE DEF Sound
<1> QED BY <1>1, <1>3, <1>7, <1>12

-----------------------------------------------------------------------------
(* Linking: a free name holds what the wildcards so far, or the builtins, say. *)
LEMMA FreeSame ==
  ASSUME NEW W, NEW a, NEW b, NEW n, FreeAt(W, a, n), Same(a, b, Bare(n))
  PROVE  FreeAt(W, b, n)
BY DEF FreeAt, Same

LEMMA MemberIs ==
  ASSUME NEW m, NEW n
  PROVE  Member(m, n) # Ambiguous /\ Member(m, n) # Unset /\ Member(m, n) # Error
BY DEF Member, Owned, Ambiguous, Unset, Error

LEMMA PicksMore ==
  ASSUME NEW W, NEW x, NEW v, Picks(W, x), v # Ambiguous, Ambiguous \notin W
  PROVE  Picks(W \cup {v}, IF x \in {v, Ambiguous} THEN x ELSE Ambiguous)
<1>1. CASE W = {x} /\ x = v BY <1>1 DEF Picks
<1>2. CASE W = {x} /\ x # v BY <1>2 DEF Picks
<1>3. CASE x = Ambiguous /\ \E u, w \in W : u # w BY <1>3 DEF Picks
<1> QED BY <1>1, <1>2, <1>3 DEF Picks

IsWildcards(lay) == lay = 2
IsBuiltins(lay) == lay = 3

\* One more wildcard import that offers the name.
LEMMA FreeStar ==
  ASSUME NEW W, NEW st, NEW n, NEW offered, NEW lay, NEW mod \in DOMAIN Modules,
         FreeAt(W, st, n), Ambiguous \notin W, IsWildcards(lay),
         Has(offered, Bare(n), Member(mod, n))
  PROVE  FreeAt(W \cup {Member(mod, n)}, Fill(st, offered, lay, mod), n)
<1>1. PICK b, slot, v : b = Fill(st, offered, lay, mod) /\ slot = Bare(n) /\ v = Member(mod, n) OBVIOUS
<1>2. v # Ambiguous BY <1>1, MemberIs
<1>3. W \cup {v} # {} OBVIOUS
<1>4. slot \in DOMAIN st.globals BY <1>1 DEF FreeAt
<1>5. CASE W # {}
  <2>1. /\ slot \in DOMAIN st.layer /\ st.layer[slot].layer = 2
        /\ Picks(W, st.globals[slot])
        /\ st.layer[slot].source \in DOMAIN Modules
        /\ st.globals[slot] \in {Member(st.layer[slot].source, n), Ambiguous}
    BY <1>1, <1>5 DEF FreeAt
  <2>2. ~Took(st, offered, lay, slot) BY <2>1 DEF Took, Takes, IsWildcards
  <2>3. slot \in DOMAIN b.globals /\ slot \in DOMAIN b.layer /\ b.layer[slot] = st.layer[slot]
    <3>1. Has(b.layer, slot, st.layer[slot]) BY <1>1, <1>4, <2>1, <2>2, FillNotTook
    <3>2. slot \in DOMAIN b.globals BY <1>1, <1>4, FillIs
    <3> QED BY <3>1, <3>2 DEF Has
  <2>4. PICK x : x = st.globals[slot] OBVIOUS
  <2>5. Clashed(st, offered, lay, mod, slot) <=> mod # st.layer[slot].source /\ x \notin {v, Ambiguous}
    <3>1. slot \in DOMAIN offered /\ offered[slot] = v BY <1>1 DEF Has
    <3>2. ~Takes(st, slot, lay) BY <2>2, <3>1 DEF Took
    <3> QED BY <2>1, <2>4, <3>1, <3>2 DEF Clashed, Clashes, IsWildcards
  <2>6. mod = st.layer[slot].source => x \in {v, Ambiguous} BY <1>1, <2>1, <2>4
  <2>7. b.globals[slot] = IF x \in {v, Ambiguous} THEN x ELSE Ambiguous
    <3>1. CASE x \in {v, Ambiguous}
      <4>1. b.globals[slot] = x BY <1>1, <1>4, <2>2, <2>4, <2>5, <3>1, FillIs
      <4> QED BY <3>1, <4>1
    <3>2. CASE x \notin {v, Ambiguous}
      <4>1. Clashed(st, offered, lay, mod, slot) BY <2>5, <2>6, <3>2
      <4>2. b.globals[slot] = Ambiguous BY <1>1, <1>4, <2>2, <4>1, FillIs
      <4> QED BY <3>2, <4>2
    <3> QED BY <3>1, <3>2
  <2>8. Picks(W \cup {v}, b.globals[slot]) BY <1>2, <2>1, <2>4, <2>7, PicksMore
  <2>9. b.globals[slot] \in {Member(b.layer[slot].source, n), Ambiguous} BY <2>1, <2>3, <2>4, <2>7
  <2> QED BY <1>1, <1>3, <2>1, <2>3, <2>8, <2>9 DEF FreeAt
<1>6. CASE W = {}
  <2>1. slot \in DOMAIN st.layer => st.layer[slot].layer = 3 BY <1>1, <1>6 DEF FreeAt
  <2>2. Took(st, offered, lay, slot) BY <1>1, <2>1 DEF Took, Takes, IsWildcards, Has
  <2>3. slot \in DOMAIN b.globals /\ slot \in DOMAIN b.layer BY <1>1, <2>2, FillIs
  <2>4. b.globals[slot] = v
    <3>1. Has(b.globals, slot, offered[slot]) BY <1>1, <2>2, FillTook
    <3>2. offered[slot] = v BY <1>1 DEF Has
    <3> QED BY <3>1, <3>2 DEF Has
  <2>5. b.layer[slot] = [layer |-> lay, source |-> mod] BY <1>1, <2>2, FillIs
  <2>6. Picks(W \cup {v}, v) BY <1>6 DEF Picks
  <2> QED BY <1>1, <1>3, <2>3, <2>4, <2>5, <2>6 DEF FreeAt, IsWildcards
<1> QED BY <1>1, <1>5, <1>6

\* A slot nothing has filled, and the builtins.
LEMMA FreeBuiltin ==
  ASSUME NEW st, NEW n, NEW offered, NEW lay, NEW source, IsSlots(st), IsBuiltins(lay),
         Bare(n) \in DOMAIN st.globals, st.globals[Bare(n)] = Unset, DOMAIN st.layer = {},
         Bare(n) \in DOMAIN offered <=> n \in DOMAIN Builtins,
         n \in DOMAIN Builtins => Has(offered, Bare(n), Owned(Builtins[n]))
  PROVE  FreeAt({}, Fill(st, offered, lay, source), n)
<1>1. PICK b, slot : b = Fill(st, offered, lay, source) /\ slot = Bare(n) OBVIOUS
<1>2. CASE n \in DOMAIN Builtins
  <2>1. Took(st, offered, lay, slot) BY <1>1, <1>2 DEF Took, Takes
  <2>2. slot \in DOMAIN b.globals /\ slot \in DOMAIN b.layer BY <1>1, <2>1, FillIs
  <2>3. Has(b.globals, slot, offered[slot]) BY <1>1, <2>1, FillTook
  <2>4. b.layer[slot] = [layer |-> lay, source |-> source] BY <1>1, <2>1, FillIs
  <2>5. offered[slot] = Owned(Builtins[n]) BY <1>1, <1>2 DEF Has
  <2> QED BY <1>1, <1>2, <2>2, <2>3, <2>4, <2>5 DEF FreeAt, IsBuiltins, Has
<1>3. CASE n \notin DOMAIN Builtins
  <2>1. slot \notin DOMAIN offered BY <1>1, <1>3
  <2>2. Same(st, b, slot) BY <1>1, <2>1, FillElsewhere
  <2> QED BY <1>1, <1>3, <2>2 DEF FreeAt, Same
<1> QED BY <1>1, <1>2, <1>3

-----------------------------------------------------------------------------
(* Linking: what one more statement says. *)
LEMMA ExplicitGrows ==
  ASSUME NEW engine, NEW ran, NEW s, NEW n
  PROVE  Explicit(engine, ran \cup {s}, n) = Explicit(engine, ran, n) \cup Explicit(engine, {s}, n)
BY DEF Explicit
\* Values are none of the marks.
Marks == {Ambiguous, Unset, Error}
LEMMA MarksAre == \A v \in Marks : v.is \in {"ambiguous", "unset", "error"}
<1>1. Ambiguous.is = "ambiguous" BY DEF Ambiguous
<1>2. Unset.is = "unset" BY DEF Unset
<1>3. Error.is = "error" BY DEF Error
<1> QED BY <1>1, <1>2, <1>3 DEF Marks
LEMMA ValuesAre ==
  /\ \A x : Declaration(x).is = "own" /\ Owned(x).is = "value" /\ Module(x).is = "module"
  /\ \A m, x : Method(m, x).is = "method" /\ Member(m, x).is = "value"
BY DEF Declaration, Owned, Module, Method, Member
LEMMA OpsAre ==
  \A x : /\ Declare(x).op = "var" /\ Define(x).op = "fn"
         /\ Declare(x).name = x /\ Define(x).name = x /\ Declare(x).as = x
BY DEF Declare, Define
LEMMA WildcardValues == ASSUME NEW ran, NEW n PROVE Wildcard(ran, n) \cap Marks = {}
BY MarksAre, ValuesAre DEF Wildcard
LEMMA ImportPathIs ==
  ASSUME NEW s, WellFormed(s), s.op \in {"item", "leaf"}
  PROVE  ImportPath(s.mod, s.name).is \in {"value", "method"}
<1>1. s # Declare(s.name) /\ s # Define(s.name)
  <2>1. s = Declare(s.name) => s.op = "var" BY OpsAre
  <2>2. s = Define(s.name) => s.op = "fn" BY OpsAre
  <2> QED BY <2>1, <2>2
<1>2. s.mod \in DOMAIN Modules /\ s.name \in Named(s.mod) BY <1>1 DEF WellFormed, Named
<1>3. CASE s.name \in MembersOf(s.mod) BY <1>3, ValuesAre DEF ImportPath
<1>4. CASE s.name \notin MembersOf(s.mod)
  <2>1. s.name \in MessagesOf(s.mod) BY <1>2, <1>4 DEF Named
  <2>2. PICK v : v = MessageIn(s.mod, s.name) OBVIOUS
  <2>3. v = Method(v.owner, v.of) BY <1>2, <2>1, <2>2, LinkingAssumption
  <2>4. v.is = "method" BY <2>3, ValuesAre
  <2> QED BY <1>4, <2>2, <2>4 DEF ImportPath
<1> QED BY <1>3, <1>4
LEMMA ExplicitValues ==
  ASSUME NEW engine, NEW ran, NEW n, \A s \in ran : WellFormed(s)
  PROVE  Explicit(engine, ran, n) \cap Marks = {}
<1> SUFFICES ASSUME NEW v \in Explicit(engine, ran, n) PROVE v.is \in {"own", "value", "method", "module"}
  BY MarksAre
<1>1. CASE v = Declaration(n) BY <1>1, ValuesAre
<1>2. CASE \E s \in ran : s.op \in {"item", "leaf"} /\ v = ImportPath(s.mod, s.name) BY <1>2, ImportPathIs
<1>3. CASE \E s \in ran : v = Module(s.mod) BY <1>3, ValuesAre
<1> QED BY <1>1, <1>2, <1>3 DEF Explicit

-----------------------------------------------------------------------------
(* Linking: what a step of the VM does to the slots. *)
Imported(st, s) ==
  LET a    == FillFromImport(st, s.mod)
      leaf == ImportPath(s.mod, s.name)
      path == Path(s.mod, s.name)
  IN  IF s.op # "leaf" THEN Set(a, s.as, Module(s.mod))
      ELSE Set(Set(Fill(a, [slot \in {path} |-> leaf], 1, path), s.mod, Module(s.mod)), s.as, leaf)

LEMMA SoundIs == ASSUME NEW D, NEW st, Sound(D, st) PROVE IsSlots(st) /\ Layers(st)
BY DEF Sound

LEMMA ImportStep ==
  ASSUME NEW D, NEW st, Sound(D, st), NEW s, s.mod \in DOMAIN Modules, s.mod \in D, s.as \in D
  PROVE  /\ Sound(D, Imported(st, s)) /\ Stronger(st, Imported(st, s))
         /\ \A n : n \notin {s.mod, s.as} => Same(st, Imported(st, s), Bare(n))
         /\ s.op # "leaf" => Has(Imported(st, s).globals, Bare(s.as), Module(s.mod))
         /\ s.op = "leaf" => Has(Imported(st, s).globals, Bare(s.as), ImportPath(s.mod, s.name))
<1>1. PICK a : a = FillFromImport(st, s.mod) OBVIOUS
<1>2. Sound(D, a) /\ Stronger(st, a) /\ \A n : Same(st, a, Bare(n)) BY <1>1, SoundImport
<1>3. PICK b : b = Imported(st, s) OBVIOUS
<1>4. CASE s.op # "leaf"
  <2>1. b = Set(a, s.as, Module(s.mod)) BY <1>1, <1>3, <1>4 DEF Imported
  <2>2. Sound(D, b) /\ Stronger(a, b) BY <1>2, <2>1, SoundSet
  <2>3. \A n : n # s.as => Same(a, b, Bare(n)) BY <1>2, <2>1, SoundIs, SetElsewhere, SlotsDiffer
  <2>4. Has(b.globals, Bare(s.as), Module(s.mod)) BY <1>2, <2>1, SoundIs, SetHere DEF Has
  <2>5. \A n : n \notin {s.mod, s.as} => Same(st, b, Bare(n)) BY <1>2, <2>3, SameTrans
  <2>6. Stronger(st, b) BY <1>2, <2>2, SoundIs, StrongerTrans
  <2> QED BY <1>3, <1>4, <2>2, <2>4, <2>5, <2>6
<1>5. CASE s.op = "leaf"
  <2>1. PICK leaf, path : leaf = ImportPath(s.mod, s.name) /\ path = Path(s.mod, s.name) OBVIOUS
  <2>2. PICK c : c = Fill(a, [slot \in {Path(s.mod, s.name)} |-> ImportPath(s.mod, s.name)], 1, path) OBVIOUS
  <2>3. PICK d : d = Set(c, s.mod, Module(s.mod)) OBVIOUS
  <2>4. b = Set(d, s.as, leaf) BY <1>1, <1>3, <1>5, <2>1, <2>2, <2>3 DEF Imported
  <2>5. Sound(D, c) /\ Stronger(a, c) /\ \A n : Same(a, c, Bare(n)) BY <1>2, <2>2, SoundLeaf
  <2>6. Sound(D, d) /\ Stronger(c, d) BY <2>3, <2>5, SoundSet
  <2>7. Sound(D, b) /\ Stronger(d, b) BY <2>4, <2>6, SoundSet
  <2>8. \A n : n # s.mod => Same(c, d, Bare(n)) BY <2>3, <2>5, SoundIs, SetElsewhere, SlotsDiffer
  <2>9. \A n : n # s.as => Same(d, b, Bare(n)) BY <2>4, <2>6, SoundIs, SetElsewhere, SlotsDiffer
  <2>10. Has(b.globals, Bare(s.as), leaf) BY <2>4, <2>6, SoundIs, SetHere DEF Has
  <2>11. \A n : Same(st, c, Bare(n)) BY <1>2, <2>5, SameTrans
  <2>12. \A n : n # s.mod => Same(st, d, Bare(n)) BY <2>8, <2>11, SameTrans
  <2>13. \A n : n \notin {s.mod, s.as} => Same(st, b, Bare(n)) BY <2>9, <2>12, SameTrans
  <2>14. Stronger(st, c) BY <1>2, <2>5, SoundIs, StrongerTrans
  <2>15. Stronger(st, d) BY <2>5, <2>6, <2>14, SoundIs, StrongerTrans
  <2>16. Stronger(st, b) BY <2>6, <2>7, <2>15, SoundIs, StrongerTrans
  <2> QED BY <1>3, <1>5, <2>1, <2>7, <2>10, <2>13, <2>16
<1> QED BY <1>4, <1>5

Starred(st, mod, open) ==
  Fill(Set(FillFromImport(st, mod), mod, Module(mod)),
       [slot \in {Bare(n) : n \in open} |-> Member(mod, slot[1])], 2, mod)
LEMMA StarStep ==
  ASSUME NEW D, NEW st, Sound(D, st), NEW mod \in DOMAIN Modules, mod \in D, NEW open, open \cap D = {}
  PROVE  /\ Sound(D, Starred(st, mod, open)) /\ Stronger(st, Starred(st, mod, open))
         /\ \A n : n \notin open /\ n # mod => Same(st, Starred(st, mod, open), Bare(n))
         /\ \A W, n : n \in open /\ FreeAt(W, st, n) /\ Ambiguous \notin W =>
              FreeAt(W \cup {Member(mod, n)}, Starred(st, mod, open), n)
<1>1. PICK a, c : a = FillFromImport(st, mod) /\ c = Set(a, mod, Module(mod)) OBVIOUS
<1>2. PICK offered : offered = [slot \in {Bare(n) : n \in open} |-> Member(mod, slot[1])] OBVIOUS
<1>3. PICK lay : lay = 2 OBVIOUS
<1>4. PICK b : b = Fill(c, offered, lay, mod) OBVIOUS
<1>5. b = Starred(st, mod, open) BY <1>1, <1>2, <1>3, <1>4 DEF Starred
<1>6. IsLayer(lay) /\ IsWildcards(lay) BY <1>3 DEF IsLayer, IsWildcards
<1>7. DOMAIN offered = {Bare(n) : n \in open} BY <1>2
<1>8. ASSUME NEW n \in open PROVE Has(offered, Bare(n), Member(mod, n))
  <2>1. Bare(n) \in DOMAIN offered BY <1>7
  <2>2. offered[Bare(n)] = Member(mod, Bare(n)[1]) BY <1>2
  <2> QED BY <2>1, <2>2, SlotsDiffer DEF Has
<1> HIDE <1>2, <1>3
<1>9. Sound(D, a) /\ Stronger(st, a) /\ \A n : Same(st, a, Bare(n)) BY <1>1, SoundImport
<1>10. Sound(D, c) /\ Stronger(a, c) BY <1>1, <1>9, SoundSet
<1>11. Sound(D, b) /\ Stronger(c, b) /\ \A n : n \notin open => Same(c, b, Bare(n))
  BY <1>4, <1>6, <1>7, <1>10, SoundBare
<1>12. \A n : n # mod => Same(a, c, Bare(n)) BY <1>1, <1>9, SoundIs, SetElsewhere, SlotsDiffer
<1>13. \A n : n # mod => Same(st, c, Bare(n)) BY <1>9, <1>12, SameTrans
<1>14. \A n : n \notin open /\ n # mod => Same(st, b, Bare(n)) BY <1>11, <1>13, SameTrans
<1>15. Stronger(st, c) BY <1>9, <1>10, SoundIs, StrongerTrans
<1>16. Stronger(st, b) BY <1>10, <1>11, <1>15, SoundIs, StrongerTrans
<1>17. ASSUME NEW W, NEW n \in open, FreeAt(W, st, n), Ambiguous \notin W
       PROVE  FreeAt(W \cup {Member(mod, n)}, b, n)
  <2>1. n # mod OBVIOUS
  <2>2. FreeAt(W, c, n) BY <1>13, <1>17, <2>1, FreeSame
  <2> QED BY <1>4, <1>6, <1>8, <1>17, <2>2, FreeStar
<1> QED BY <1>5, <1>11, <1>14, <1>16, <1>17

\* The slots of a module just loaded.
Loaded(slots, names) ==
  Fill([globals |-> [slot \in slots |-> Unset], layer |-> <<>>],
       [slot \in {Bare(n) : n \in names} |-> Owned(Builtins[slot[1]])], 3, "builtins")
LEMMA LoadStep ==
  ASSUME NEW D, NEW slots, NEW F, F \cap D = {}, \A n \in D \cup F : Bare(n) \in slots
  PROVE  LET b == Loaded(slots, F \cap DOMAIN Builtins)
         IN  /\ Sound(D, b)
             /\ \A n \in F : FreeAt({}, b, n)
             /\ \A n \in D : Has(b.globals, Bare(n), Unset)
<1>1. PICK st : st = [globals |-> [slot \in slots |-> Unset], layer |-> <<>>] OBVIOUS
<1>2. PICK names : names = F \cap DOMAIN Builtins OBVIOUS
<1>3. PICK offered : offered = [slot \in {Bare(n) : n \in names} |-> Owned(Builtins[slot[1]])] OBVIOUS
<1>4. PICK lay, source : lay = 3 /\ source = "builtins" OBVIOUS
<1>5. PICK b : b = Fill(st, offered, lay, source) OBVIOUS
<1>6. b = Loaded(slots, F \cap DOMAIN Builtins) BY <1>1, <1>2, <1>3, <1>4, <1>5 DEF Loaded
<1>7. IsLayer(lay) /\ IsBuiltins(lay) BY <1>4 DEF IsLayer, IsBuiltins
<1>8. DOMAIN offered = {Bare(n) : n \in names} BY <1>3
<1>9. ASSUME NEW n \in names PROVE Has(offered, Bare(n), Owned(Builtins[n]))
  <2>1. Bare(n) \in DOMAIN offered BY <1>8
  <2>2. offered[Bare(n)] = Owned(Builtins[Bare(n)[1]]) BY <1>3, <2>1
  <2> QED BY <2>1, <2>2, SlotsDiffer DEF Has
<1>10. \A n : Bare(n) \in DOMAIN offered <=> n \in names BY <1>8, SlotsDiffer
<1>11. DOMAIN st.layer = {} BY <1>1
<1>12. IsSlots(st) BY <1>1 DEF IsSlots
<1>13. Sound(D, st) BY <1>11, <1>12 DEF Sound, Layers, Reserved, Paths
<1>14. \A slot \in slots : slot \in DOMAIN st.globals /\ st.globals[slot] = Unset BY <1>1
<1>15. names \cap D = {} BY <1>2
<1>16. Sound(D, b) /\ \A n : n \notin names => Same(st, b, Bare(n))
  BY <1>5, <1>7, <1>8, <1>13, <1>15, SoundBare
<1>17. ASSUME NEW n \in F PROVE FreeAt({}, b, n)
  <2>1. Bare(n) \in DOMAIN st.globals /\ st.globals[Bare(n)] = Unset BY <1>14
  <2>2. n \in names <=> n \in DOMAIN Builtins BY <1>2
  <2>3. n \in DOMAIN Builtins => Has(offered, Bare(n), Owned(Builtins[n])) BY <1>9, <2>2
  <2>4. Bare(n) \in DOMAIN offered <=> n \in DOMAIN Builtins BY <1>10, <2>2
  <2> QED BY <1>5, <1>7, <1>11, <1>12, <2>1, <2>3, <2>4, FreeBuiltin
<1>18. ASSUME NEW n \in D PROVE Has(b.globals, Bare(n), Unset)
  <2>1. Bare(n) \in DOMAIN st.globals /\ st.globals[Bare(n)] = Unset BY <1>14
  <2>2. Same(st, b, Bare(n)) BY <1>15, <1>16
  <2> QED BY <2>1, <2>2 DEF Same, Has
<1> QED BY <1>6, <1>16, <1>17, <1>18

-----------------------------------------------------------------------------
(* Linking: the slots through a run of the VM. *)
LEMMA OpsOf ==
  ASSUME NEW s, WellFormed(s)
  PROVE  /\ IsImport(s) => s.mod \in DOMAIN Modules
         /\ IsImport(s) /\ s.op \in {"item", "leaf"} => s.name \in Named(s.mod)
         /\ ~IsImport(s) => s = Declare(s.name) \/ s = Define(s.name)
<1>1. ASSUME IsImport(s) PROVE s # Declare(s.name) /\ s # Define(s.name)
  <2>1. s = Declare(s.name) => s.op = "var" BY OpsAre
  <2>2. s = Define(s.name) => s.op = "fn" BY OpsAre
  <2> QED BY <1>1, <2>1, <2>2 DEF IsImport
<1> QED BY <1>1 DEF WellFormed, Named

LEMMA DeclaredIs ==
  ASSUME NEW s \in Statement, WellFormed(s)
  PROVE  /\ IsImport(s) => s.mod \in Declared
         /\ IsImport(s) /\ s.op # "star" => s.as \in Declared
         /\ s.op = "var" => s.name \in Declared
<1>1. IsImport(s) => s.mod \in Declared BY DEF Declared
<1>2. s.op \notin {"star", "fn"} => s.as \in Declared BY DEF Declared
<1>3. IsImport(s) => s.op # "fn" BY DEF IsImport
<1>4. ASSUME s.op = "var" PROVE s.as = s.name
  <2>1. ~IsImport(s) BY <1>4 DEF IsImport
  <2>2. s = Define(s.name) => s.op = "fn" BY OpsAre
  <2>3. s = Declare(s.name) BY <1>4, <2>1, <2>2, OpsOf
  <2>4. s.as = s.name BY <2>3, OpsAre
  <2> QED BY <2>4
<1> QED BY <1>1, <1>2, <1>3, <1>4

\* What is run, of the statement at its place.
LEMMA RunsIs ==
  ASSUME TodoInv, NEW p \in Compiled
  PROVE  /\ program[p[2]] \in Statement /\ WellFormed(program[p[2]])
         /\ p[1] = 1 => IsImport(program[p[2]])
         /\ p[1] = 2 => program[p[2]].op = "item"
         /\ p[1] = 3 => ~IsImport(program[p[2]])
<1>1. \/ p \in {<<1, i>> : i \in {i \in DOMAIN program : IsImport(program[i])}}
      \/ p \in {<<2, i>> : i \in {i \in DOMAIN program : program[i].op = "item"}}
      \/ p \in {<<3, i>> : i \in {i \in DOMAIN program : ~IsImport(program[i])}}
  BY DEF Compiled
<1>2. \E i \in DOMAIN program : \/ p = <<1, i>> /\ IsImport(program[i])
                                \/ p = <<2, i>> /\ program[i].op = "item"
                                \/ p = <<3, i>> /\ ~IsImport(program[i])
  BY <1>1
<1>3. PICK i \in DOMAIN program : \/ p = <<1, i>> /\ IsImport(program[i])
                                  \/ p = <<2, i>> /\ program[i].op = "item"
                                  \/ p = <<3, i>> /\ ~IsImport(program[i])
  BY <1>2
<1>4. p[2] = i BY <1>3
<1>5. WellFormed(program[i]) BY LinkingAssumption DEF TodoInv
<1>6. /\ p[1] = 1 => IsImport(program[i])
      /\ p[1] = 2 => program[i].op = "item"
      /\ p[1] = 3 => ~IsImport(program[i])
  BY <1>3
<1> QED BY <1>4, <1>5, <1>6 DEF Statement

\* The slots after the statement `s` of the pass `pass`, when the pass ends.
SlotsAfter(pass, s, a, b) ==
  \/ pass = 1 /\ s.op = "item" /\ b = Imported(a, Whole(s.mod, s.mod))
  \/ pass = 1 /\ s.op \notin {"star", "item"} /\ b = Imported(a, s)
  \/ pass = 1 /\ s.op = "star"
     /\ b = Starred(a, s.mod, (FreeNames \cap WildcardExports(s.mod)) \ s.excepts)
  \/ pass = 2 /\ Path(s.mod, s.name) \in DOMAIN a.layer
     /\ b = Set(a, s.as, a.globals[Path(s.mod, s.name)])
  \/ pass = 3 /\ s.op = "var" /\ b = Set(a, s.name, Declaration(s.name))
  \/ pass = 3 /\ s.op = "fn" /\ b = a
\* What that means for a name nothing declares, and for one that is declared.
FreeGrows(s, a, b) ==
  \A ran : \A n \in FreeNames :
     FreeAt(Wildcard(ran, n), a, n) => FreeAt(Wildcard(ran \cup {s}, n), b, n)
Bound(p, s, a, b) ==
  \A n \in Declared \ DOMAIN Modules :
     IF Binds(p, n) THEN \E v \in Explicit("vm", {s}, n) : Has(b.globals, Bare(n), v)
     ELSE Same(a, b, Bare(n))

LEMMA StarIs ==
  ASSUME NEW s, NEW ran, NEW n, s.op # "star" PROVE Wildcard(ran \cup {s}, n) = Wildcard(ran, n)
BY DEF Wildcard
LEMMA StarMisses ==
  ASSUME NEW s, NEW ran, NEW n, n \notin WildcardExports(s.mod) \ s.excepts
  PROVE  Wildcard(ran \cup {s}, n) = Wildcard(ran, n)
BY DEF Wildcard
LEMMA FreeUntouched ==
  ASSUME NEW s, s.op # "star", NEW a, NEW b, \A n \in FreeNames : Same(a, b, Bare(n))
  PROVE  FreeGrows(s, a, b)
<1> SUFFICES ASSUME NEW ran, NEW n \in FreeNames, FreeAt(Wildcard(ran, n), a, n)
             PROVE  FreeAt(Wildcard(ran \cup {s}, n), b, n)
  BY DEF FreeGrows
<1>1. Wildcard(ran \cup {s}, n) = Wildcard(ran, n) BY StarIs
<1>2. FreeAt(Wildcard(ran, n), b, n) BY FreeSame
<1> QED BY <1>1, <1>2

LEMMA SlotsImported ==
  ASSUME TodoInv, Sound(Declared, Slots), NEW p \in Compiled, NEW s, s = program[p[2]], NEW b,
         p[1] = 1, s.op # "star", b = Imported(Slots, IF s.op = "item" THEN Whole(s.mod, s.mod) ELSE s)
  PROVE  Sound(Declared, b) /\ Stronger(Slots, b) /\ FreeGrows(s, Slots, b) /\ Bound(p, s, Slots, b)
<1>1. PICK t : t = IF s.op = "item" THEN Whole(s.mod, s.mod) ELSE s OBVIOUS
<1>2. s \in Statement /\ WellFormed(s) /\ IsImport(s) BY RunsIs
<1>3. s.mod \in DOMAIN Modules /\ s.mod \in Declared /\ s.as \in Declared BY <1>2, OpsOf, DeclaredIs
<1>4. t.mod = s.mod /\ t.as \in {s.as, s.mod} /\ (s.op # "item" => t = s) /\ (s.op = "item" => t.op = "whole" /\ t.as = s.mod)
  BY <1>1 DEF Whole
<1>5. /\ Sound(Declared, b) /\ Stronger(Slots, b)
      /\ \A n : n \notin {t.mod, t.as} => Same(Slots, b, Bare(n))
      /\ t.op # "leaf" => Has(b.globals, Bare(t.as), Module(t.mod))
      /\ t.op = "leaf" => Has(b.globals, Bare(t.as), ImportPath(t.mod, t.name))
  <2>1. b = Imported(Slots, t) BY <1>1
  <2>2. t.mod \in DOMAIN Modules /\ t.mod \in Declared /\ t.as \in Declared BY <1>3, <1>4
  <2> QED BY <2>1, <2>2, ImportStep
<1>6. FreeGrows(s, Slots, b)
  <2>1. \A n \in FreeNames : Same(Slots, b, Bare(n)) BY <1>3, <1>4, <1>5 DEF FreeNames
  <2> QED BY <2>1, FreeUntouched
<1>7. ASSUME NEW n \in Declared \ DOMAIN Modules
      PROVE  /\ Binds(p, n) => \E v \in Explicit("vm", {s}, n) : Has(b.globals, Bare(n), v)
             /\ ~Binds(p, n) => Same(Slots, b, Bare(n))
  <2>1. Binds(p, n) <=> s.op \in {"leaf", "whole", "static"} /\ s.as = n BY DEF Binds
  <2>2. CASE s.op = "item"
    <3>1. n \notin {t.mod, t.as} BY <1>3, <1>4, <2>2
    <3> QED BY <1>5, <2>1, <2>2, <3>1
  <2>3. CASE s.op # "item" /\ s.as # n
    <3>1. n \notin {t.mod, t.as} BY <1>3, <1>4, <2>3
    <3> QED BY <1>5, <2>1, <2>3, <3>1
  <2>4. CASE s.op = "leaf" /\ s.as = n
    <3>1. Has(b.globals, Bare(n), ImportPath(s.mod, s.name)) BY <1>4, <1>5, <2>4
    <3>2. ImportPath(s.mod, s.name) \in Explicit("vm", {s}, n) BY <2>4 DEF Explicit
    <3> QED BY <2>1, <2>4, <3>1, <3>2
  <2>5. CASE s.op \in {"whole", "static"} /\ s.as = n
    <3>1. Has(b.globals, Bare(n), Module(s.mod)) BY <1>4, <1>5, <2>5
    <3>2. Module(s.mod) \in Explicit("vm", {s}, n) BY <2>5 DEF Explicit
    <3> QED BY <2>1, <2>5, <3>1, <3>2
  <2> QED BY <1>2, <2>2, <2>3, <2>4, <2>5 DEF IsImport
<1>8. Bound(p, s, Slots, b) BY <1>7 DEF Bound
<1> QED BY <1>5, <1>6, <1>8

LEMMA SlotsStarred ==
  ASSUME TodoInv, Sound(Declared, Slots), NEW p \in Compiled, NEW s, s = program[p[2]], NEW b,
         p[1] = 1, s.op = "star",
         b = Starred(Slots, s.mod, (FreeNames \cap WildcardExports(s.mod)) \ s.excepts)
  PROVE  Sound(Declared, b) /\ Stronger(Slots, b) /\ FreeGrows(s, Slots, b) /\ Bound(p, s, Slots, b)
<1>1. PICK open : open = (FreeNames \cap WildcardExports(s.mod)) \ s.excepts OBVIOUS
<1>2. s \in Statement /\ WellFormed(s) /\ IsImport(s) BY RunsIs
<1>3. s.mod \in DOMAIN Modules /\ s.mod \in Declared BY <1>2, OpsOf, DeclaredIs
<1>4. open \cap Declared = {} BY <1>1 DEF FreeNames
<1>5. /\ Sound(Declared, b) /\ Stronger(Slots, b)
      /\ \A n : n \notin open /\ n # s.mod => Same(Slots, b, Bare(n))
      /\ \A W, n : n \in open /\ FreeAt(W, Slots, n) /\ Ambiguous \notin W =>
           FreeAt(W \cup {Member(s.mod, n)}, b, n)
  <2>1. PICK mod : mod = s.mod OBVIOUS
  <2>2. b = Starred(Slots, mod, open) BY <1>1, <2>1
  <2>3. mod \in DOMAIN Modules /\ mod \in Declared BY <1>3, <2>1
  <2>4. Sound(Declared, b) /\ Stronger(Slots, b) BY <1>4, <2>2, <2>3, StarStep
  <2>5. ASSUME NEW n, n \notin open, n # mod PROVE Same(Slots, b, Bare(n))
    BY <1>4, <2>2, <2>3, <2>5, StarStep
  <2>6. ASSUME NEW W, NEW n \in open, FreeAt(W, Slots, n), Ambiguous \notin W
        PROVE  FreeAt(W \cup {Member(mod, n)}, b, n)
    BY <1>4, <2>2, <2>3, <2>6, StarStep
  <2>7. \A n : n \notin open /\ n # s.mod => Same(Slots, b, Bare(n)) BY <2>1, <2>5
  <2>8. \A W, n : n \in open /\ FreeAt(W, Slots, n) /\ Ambiguous \notin W =>
          FreeAt(W \cup {Member(s.mod, n)}, b, n)
    BY <2>1, <2>6
  <2> QED BY <2>4, <2>7, <2>8
<1>6. ASSUME NEW ran, NEW n \in FreeNames, FreeAt(Wildcard(ran, n), Slots, n)
      PROVE  FreeAt(Wildcard(ran \cup {s}, n), b, n)
  <2>1. CASE n \in open
    <3>1. Wildcard(ran \cup {s}, n) = Wildcard(ran, n) \cup {Member(s.mod, n)}
      <4>1. n \in WildcardExports(s.mod) \ s.excepts BY <1>1, <2>1
      <4> HIDE <1>1
      <4> QED BY <4>1 DEF Wildcard
    <3>2. Ambiguous \notin Wildcard(ran, n) BY WildcardValues DEF Marks
    <3> QED BY <1>5, <1>6, <2>1, <3>1, <3>2
  <2>2. CASE n \notin open
    <3>1. n \notin WildcardExports(s.mod) \ s.excepts BY <1>1, <2>2
    <3>2. Wildcard(ran \cup {s}, n) = Wildcard(ran, n) BY <3>1, StarMisses
    <3>3. n # s.mod BY <1>3 DEF FreeNames
    <3> QED BY <1>5, <1>6, <2>2, <3>2, <3>3, FreeSame
  <2> QED BY <2>1, <2>2
<1>7. FreeGrows(s, Slots, b) BY <1>6 DEF FreeGrows
<1>8. ASSUME NEW n \in Declared \ DOMAIN Modules PROVE ~Binds(p, n) /\ Same(Slots, b, Bare(n))
  <2>1. ~Binds(p, n) BY DEF Binds
  <2>2. n \notin open /\ n # s.mod BY <1>3, <1>4
  <2> QED BY <1>5, <2>1, <2>2
<1>9. Bound(p, s, Slots, b) BY <1>8 DEF Bound
<1> QED BY <1>5, <1>7, <1>9

\* A name bound by `set`: that of a value out of a module, or of a variable.
LEMMA SlotsSet ==
  ASSUME Sound(Declared, Slots), NEW p, NEW s, s.op # "star", NEW b, NEW name \in Declared, NEW value,
         b = Set(Slots, name, value), value \in Explicit("vm", {s}, name),
         \A n : Binds(p, n) <=> n = name
  PROVE  Sound(Declared, b) /\ Stronger(Slots, b) /\ FreeGrows(s, Slots, b) /\ Bound(p, s, Slots, b)
<1>1. IsSlots(Slots) BY SoundIs
<1>2. Sound(Declared, b) /\ Stronger(Slots, b) BY SoundSet
<1>3. \A n : n # name => Same(Slots, b, Bare(n)) BY <1>1, SetElsewhere, SlotsDiffer
<1>4. Has(b.globals, Bare(name), value) BY <1>1, SetHere DEF Has
<1>5. \A n \in FreeNames : Same(Slots, b, Bare(n)) BY <1>3 DEF FreeNames
<1>6. FreeGrows(s, Slots, b) BY <1>5, FreeUntouched
<1>7. Bound(p, s, Slots, b) BY <1>3, <1>4 DEF Bound
<1> QED BY <1>2, <1>6, <1>7

LEMMA SlotsAfterIs ==
  ASSUME TodoInv, Sound(Declared, Slots), NEW p \in Compiled, NEW s, s = program[p[2]], NEW b,
         SlotsAfter(p[1], s, Slots, b)
  PROVE  Sound(Declared, b) /\ Stronger(Slots, b) /\ FreeGrows(s, Slots, b) /\ Bound(p, s, Slots, b)
<1>1. s \in Statement /\ WellFormed(s) BY RunsIs
<1>2. CASE p[1] = 1 /\ s.op = "item" /\ b = Imported(Slots, Whole(s.mod, s.mod))
  <2>1. b = Imported(Slots, IF s.op = "item" THEN Whole(s.mod, s.mod) ELSE s) BY <1>2
  <2>2. p[1] = 1 /\ s.op # "star" BY <1>2
  <2> QED BY <2>1, <2>2, SlotsImported
<1>3. CASE p[1] = 1 /\ s.op \notin {"star", "item"} /\ b = Imported(Slots, s)
  <2>1. b = Imported(Slots, IF s.op = "item" THEN Whole(s.mod, s.mod) ELSE s) BY <1>3
  <2>2. p[1] = 1 /\ s.op # "star" BY <1>3
  <2> QED BY <2>1, <2>2, SlotsImported
<1>4. CASE /\ p[1] = 1 /\ s.op = "star"
           /\ b = Starred(Slots, s.mod, (FreeNames \cap WildcardExports(s.mod)) \ s.excepts)
  BY <1>4, SlotsStarred
<1>5. CASE /\ p[1] = 2 /\ Path(s.mod, s.name) \in DOMAIN Slots.layer
           /\ b = Set(Slots, s.as, Slots.globals[Path(s.mod, s.name)])
  <2>1. s.op = "item" BY <1>5, RunsIs
  <2>2. IsImport(s) BY <2>1 DEF IsImport
  <2>3. s.mod \in DOMAIN Modules /\ s.name \in Named(s.mod) /\ s.as \in Declared BY <1>1, <2>1, <2>2, OpsOf, DeclaredIs
  <2>4. Slots.globals[Path(s.mod, s.name)] = ImportPath(s.mod, s.name) BY <1>5, <2>3 DEF Sound, Paths
  <2>5. ImportPath(s.mod, s.name) \in Explicit("vm", {s}, s.as) BY <2>1 DEF Explicit
  <2>6. \A n : Binds(p, n) <=> n = s.as BY <1>5 DEF Binds
  <2>7. b = Set(Slots, s.as, ImportPath(s.mod, s.name)) BY <1>5, <2>4
  <2>8. s.op # "star" BY <2>1
  <2> QED BY <2>3, <2>5, <2>6, <2>7, <2>8, SlotsSet
<1>6. CASE p[1] = 3 /\ s.op = "var" /\ b = Set(Slots, s.name, Declaration(s.name))
  <2>1. s.op # "star" /\ s.name \in Declared BY <1>1, <1>6, DeclaredIs
  <2>2. Declaration(s.name) \in Explicit("vm", {s}, s.name) BY <1>6 DEF Explicit
  <2>3. \A n : Binds(p, n) <=> n = s.name BY <1>6 DEF Binds
  <2> QED BY <1>6, <2>1, <2>2, <2>3, SlotsSet
<1>7. CASE p[1] = 3 /\ s.op = "fn" /\ b = Slots
  <2>1. \A n : Same(Slots, b, Bare(n)) BY <1>7 DEF Same
  <2>2. s.op # "star" BY <1>7
  <2>3. FreeGrows(s, Slots, b) BY <2>1, <2>2, FreeUntouched
  <2>4. \A n : ~Binds(p, n) BY <1>7 DEF Binds
  <2>5. Bound(p, s, Slots, b) BY <2>1, <2>4 DEF Bound
  <2>6. Stronger(Slots, b) BY <1>7 DEF Stronger
  <2> QED BY <1>7, <2>3, <2>5, <2>6
<1> QED BY <1>2, <1>3, <1>4, <1>5, <1>6, <1>7 DEF SlotsAfter

\* What a statement leaves for the rest of the run.
LEMMA DueLeaves ==
  ASSUME NEW p \in todo, Due(p), NEW All, \A x \in todo, q \in All : Before(x, q) => q \in todo
  PROVE  \A x \in todo \ {p}, q \in All : Before(x, q) => q \in todo \ {p}
BY DEF Due

LEMMA TodoStep == ASSUME TodoInv, [Next]_vars PROVE TodoInv'
<1> USE DEF TodoInv
<1>1. CASE Walk
  <2>1. PICK p \in todo : Due(p) /\ todo' = todo \ {p} /\ phase' \in {"walk", "failed"} /\ program' = program
    <3>1. phase = "walk" /\ program' = program BY <1>1 DEF Walk
    <3> QED BY <1>1, <3>1 DEF Walk, EvalImport, EvalVar
  <2>2. ~Linked /\ ~Linked' BY <1>1, <2>1 DEF Walk, Linked
  <2>3. Walking' = Walking BY <2>1 DEF Walking
  <2> QED BY <2>1, <2>2, <2>3, DueLeaves
<1>2. CASE LoadModule
  <2>1. program' = program /\ todo' = Compiled /\ Linked' BY <1>2 DEF LoadModule, Linked
  <2>2. Compiled' = Compiled BY <2>1 DEF Compiled
  <2> QED BY <2>1, <2>2
<1>3. CASE Execute
  <2>1. PICK p \in todo : Due(p) /\ todo' = todo \ {p} /\ Linked' /\ program' = program
    <3>1. Linked /\ program' = program BY <1>3 DEF Execute, Linked
    <3>2. PICK p \in todo : /\ Due(p) /\ todo' = todo \ {p}
                            /\ phase' = phase \/ phase' = "stopped"
      BY <1>3 DEF Execute, OpImport, OpImportStar, BindImportedName
    <3> QED BY <3>1, <3>2 DEF Linked
  <2>2. Linked BY <1>3 DEF Execute, Linked
  <2>3. Compiled' = Compiled BY <2>1 DEF Compiled
  <2> QED BY <2>1, <2>2, <2>3, DueLeaves
<1>4. CASE Done \/ UNCHANGED vars
  <2>1. UNCHANGED <<program, todo, phase>> BY <1>4 DEF Done, vars
  <2>2. Walking' = Walking /\ Compiled' = Compiled /\ (Linked' <=> Linked) BY <2>1 DEF Walking, Compiled, Linked
  <2> QED BY <2>1, <2>2
<1> QED BY <1>1, <1>2, <1>3, <1>4 DEF Next

LEMMA InstallIs ==
  ASSUME NEW st, IsSlots(st), Install(st) PROVE Slots' = st
BY DEF IsSlots, Install, Slots

\* What a step of the VM runs.
LEMMA ExecuteIs ==
  ASSUME TodoInv, SlotInv, Execute
  PROVE  \E p \in todo :
           /\ p \in Compiled /\ Due(p) /\ todo' = todo \ {p} /\ program' = program
           /\ \/ phase' = phase /\ SlotsAfter(p[1], program[p[2]], Slots, Slots')
              \/ phase' = "stopped" /\ Slots' = Slots
<1>1. PICK p \in todo :
        /\ Due(p) /\ todo' = todo \ {p}
        /\ LET s == program[p[2]]
           IN  \/ p[1] = 1 /\ s.op # "star" /\ OpImport(IF s.op = "item" THEN Whole(s.mod, s.mod) ELSE s)
               \/ p[1] = 1 /\ s.op = "star" /\ OpImportStar(s)
               \/ p[1] = 2 /\ BindImportedName(s)
               \/ /\ p[1] = 3 /\ s.op = "var" /\ globals' = With(globals, Bare(s.name), Declaration(s.name))
                  /\ UNCHANGED <<layer, messages, answers, phase>>
               \/ p[1] = 3 /\ s.op = "fn" /\ RegisterOverload("vm", s.name) /\ UNCHANGED <<globals, layer, phase>>
  BY DEF Execute
<1>2. PICK s : s = program[p[2]] OBVIOUS
<1>3. program' = program /\ p \in Compiled BY DEF Execute, TodoInv, Linked
<1>4. Sound(Declared, Slots) /\ IsSlots(Slots) BY SoundIs DEF SlotInv
<1>5. s \in Statement /\ WellFormed(s) /\ (p[1] = 1 => IsImport(s)) BY <1>2, <1>3, RunsIs
<1>6. ASSUME p[1] = 1, s.op # "star", OpImport(IF s.op = "item" THEN Whole(s.mod, s.mod) ELSE s)
      PROVE  phase' = phase /\ SlotsAfter(p[1], s, Slots, Slots')
  <2>1. PICK t : t = IF s.op = "item" THEN Whole(s.mod, s.mod) ELSE s OBVIOUS
  <2>2. OpImport(t) BY <1>6, <2>1
  <2>3. Install(Imported(Slots, t)) /\ phase' = phase BY <2>2 DEF OpImport, Imported, Slots
  <2>4. s.mod \in DOMAIN Modules /\ s.mod \in Declared /\ s.as \in Declared BY <1>5, <1>6, OpsOf, DeclaredIs
  <2>5. t.mod = s.mod /\ t.as \in {s.mod, s.as} BY <2>1 DEF Whole
  <2>6. t.mod \in DOMAIN Modules /\ t.mod \in Declared /\ t.as \in Declared BY <2>4, <2>5
  <2>7. Sound(Declared, Imported(Slots, t)) BY <1>4, <2>6, ImportStep
  <2>8. Slots' = Imported(Slots, t) BY <2>3, <2>7, SoundIs, InstallIs
  <2>9. s.op = "item" => t = Whole(s.mod, s.mod) BY <2>1
  <2>10. s.op # "item" => t = s BY <2>1
  <2> QED BY <1>6, <2>3, <2>8, <2>9, <2>10 DEF SlotsAfter
<1>7. ASSUME p[1] = 1, s.op = "star", OpImportStar(s)
      PROVE  phase' = phase /\ SlotsAfter(p[1], s, Slots, Slots')
  <2>1. PICK st : st = Starred(Slots, s.mod, (FreeNames \cap WildcardExports(s.mod)) \ s.excepts) OBVIOUS
  <2>2. Install(st) /\ phase' = phase BY <1>7, <2>1 DEF OpImportStar, Starred, FillFromWildcard, Slots
  <2>3. IsSlots(st) BY <2>1, FillIsSlots DEF Starred
  <2>4. Slots' = st BY <2>2, <2>3, InstallIs
  <2> QED BY <1>7, <2>1, <2>2, <2>4 DEF SlotsAfter
<1>8. ASSUME NEW name, NEW value, globals' = With(globals, Bare(name), value), layer' = layer
      PROVE  Slots' = Set(Slots, name, value)
  <2>1. IsSlots(Set(Slots, name, value)) BY <1>4, SetIs
  <2>2. Set(Slots, name, value).globals = globals' BY <1>4, <1>8, SetIs DEF Slots
  <2>3. Set(Slots, name, value).layer = layer' BY <1>4, <1>8, SetIs DEF Slots
  <2> QED BY <2>1, <2>2, <2>3, InstallIs DEF Install
<1>9. ASSUME p[1] = 2, BindImportedName(s)
      PROVE  \/ phase' = phase /\ SlotsAfter(p[1], s, Slots, Slots')
             \/ phase' = "stopped" /\ Slots' = Slots
  <2>1. CASE Path(s.mod, s.name) \notin DOMAIN layer BY <1>9, <2>1 DEF BindImportedName, Slots
  <2>2. CASE Path(s.mod, s.name) \in DOMAIN layer
    <3>1. globals' = With(globals, Bare(s.as), globals[Path(s.mod, s.name)]) /\ layer' = layer /\ phase' = phase
      BY <1>9, <2>2 DEF BindImportedName
    <3>2. Slots' = Set(Slots, s.as, globals[Path(s.mod, s.name)]) BY <1>8, <3>1
    <3>3. Slots.globals = globals /\ Slots.layer = layer BY DEF Slots
    <3> QED BY <1>9, <2>2, <3>1, <3>2, <3>3 DEF SlotsAfter
  <2> QED BY <2>1, <2>2
<1>10. ASSUME p[1] = 3, s.op = "var", globals' = With(globals, Bare(s.name), Declaration(s.name)),
              layer' = layer, phase' = phase
       PROVE  phase' = phase /\ SlotsAfter(p[1], s, Slots, Slots')
  BY <1>8, <1>10 DEF SlotsAfter
<1>11. ASSUME p[1] = 3, s.op = "fn", UNCHANGED <<globals, layer, phase>>
       PROVE  phase' = phase /\ SlotsAfter(p[1], s, Slots, Slots')
  BY <1>11 DEF SlotsAfter, Slots
<1>12. \/ phase' = phase /\ SlotsAfter(p[1], s, Slots, Slots')
       \/ phase' = "stopped" /\ Slots' = Slots
  BY <1>1, <1>2, <1>6, <1>7, <1>9, <1>10, <1>11
<1> QED BY <1>1, <1>2, <1>3, <1>12

LEMMA ExecutedGrows ==
  ASSUME TodoInv, NEW p \in todo, p \in Compiled, todo' = todo \ {p}, program' = program
  PROVE  /\ Executed' = Executed \cup {p}
         /\ VmRan' = VmRan \cup {program[p[2]]}
         /\ Declared' = Declared /\ FreeNames' = FreeNames /\ Statement' = Statement
<1>1. Compiled' = Compiled BY DEF Compiled
<1>2. Executed' = Executed \cup {p} BY <1>1 DEF Executed
<1>3. VmRan' = {program[x[2]] : x \in Executed \cup {p}} BY <1>2 DEF VmRan
<1>4. VmRan' = VmRan \cup {program[p[2]]} BY <1>3 DEF VmRan
<1>5. Declared' = Declared BY DEF Declared, Statement
<1>6. FreeNames' = FreeNames BY <1>5 DEF FreeNames
<1> QED BY <1>2, <1>4, <1>5, <1>6 DEF Statement

LEMMA SlotsExecute == ASSUME TodoInv, SlotInv, Execute PROVE SlotInv' /\ Stronger(Slots, Slots')
<1>1. PICK p \in todo :
        /\ p \in Compiled /\ Due(p) /\ todo' = todo \ {p} /\ program' = program
        /\ \/ phase' = phase /\ SlotsAfter(p[1], program[p[2]], Slots, Slots')
           \/ phase' = "stopped" /\ Slots' = Slots
  BY ExecuteIs
<1>2. PICK s, b : s = program[p[2]] /\ b = Slots' OBVIOUS
<1>3. Sound(Declared, Slots) BY DEF SlotInv
<1>4. PICK d : d = Declared OBVIOUS
<1>5. Declared' = d /\ FreeNames' = FreeNames /\ Statement' = Statement /\ Executed' = Executed \cup {p}
      /\ VmRan' = VmRan \cup {s}
  BY <1>1, <1>2, <1>4, ExecutedGrows
<1>6. CASE phase' = "stopped" /\ Slots' = Slots
  <2>1. Sound(d, b) BY <1>2, <1>3, <1>4, <1>6
  <2>2. SlotInv' BY <1>2, <1>5, <1>6, <2>1 DEF SlotInv
  <2>3. Stronger(Slots, b) BY <1>2, <1>6 DEF Stronger
  <2> QED BY <1>2, <2>2, <2>3
<1>7. CASE phase' = phase /\ SlotsAfter(p[1], s, Slots, b)
  <2>1. Sound(d, b) /\ Stronger(Slots, b) /\ FreeGrows(s, Slots, b) /\ Bound(p, s, Slots, b)
    BY <1>1, <1>2, <1>3, <1>4, <1>7, SlotsAfterIs
  <2>2. phase \in {"vm", "vm only"} BY DEF Execute
  <2>3. ASSUME NEW n \in FreeNames PROVE FreeAt(Wildcard(VmRan \cup {s}, n), b, n)
    BY <2>1, <2>2, <2>3 DEF SlotInv, FreeGrows
  <2>4. ASSUME NEW n \in (Names \cap d) \ DOMAIN Modules
        PROVE  /\ Bare(n) \in DOMAIN b.globals
               /\ b.globals[Bare(n)] \in {Unset} \cup Explicit("vm", Statement, n)
               /\ (\E x \in Executed \cup {p} : Binds(x, n)) => b.globals[Bare(n)] # Unset
    <3>1. OwnAt(Slots, n) BY <1>4, <2>2 DEF SlotInv
    <3>2. s \in Statement /\ WellFormed(s) BY <1>1, <1>2, RunsIs
    <3>3. CASE Binds(p, n)
      <4>1. PICK v \in Explicit("vm", {s}, n) : Has(b.globals, Bare(n), v) BY <1>4, <2>1, <3>3 DEF Bound
      <4>2. v \in Explicit("vm", Statement, n) BY <3>2, <4>1 DEF Explicit
      <4>3. Explicit("vm", {s}, n) \cap Marks = {} BY <3>2, ExplicitValues
      <4>4. v # Unset BY <4>1, <4>3 DEF Marks
      <4> QED BY <4>1, <4>2, <4>4 DEF Has
    <3>4. CASE ~Binds(p, n)
      <4>1. Same(Slots, b, Bare(n)) BY <1>4, <2>1, <3>4 DEF Bound
      <4> QED BY <3>1, <3>4, <4>1 DEF OwnAt, Same
    <3> QED BY <3>3, <3>4
  <2>5. \A n \in (Names \cap d) \ DOMAIN Modules : OwnAt(Slots, n)'
    <3> SUFFICES ASSUME NEW n \in (Names \cap d) \ DOMAIN Modules PROVE OwnAt(Slots, n)' OBVIOUS
    <3>1. \A x : Binds(x, n)' <=> Binds(x, n) BY <1>1 DEF Binds
    <3> QED BY <1>2, <1>5, <2>4, <3>1 DEF OwnAt
  <2>6. SlotInv' BY <1>2, <1>5, <2>1, <2>3, <2>5 DEF SlotInv
  <2> QED BY <1>2, <2>1, <2>6
<1> QED BY <1>1, <1>2, <1>6, <1>7

LEMMA SlotsLoad == ASSUME TodoInv, LoadModule PROVE SlotInv'
<1>1. PICK slots, b, d : slots = Free \cup {Bare(n) : n \in Declared} /\ b = Slots' /\ d = Declared OBVIOUS
<1>2. program' = program /\ todo' = Compiled BY DEF LoadModule
<1>3. Declared' = d /\ FreeNames' = FreeNames /\ Compiled' = Compiled BY <1>1, <1>2 DEF Declared, Statement, FreeNames, Compiled
<1>4. Executed' = {} BY <1>2, <1>3 DEF Executed
<1>5. VmRan' = {} BY <1>4 DEF VmRan
<1>6. PICK st : st = Loaded(slots, FreeNames \cap DOMAIN Builtins) OBVIOUS
<1>7. Install(st) BY <1>1, <1>6 DEF LoadModule, FillFromBuiltins, Loaded
<1>8. IsSlots(st) BY <1>6, FillIsSlots DEF Loaded
<1>9. b = st BY <1>1, <1>7, <1>8, InstallIs
<1>10. FreeNames \cap d = {} BY <1>1 DEF FreeNames
<1>11. \A n \in d \cup FreeNames : Bare(n) \in slots BY <1>1 DEF Free
<1>12. /\ Sound(d, b)
       /\ \A n \in FreeNames : FreeAt({}, b, n)
       /\ \A n \in d : Has(b.globals, Bare(n), Unset)
  BY <1>6, <1>9, <1>10, <1>11, LoadStep
<1>13. \A n : Wildcard({}, n) = {} BY DEF Wildcard
<1>14. \A n \in FreeNames' : FreeAt(Wildcard(VmRan', n), b, n) BY <1>3, <1>5, <1>12, <1>13
<1>15. \A n \in (Names \cap d) \ DOMAIN Modules : OwnAt(Slots, n)'
  <2> SUFFICES ASSUME NEW n \in (Names \cap d) \ DOMAIN Modules PROVE OwnAt(Slots, n)' OBVIOUS
  <2>1. Has(b.globals, Bare(n), Unset) BY <1>12
  <2> QED BY <1>1, <1>4, <2>1 DEF OwnAt, Has
<1> QED BY <1>1, <1>3, <1>12, <1>14, <1>15 DEF SlotInv

LEMMA SlotsInit == ASSUME Init PROVE TodoInv /\ SlotInv
<1>1. phase = "walk" /\ globals = <<>> /\ layer = <<>> BY DEF Init
<1>2. ~Linked BY <1>1 DEF Linked
<1>3. todo = Walking /\ program \in Programs BY DEF Init, Walking
<1>4. TodoInv BY <1>2, <1>3 DEF TodoInv
<1>5. DOMAIN Slots.layer = {} BY <1>1 DEF Slots
<1>6. IsSlots(Slots) BY DEF IsSlots, Slots
<1>7. Sound(Declared, Slots) BY <1>5, <1>6 DEF Sound, Layers, Reserved, Paths
<1> QED BY <1>1, <1>4, <1>7 DEF SlotInv

LEMMA SlotsStep == ASSUME TodoInv, SlotInv, [Next]_vars PROVE SlotInv'
<1>1. CASE Walk
  <2>1. phase' \in {"walk", "failed"} /\ UNCHANGED <<program, globals, layer>>
    BY <1>1 DEF Walk, EvalImport, EvalVar
  <2>2. Declared' = Declared /\ Slots' = Slots BY <2>1 DEF Declared, Statement, Slots
  <2>3. PICK d, b : d = Declared /\ b = Slots OBVIOUS
  <2>4. Sound(d, b) BY <2>3 DEF SlotInv
  <2> QED BY <2>1, <2>2, <2>3, <2>4 DEF SlotInv
<1>2. CASE LoadModule BY <1>2, SlotsLoad
<1>3. CASE Execute BY <1>3, SlotsExecute
<1>4. CASE Done \/ UNCHANGED vars
  <2>1. UNCHANGED vars BY <1>4 DEF Done
  <2>2. Declared' = Declared /\ Slots' = Slots /\ FreeNames' = FreeNames /\ Statement' = Statement
        /\ Executed' = Executed /\ VmRan' = VmRan /\ phase' = phase /\ program' = program
    BY <2>1 DEF vars, Declared, Slots, FreeNames, Statement, Executed, VmRan, Compiled
  <2>3. \A n : OwnAt(Slots, n) => OwnAt(Slots, n)' BY <2>2 DEF OwnAt, Binds
  <2>4. PICK d, b, f, v : d = Declared /\ b = Slots /\ f = FreeNames /\ v = VmRan OBVIOUS
  <2>5. Sound(d, b) BY <2>4 DEF SlotInv
  <2>6. phase \in {"vm", "vm only"} => \A n \in f : FreeAt(Wildcard(v, n), b, n) BY <2>4 DEF SlotInv
  <2>7. phase \in {"vm", "vm only"} => \A n \in (Names \cap d) \ DOMAIN Modules : OwnAt(Slots, n)
    BY <2>4 DEF SlotInv
  <2> QED BY <2>2, <2>3, <2>4, <2>5, <2>6, <2>7 DEF SlotInv
<1> QED BY <1>1, <1>2, <1>3, <1>4 DEF Next

StrongerStep ==
  phase # "walk" /\ phase # "failed" =>
     \A slot \in DOMAIN layer :
        \/ layer'[slot].layer < layer[slot].layer
        \/ /\ layer'[slot] = layer[slot]
           /\ globals'[slot] \in {globals[slot], Ambiguous}
LEMMA StrongerNext == ASSUME TodoInv, SlotInv, Next PROVE StrongerStep
<1>1. CASE Walk \/ LoadModule BY <1>1 DEF Walk, LoadModule, StrongerStep
<1>2. CASE Execute
  <2>1. Stronger(Slots, Slots') BY <1>2, SlotsExecute
  <2> QED BY <2>1 DEF Stronger, Slots, StrongerStep
<1>3. CASE Done BY <1>3 DEF Done, vars, StrongerStep
<1> QED BY <1>1, <1>2, <1>3 DEF Next

\* A fill never gives a slot to a weaker layer, and two values of one layer leave
\* it ambiguous until a stronger one takes over, in whatever order the fills of
\* a program's imports come (LoadedModule.fill).
THEOREM OnlyStrongerAlways == Spec => OnlyStronger
<1>1. Init => TodoInv /\ SlotInv BY SlotsInit
<1>2. TodoInv /\ SlotInv /\ [Next]_vars => (TodoInv /\ SlotInv)' BY TodoStep, SlotsStep
<1>3. TodoInv /\ SlotInv /\ [Next]_vars => [StrongerStep]_vars BY StrongerNext
<1>4. [][StrongerStep]_vars => OnlyStronger BY DEF OnlyStronger, StrongerStep
<1> QED BY <1>1, <1>2, <1>3, <1>4, PTL DEF Spec

-----------------------------------------------------------------------------
(* Linking: the scope of the walker. *)
SameName(a, c, n) == (n \in DOMAIN c <=> n \in DOMAIN a) /\ (n \in DOMAIN a => c[n] = a[n])
LEMMA SameNameTrans ==
  ASSUME NEW a, NEW b, NEW c, NEW n, SameName(a, b, n), SameName(b, c, n) PROVE SameName(a, c, n)
BY DEF SameName
LEMMA NameSame ==
  ASSUME NEW E, NEW W, NEW a, NEW c, NEW n, NameAt(E, W, a, n), SameName(a, c, n)
  PROVE  NameAt(E, W, c, n)
BY DEF NameAt, SameName
LEMMA BindNewIs ==
  ASSUME NEW ctx, NEW name, NEW value
  PROVE  /\ Has(BindNew(ctx, name, value), name, [value |-> value, source |-> ""])
         /\ \A n : n # name => SameName(ctx, BindNew(ctx, name, value), n)
<1>1. PICK v : v = [value |-> value, source |-> ""] OBVIOUS
<1>2. PICK c : c = With(ctx, name, v) OBVIOUS
<1>3. c = BindNew(ctx, name, value) BY <1>1, <1>2 DEF BindNew
<1>4. Has(c, name, v) BY <1>2, WithIs DEF Has
<1>5. \A n : n # name => SameName(ctx, c, n) BY <1>2, WithIs DEF SameName
<1> QED BY <1>1, <1>3, <1>4, <1>5
LEMMA BoundIs ==
  ASSUME NEW c, NEW n, NEW value, Has(c, n, [value |-> value, source |-> ""])
  PROVE  n \in DOMAIN c /\ c[n].value = value /\ c[n].source = ""
<1>1. PICK r : r = c[n] OBVIOUS
<1>2. r = [value |-> value, source |-> ""] /\ n \in DOMAIN c BY <1>1 DEF Has
<1>3. r.value = value /\ r.source = "" BY <1>2
<1> QED BY <1>1, <1>2, <1>3
LEMMA NameBound ==
  ASSUME NEW E, NEW W, NEW c, NEW n, NEW value \in E, Has(c, n, [value |-> value, source |-> ""])
  PROVE  NameAt(E, W, c, n)
BY BoundIs DEF NameAt
LEMMA NameStar ==
  ASSUME NEW E, NEW W, NEW ctx, NEW c, NEW n, NEW v, NEW mod \in DOMAIN Modules,
         NameAt(E, W, ctx, n), Ambiguous \notin W, v # Ambiguous,
         Has(c, n, MergeWildcardName(ctx, n, v, mod))
  PROVE  NameAt(E, W \cup {v}, c, n)
<1>1. mod # "" BY LinkingAssumption
<1>2. PICK r : r = MergeWildcardName(ctx, n, v, mod) OBVIOUS
<1>3. n \in DOMAIN c /\ c[n] = r BY <1>2 DEF Has
<1>4. CASE E # {}
  <2>1. n \in DOMAIN ctx /\ ctx[n].source = "" /\ ctx[n].value \in E BY <1>4 DEF NameAt
  <2>2. r = ctx[n] BY <1>2, <2>1 DEF MergeWildcardName
  <2> QED BY <1>3, <1>4, <2>1, <2>2 DEF NameAt
<1>5. CASE E = {} /\ W # {}
  <2>1. n \in DOMAIN ctx /\ ctx[n].source # "" /\ Picks(W, ctx[n].value) BY <1>5 DEF NameAt
  <2>2. PICK x : x = ctx[n].value OBVIOUS
  <2>3. r.source # "" /\ r.value = IF x \in {v, Ambiguous} THEN x ELSE Ambiguous
    <3>1. CASE x \in {v, Ambiguous}
      <4>1. r = ctx[n] BY <1>2, <2>1, <2>2, <3>1 DEF MergeWildcardName
      <4> QED BY <2>1, <2>2, <3>1, <4>1
    <3>2. CASE x \notin {v, Ambiguous}
      <4>1. r = [value |-> Ambiguous, source |-> mod] BY <1>2, <2>1, <2>2, <3>2 DEF MergeWildcardName
      <4> QED BY <1>1, <3>2, <4>1
    <3> QED BY <3>1, <3>2
  <2>4. Picks(W \cup {v}, r.value) BY <2>1, <2>2, <2>3, PicksMore
  <2> QED BY <1>3, <1>5, <2>3, <2>4 DEF NameAt
<1>6. CASE E = {} /\ W = {}
  <2>1. n \notin DOMAIN ctx BY <1>6 DEF NameAt
  <2>2. r = [value |-> v, source |-> mod] BY <1>2, <2>1 DEF MergeWildcardName
  <2>3. r.value = v /\ r.source = mod BY <2>2
  <2>4. Picks(W \cup {v}, v) BY <1>6 DEF Picks
  <2>5. W \cup {v} # {} OBVIOUS
  <2> QED BY <1>1, <1>3, <1>6, <2>3, <2>4, <2>5 DEF NameAt
<1> QED BY <1>4, <1>5, <1>6

LEMMA MergeWildcardIs ==
  ASSUME NEW ctx, NEW mod, NEW excepts, NEW n
  PROVE  /\ n \in WildcardExports(mod) \ excepts =>
              Has(MergeWildcard(ctx, mod, excepts), n, MergeWildcardName(ctx, n, Member(mod, n), mod))
         /\ n \notin WildcardExports(mod) \ excepts => SameName(ctx, MergeWildcard(ctx, mod, excepts), n)
BY DEF MergeWildcard, Has, SameName

LEMMA SourcesBind ==
  ASSUME NEW ctx, NEW name, NEW value, Sources(ctx) PROVE Sources(BindNew(ctx, name, value))
<1>1. PICK c : c = BindNew(ctx, name, value) OBVIOUS
<1>2. Has(c, name, [value |-> value, source |-> ""]) /\ \A n : n # name => SameName(ctx, c, n) BY <1>1, BindNewIs
<1>3. ASSUME NEW n \in DOMAIN c PROVE c[n].source \in DOMAIN Modules \cup {""}
  <2>1. CASE n = name BY <1>2, <2>1, BoundIs
  <2>2. CASE n # name
    <3>1. SameName(ctx, c, n) BY <1>2, <2>2
    <3> QED BY <1>3, <3>1 DEF Sources, SameName
  <2> QED BY <2>1, <2>2
<1> QED BY <1>1, <1>3 DEF Sources
LEMMA SourcesStar ==
  ASSUME NEW ctx, NEW mod \in DOMAIN Modules, NEW excepts, Sources(ctx)
  PROVE  Sources(MergeWildcard(ctx, mod, excepts))
<1>1. PICK c : c = MergeWildcard(ctx, mod, excepts) OBVIOUS
<1>2. ASSUME NEW n \in DOMAIN c PROVE c[n].source \in DOMAIN Modules \cup {""}
  <2>1. CASE n \in WildcardExports(mod) \ excepts
    <3>1. PICK v, r : v = Member(mod, n) /\ r = MergeWildcardName(ctx, n, v, mod) OBVIOUS
    <3>2. c[n] = r BY <1>1, <2>1, <3>1, MergeWildcardIs DEF Has
    <3>3. \/ r = [value |-> v, source |-> mod] \/ r = [value |-> Ambiguous, source |-> mod]
          \/ n \in DOMAIN ctx /\ r = ctx[n]
      BY <3>1 DEF MergeWildcardName
    <3>4. r.source = mod \/ (n \in DOMAIN ctx /\ r = ctx[n])
      <4>1. r = [value |-> v, source |-> mod] => r.source = mod OBVIOUS
      <4>2. r = [value |-> Ambiguous, source |-> mod] => r.source = mod OBVIOUS
      <4> QED BY <3>3, <4>1, <4>2
    <3>5. r.source \in DOMAIN Modules \cup {""} BY <3>4 DEF Sources
    <3> QED BY <3>2, <3>5
  <2>2. CASE n \notin WildcardExports(mod) \ excepts
    <3>1. SameName(ctx, c, n) BY <1>1, <2>2, MergeWildcardIs
    <3> QED BY <1>2, <3>1 DEF Sources, SameName
  <2> QED BY <2>1, <2>2
<1> QED BY <1>1, <1>2 DEF Sources

\* An equation that the provers take as a whole.
Is(x, y) == x = y
LEMMA BindingsGrow ==
  ASSUME NEW ran, NEW s, NEW n PROVE Is(Bindings(ran \cup {s}, n), Bindings(ran, n) \cup Bindings({s}, n))
<1>1. Bindings(ran \cup {s}, n) = Bindings(ran, n) \cup Bindings({s}, n) BY DEF Bindings, Explicit
<1> QED BY <1>1 DEF Is
LEMMA StarLeaves ==
  ASSUME NEW s, NEW ran, NEW n, s.op # "star" PROVE Is(Wildcard(ran \cup {s}, n), Wildcard(ran, n))
<1>1. Wildcard(ran \cup {s}, n) = Wildcard(ran, n) BY StarIs
<1> QED BY <1>1 DEF Is

\* What a statement does to the name, if the walk goes on.
NameGrows(s, a, c) ==
  \A ran : \A n \in Plain :
     NameAt(Bindings(ran, n), Wildcard(ran, n), a, n) =>
        NameAt(Bindings(ran \cup {s}, n), Wildcard(ran \cup {s}, n), c, n)

LEMMA NameUntouched ==
  ASSUME NEW s, s.op # "star", NEW a, NEW c,
         \A n \in Plain :
            /\ Bindings({s}, n) # {} => \E v \in Bindings({s}, n) : Has(c, n, [value |-> v, source |-> ""])
            /\ Bindings({s}, n) = {} => SameName(a, c, n)
  PROVE  NameGrows(s, a, c)
<1> SUFFICES ASSUME NEW ran, NEW n \in Plain,
                    NameAt(Bindings(ran, n), Wildcard(ran, n), a, n)
             PROVE  NameAt(Bindings(ran \cup {s}, n), Wildcard(ran \cup {s}, n), c, n)
  BY DEF NameGrows
<1>1. PICK E, F, W : E = Bindings(ran, n) /\ F = Bindings({s}, n) /\ W = Wildcard(ran, n)
  OBVIOUS
<1>2. Bindings(ran \cup {s}, n) = E \cup F
  <2>1. Is(Bindings(ran \cup {s}, n), Bindings(ran, n) \cup Bindings({s}, n)) BY BindingsGrow
  <2> QED BY <1>1, <2>1 DEF Is
<1>3. Wildcard(ran \cup {s}, n) = W
  <2>1. Is(Wildcard(ran \cup {s}, n), Wildcard(ran, n)) BY StarLeaves
  <2> QED BY <1>1, <2>1 DEF Is
<1>4. NameAt(E \cup F, W, c, n)
  <2>1. CASE F # {}
    <3>1. PICK v \in F : Has(c, n, [value |-> v, source |-> ""]) BY <1>1, <2>1
    <3>2. v \in E \cup F BY <3>1
    <3> QED BY <3>1, <3>2, NameBound
  <2>2. CASE F = {}
    <3>1. SameName(a, c, n) BY <1>1, <2>2
    <3>2. NameAt(E, W, c, n) BY <1>1, <3>1, NameSame
    <3>3. E \cup F = E BY <2>2
    <3> QED BY <3>2, <3>3
  <2> QED BY <2>1, <2>2
<1> QED BY <1>2, <1>3, <1>4

LEMMA NameStarred ==
  ASSUME NEW s, s.op = "star", s.mod \in DOMAIN Modules, NEW a, NEW c, c = MergeWildcard(a, s.mod, s.excepts)
  PROVE  NameGrows(s, a, c)
<1> SUFFICES ASSUME NEW ran, NEW n \in Plain,
                    NameAt(Bindings(ran, n), Wildcard(ran, n), a, n)
             PROVE  NameAt(Bindings(ran \cup {s}, n), Wildcard(ran \cup {s}, n), c, n)
  BY DEF NameGrows
<1>1. PICK E, W, mod : E = Bindings(ran, n) /\ W = Wildcard(ran, n) /\ mod = s.mod OBVIOUS
<1>2. Bindings({s}, n) = {} BY DEF Bindings, Explicit
<1>3. Bindings(ran \cup {s}, n) = E
  <2>1. Is(Bindings(ran \cup {s}, n), Bindings(ran, n) \cup Bindings({s}, n)) BY BindingsGrow
  <2> QED BY <1>1, <1>2, <2>1 DEF Is
<1>4. CASE n \in WildcardExports(s.mod) \ s.excepts
  <2>1. Wildcard(ran \cup {s}, n) = W \cup {Member(mod, n)} BY <1>1, <1>4 DEF Wildcard
  <2>2. Ambiguous \notin W BY <1>1, WildcardValues DEF Marks
  <2>3. Has(c, n, MergeWildcardName(a, n, Member(mod, n), mod)) BY <1>1, <1>4, MergeWildcardIs
  <2>4. NameAt(E, W \cup {Member(mod, n)}, c, n) BY <1>1, <2>2, <2>3, MemberIs, NameStar
  <2> QED BY <1>3, <2>1, <2>4
<1>5. CASE n \notin WildcardExports(s.mod) \ s.excepts
  <2>1. Wildcard(ran \cup {s}, n) = W BY <1>1, <1>5, StarMisses
  <2>2. SameName(a, c, n) BY <1>5, MergeWildcardIs
  <2>3. NameAt(E, W, c, n) BY <1>1, <2>2, NameSame
  <2> QED BY <1>3, <2>1, <2>3
<1> QED BY <1>4, <1>5

LEMMA NameImported ==
  ASSUME NEW s, s.op \in {"item", "leaf"}, s.mod \in DOMAIN Modules, NEW a, Sources(a), NEW c,
         c = IF s.op = "item" THEN ImportOne(s, a) ELSE BindNew(ImportOne(s, a), s.mod, Module(s.mod))
  PROVE  NameGrows(s, a, c) /\ Sources(c)
<1>1. PICK o : o = ImportOne(s, a) OBVIOUS
<1>2. ASSUME NEW n
      PROVE  /\ Bindings({s}, n) # {} => s.as = n /\ s.name \in MembersOf(s.mod)
             /\ s.as = n /\ s.name \in MembersOf(s.mod) => Member(s.mod, s.name) \in Bindings({s}, n)
  BY DEF Bindings, Explicit, ImportPath
<1>3. ASSUME NEW n
      PROVE  /\ s.as = n /\ s.name \in MembersOf(s.mod) =>
                  Has(o, n, [value |-> Member(s.mod, s.name), source |-> ""])
             /\ s.as # n \/ s.name \notin MembersOf(s.mod) => SameName(a, o, n)
  <2>1. CASE s.name \in MembersOf(s.mod)
    <3>1. o = BindNew(a, s.as, Member(s.mod, s.name)) BY <1>1, <2>1 DEF ImportOne
    <3> QED BY <2>1, <3>1, BindNewIs
  <2>2. CASE s.name \notin MembersOf(s.mod)
    <3>1. o = a BY <1>1, <2>2 DEF ImportOne
    <3> QED BY <2>2, <3>1 DEF SameName
  <2> QED BY <2>1, <2>2
<1>4. ASSUME NEW n \in Plain PROVE SameName(o, c, n)
  <2>1. CASE s.op = "item"
    <3>1. c = o BY <1>1, <2>1
    <3> QED BY <3>1 DEF SameName
  <2>2. CASE s.op = "leaf"
    <3>1. c = BindNew(o, s.mod, Module(s.mod)) BY <1>1, <2>2
    <3>2. n # s.mod BY DEF Plain
    <3> QED BY <3>1, <3>2, BindNewIs
  <2> QED BY <2>1, <2>2
<1>5. ASSUME NEW n \in Plain
      PROVE  /\ Bindings({s}, n) # {} =>
                  \E v \in Bindings({s}, n) : Has(c, n, [value |-> v, source |-> ""])
             /\ Bindings({s}, n) = {} => SameName(a, c, n)
  <2>1. CASE s.as = n /\ s.name \in MembersOf(s.mod)
    <3>1. PICK v, w : v = Member(s.mod, s.name) /\ w = [value |-> v, source |-> ""] OBVIOUS
    <3>2. Has(o, n, w) BY <1>3, <2>1, <3>1
    <3>3. Has(c, n, w) BY <1>4, <3>2 DEF Has, SameName
    <3>4. v \in Bindings({s}, n) BY <1>2, <2>1, <3>1
    <3> QED BY <3>1, <3>3, <3>4
  <2>2. CASE ~(s.as = n /\ s.name \in MembersOf(s.mod))
    <3>1. Bindings({s}, n) = {} BY <1>2, <2>2
    <3>2. SameName(a, o, n) BY <1>3, <2>2
    <3>3. SameName(a, c, n) BY <1>4, <3>2, SameNameTrans
    <3> QED BY <3>1, <3>3
  <2> QED BY <2>1, <2>2
<1>6. s.op # "star" OBVIOUS
<1>7. NameGrows(s, a, c) BY <1>5, <1>6, NameUntouched
<1>8. Sources(o) BY <1>1, SourcesBind DEF ImportOne
<1>9. Sources(c) BY <1>1, <1>8, SourcesBind
<1> QED BY <1>7, <1>9

\* A name bound to a module, or declared.
LEMMA NameSet ==
  ASSUME NEW s, s.op # "star", NEW a, NEW value, NEW name, NEW c, c = BindNew(a, name, value),
         \A n : Bindings({s}, n) = IF n = name THEN {value} ELSE {}
  PROVE  NameGrows(s, a, c)
<1>1. ASSUME NEW n \in Plain
      PROVE  /\ Bindings({s}, n) # {} =>
                  \E v \in Bindings({s}, n) : Has(c, n, [value |-> v, source |-> ""])
             /\ Bindings({s}, n) = {} => SameName(a, c, n)
  <2>1. CASE n = name
    <3>1. Has(c, n, [value |-> value, source |-> ""]) BY <2>1, BindNewIs
    <3>2. Bindings({s}, n) = {value} BY <2>1
    <3> QED BY <3>1, <3>2
  <2>2. CASE n # name
    <3>1. SameName(a, c, n) BY <2>2, BindNewIs
    <3>2. Bindings({s}, n) = {} BY <2>2
    <3> QED BY <3>1, <3>2
  <2> QED BY <2>1, <2>2
<1> QED BY <1>1, NameUntouched

LEMMA NotWalked == \A i : <<0, i>> \notin Compiled BY DEF Compiled
LEMMA AllWalked ==
  ASSUME \A i : <<0, i>> \notin todo PROVE WalkRan = Statement
BY DEF WalkRan, Statement
LEMMA WalkIs ==
  ASSUME TodoInv, Walk
  PROVE  \E p \in todo, i \in DOMAIN program :
           /\ p = <<0, i>> /\ Due(p) /\ todo' = todo \ {p} /\ program' = program
           /\ WalkRan' = WalkRan \cup {program[i]}
           /\ \/ IsImport(program[i]) /\ EvalImport(program[i])
              \/ program[i].op = "var" /\ EvalVar(program[i])
              \/ /\ program[i].op = "fn" /\ RegisterOverload("walker", program[i].name)
                 /\ UNCHANGED <<scope, phase>>
<1>1. PICK p \in todo :
        /\ Due(p) /\ todo' = todo \ {p}
        /\ LET s == program[p[2]]
           IN  \/ IsImport(s) /\ EvalImport(s)
               \/ s.op = "var" /\ EvalVar(s)
               \/ s.op = "fn" /\ RegisterOverload("walker", s.name) /\ UNCHANGED <<scope, phase>>
  BY DEF Walk
<1>2. phase = "walk" /\ program' = program BY DEF Walk
<1>3. p \in Walking BY <1>2 DEF TodoInv, Linked
<1>4. PICK i \in DOMAIN program : p = <<0, i>> BY <1>3 DEF Walking
<1>5. p[2] = i BY <1>4
<1>6. \A j : <<0, j>> \notin todo' <=> <<0, j>> \notin todo \/ j = i BY <1>1, <1>4
<1>7. WalkRan' = WalkRan \cup {program[i]} BY <1>2, <1>6 DEF WalkRan
<1> QED BY <1>1, <1>2, <1>4, <1>5, <1>7

LEMMA WalkNames ==
  ASSUME TodoInv, Sources(scope), NEW s, WellFormed(s), NEW c, c = scope',
         \/ IsImport(s) /\ EvalImport(s)
         \/ s.op = "var" /\ EvalVar(s)
         \/ s.op = "fn" /\ UNCHANGED <<scope, phase>>
  PROVE  Sources(c) /\ (phase' = "failed" \/ (phase' = phase /\ NameGrows(s, scope, c)))
<1>1. CASE IsImport(s) /\ EvalImport(s)
  <2>1. s.mod \in DOMAIN Modules BY <1>1, OpsOf
  <2>2. phase' = phase BY <1>1 DEF EvalImport
  <2>3. CASE s.op = "star"
    <3>1. c = MergeWildcard(scope, s.mod, s.excepts) BY <1>1, <2>3 DEF EvalImport
    <3>2. NameGrows(s, scope, c) BY <2>1, <2>3, <3>1, NameStarred
    <3> QED BY <2>1, <2>2, <3>1, <3>2, SourcesStar
  <2>4. CASE s.op \in {"item", "leaf"}
    <3>1. c = IF s.op = "item" THEN ImportOne(s, scope) ELSE BindNew(ImportOne(s, scope), s.mod, Module(s.mod))
      BY <1>1, <2>4 DEF EvalImport
    <3>2. NameGrows(s, scope, c) /\ Sources(c) BY <2>1, <2>4, <3>1, NameImported
    <3> QED BY <2>2, <3>2
  <2>5. CASE s.op \in {"whole", "static"}
    <3>1. c = BindNew(scope, s.as, Module(s.mod)) BY <1>1, <2>5 DEF EvalImport
    <3>2. \A n : Bindings({s}, n) = IF n = s.as THEN {Module(s.mod)} ELSE {} BY <2>5 DEF Bindings, Explicit
    <3>3. s.op # "star" BY <2>5
    <3>4. NameGrows(s, scope, c) BY <3>1, <3>2, <3>3, NameSet
    <3> QED BY <2>2, <3>1, <3>4, SourcesBind
  <2> QED BY <1>1, <2>3, <2>4, <2>5 DEF IsImport
<1>2. CASE s.op = "var" /\ EvalVar(s)
  <2>1. CASE s.name \in DOMAIN scope BY <1>2, <2>1 DEF EvalVar
  <2>2. CASE s.name \notin DOMAIN scope
    <3>1. c = BindNew(scope, s.name, Declaration(s.name)) /\ phase' = phase BY <1>2, <2>2 DEF EvalVar
    <3>2. \A n : Bindings({s}, n) = IF n = s.name THEN {Declaration(s.name)} ELSE {}
      BY <1>2 DEF Bindings, Explicit
    <3>3. s.op # "star" BY <1>2
    <3>4. NameGrows(s, scope, c) BY <3>1, <3>2, <3>3, NameSet
    <3> QED BY <3>1, <3>4, SourcesBind
  <2> QED BY <2>1, <2>2
<1>3. CASE s.op = "fn" /\ UNCHANGED <<scope, phase>>
  <2>1. \A n : Bindings({s}, n) = {} BY <1>3 DEF Bindings, Explicit
  <2>2. \A n : SameName(scope, c, n) BY <1>3 DEF SameName
  <2>3. s.op # "star" BY <1>3
  <2>4. NameGrows(s, scope, c) BY <2>1, <2>2, <2>3, NameUntouched
  <2> QED BY <1>3, <2>4
<1> QED BY <1>1, <1>2, <1>3

LEMMA ScopeInit == ASSUME Init PROVE ScopeInv
<1>1. scope = [n \in DOMAIN Builtins |-> [value |-> Owned(Builtins[n]), source |-> ""]] BY DEF Init
<1>2. todo = Walking BY DEF Init, Walking
<1>3. WalkRan = {} BY <1>2 DEF WalkRan, Walking
<1>4. \A n : Bindings({}, n) = {} /\ Wildcard({}, n) = {} BY DEF Bindings, Explicit, Wildcard
<1>5. \A n \in Plain : n \notin DOMAIN scope BY <1>1 DEF Plain
<1>6. \A n \in Plain : NameAt({}, {}, scope, n) BY <1>5 DEF NameAt
<1>7. Sources(scope)
  <2> SUFFICES ASSUME NEW n \in DOMAIN scope PROVE scope[n].source = "" BY DEF Sources
  <2>1. PICK r : r = [value |-> Owned(Builtins[n]), source |-> ""] OBVIOUS
  <2>2. scope[n] = r BY <1>1, <2>1
  <2>3. r.source = "" BY <2>1
  <2> QED BY <2>2, <2>3
<1> QED BY <1>3, <1>4, <1>6, <1>7 DEF ScopeInv

LEMMA ScopeStep == ASSUME TodoInv, ScopeInv, [Next]_vars PROVE ScopeInv'
<1>1. PICK c, ran : c = scope' /\ ran = WalkRan OBVIOUS
<1>2. Sources(scope)
      /\ (phase \in {"walk", "vm"} => \A n \in Plain : NameAt(Bindings(ran, n), Wildcard(ran, n), scope, n))
  BY <1>1 DEF ScopeInv
<1>3. CASE Walk
  <2>1. PICK p \in todo, i \in DOMAIN program :
          /\ p = <<0, i>> /\ Due(p) /\ todo' = todo \ {p} /\ program' = program
          /\ WalkRan' = WalkRan \cup {program[i]}
          /\ \/ IsImport(program[i]) /\ EvalImport(program[i])
             \/ program[i].op = "var" /\ EvalVar(program[i])
             \/ /\ program[i].op = "fn" /\ RegisterOverload("walker", program[i].name)
                /\ UNCHANGED <<scope, phase>>
    BY <1>3, WalkIs
  <2>2. PICK s : s = program[i] OBVIOUS
  <2>3. WellFormed(s) BY <2>2, LinkingAssumption DEF TodoInv
  <2>4. Sources(c) /\ (phase' = "failed" \/ (phase' = phase /\ NameGrows(s, scope, c)))
    BY <1>1, <1>2, <2>1, <2>2, <2>3, WalkNames
  <2>5. WalkRan' = ran \cup {s} BY <1>1, <2>1, <2>2
  <2>6. phase = "walk" BY <1>3 DEF Walk
  <2>7. CASE phase' = "failed" BY <1>1, <2>4, <2>7 DEF ScopeInv
  <2>8. CASE phase' = phase /\ NameGrows(s, scope, c)
    <3>1. \A n \in Plain : NameAt(Bindings(ran \cup {s}, n), Wildcard(ran \cup {s}, n), c, n)
      BY <1>2, <2>6, <2>8 DEF NameGrows
    <3> QED BY <1>1, <2>4, <2>5, <3>1 DEF ScopeInv
  <2> QED BY <2>4, <2>7, <2>8
<1>4. CASE LoadModule
  <2>1. program' = program /\ todo' = Compiled /\ scope' = scope /\ (phase' = "vm" => phase = "walk" /\ todo = {})
        /\ phase' \in {"vm", "vm only"}
    BY <1>4 DEF LoadModule
  <2>2. Statement' = Statement BY <2>1 DEF Statement
  <2>3. \A i : <<0, i>> \notin todo' BY <2>1, NotWalked
  <2>4. WalkRan' = Statement BY <2>1, <2>3 DEF WalkRan, Statement
  <2>5. todo = {} => ran = Statement BY <1>1, AllWalked
  <2> QED BY <1>1, <1>2, <2>1, <2>4, <2>5 DEF ScopeInv
<1>5. CASE Execute \/ Done \/ UNCHANGED vars
  <2>1. scope' = scope /\ program' = program /\ (phase' = phase \/ phase' = "stopped")
    BY <1>5 DEF Execute, OpImport, OpImportStar, BindImportedName, Done, vars
  <2>2. CASE todo' = todo
    <3>1. WalkRan' = ran BY <1>1, <2>1, <2>2 DEF WalkRan
    <3> QED BY <1>1, <1>2, <2>1, <3>1 DEF ScopeInv
  <2>3. CASE todo' # todo
    <3>1. Execute BY <1>5, <2>3 DEF Done, vars
    <3>2. PICK p \in todo : todo' = todo \ {p} BY <3>1 DEF Execute
    <3>3. todo \subseteq Compiled BY <3>1 DEF Execute, TodoInv, Linked
    <3>4. ran = Statement BY <1>1, <3>3, NotWalked, AllWalked
    <3>5. \A i : <<0, i>> \notin todo' BY <3>2, <3>3, NotWalked
    <3>6. WalkRan' = Statement BY <2>1, <3>5 DEF WalkRan, Statement
    <3> QED BY <1>1, <1>2, <2>1, <3>4, <3>6 DEF ScopeInv
  <2> QED BY <2>2, <2>3
<1> QED BY <1>3, <1>4, <1>5 DEF Next

-----------------------------------------------------------------------------
(* Linking: when a run is over, names hold what the layers say. *)
Phase == phase \in {"walk", "failed", "vm", "vm only", "stopped"}
LEMMA PhaseStep == ASSUME Phase, [Next]_vars PROVE Phase'
<1>1. CASE Walk BY <1>1 DEF Phase, Walk, EvalImport, EvalVar
<1>2. CASE LoadModule BY <1>2 DEF Phase, LoadModule
<1>3. CASE Execute BY <1>3 DEF Phase, Execute, OpImport, OpImportStar, BindImportedName
<1>4. CASE Done \/ UNCHANGED vars BY <1>4 DEF Phase, Done, vars
<1> QED BY <1>1, <1>2, <1>3, <1>4 DEF Next

LEMMA AllExecuted ==
  ASSUME TodoInv, todo = {} PROVE Executed = Compiled /\ VmRan = Statement
<1>1. Executed = Compiled BY DEF Executed
<1>2. ASSUME NEW s \in Statement PROVE s \in VmRan
  <2>1. PICK i \in DOMAIN program : s = program[i] BY DEF Statement
  <2>2. <<1, i>> \in Compiled \/ <<3, i>> \in Compiled BY DEF Compiled
  <2>3. <<1, i>>[2] = i /\ <<3, i>>[2] = i OBVIOUS
  <2> QED BY <1>1, <2>1, <2>2, <2>3 DEF VmRan
<1>3. ASSUME NEW s \in VmRan PROVE s \in Statement
  <2>1. PICK p \in Compiled : s = program[p[2]] BY <1>1 DEF VmRan
  <2> QED BY <2>1, RunsIs
<1> QED BY <1>1, <1>2, <1>3

\* A name that is bound has something that binds it.
LEMMA BoundBy ==
  ASSUME TodoInv, NEW n, n \notin DOMAIN Modules
  PROVE  /\ Explicit("vm", Statement, n) # {} => \E p \in Compiled : Binds(p, n)
         /\ n \in Declared => Explicit("vm", Statement, n) # {}
         /\ n \notin Declared => Explicit("vm", Statement, n) = {}
<1>1. ASSUME NEW v \in Explicit("vm", Statement, n)
      PROVE  n \in Declared /\ \E p \in Compiled : Binds(p, n)
  <2>1. PICK s \in Statement : \/ s.op = "var" /\ s.name = n
                               \/ s.op \in {"item", "leaf", "whole", "static"} /\ s.as = n
    BY <1>1 DEF Explicit
  <2>2. PICK i \in DOMAIN program : s = program[i] /\ WellFormed(s) BY LinkingAssumption DEF Statement, TodoInv
  <2>3. CASE s.op = "var" /\ s.name = n
    <3>1. ~IsImport(s) BY <2>3 DEF IsImport
    <3>2. <<3, i>> \in Compiled BY <2>2, <3>1 DEF Compiled
    <3>3. Binds(<<3, i>>, n) BY <2>2, <2>3 DEF Binds
    <3> QED BY <2>2, <2>3, <3>2, <3>3, DeclaredIs
  <2>4. CASE s.op = "item" /\ s.as = n
    <3>1. IsImport(s) /\ s.op # "star" BY <2>4 DEF IsImport
    <3>2. <<2, i>> \in Compiled BY <2>2, <2>4 DEF Compiled
    <3>3. Binds(<<2, i>>, n) BY <2>2, <2>4 DEF Binds
    <3> QED BY <2>2, <2>4, <3>1, <3>2, <3>3, DeclaredIs
  <2>5. CASE s.op \in {"leaf", "whole", "static"} /\ s.as = n
    <3>1. IsImport(s) /\ s.op # "star" BY <2>5 DEF IsImport
    <3>2. <<1, i>> \in Compiled BY <2>2, <3>1 DEF Compiled
    <3>3. Binds(<<1, i>>, n) BY <2>2, <2>5 DEF Binds
    <3> QED BY <2>2, <2>5, <3>1, <3>2, <3>3, DeclaredIs
  <2> QED BY <2>1, <2>3, <2>4, <2>5
<1>2. ASSUME n \in Declared PROVE Explicit("vm", Statement, n) # {}
  <2>1. PICK s \in Statement : \/ IsImport(s) /\ n = s.mod
                               \/ s.op \notin {"star", "fn"} /\ n = s.as
    BY <1>2 DEF Declared
  <2>2. WellFormed(s) BY LinkingAssumption DEF TodoInv, Statement
  <2>3. s.op \notin {"star", "fn"} /\ n = s.as BY <2>1, <2>2, OpsOf
  <2>4. CASE IsImport(s)
    <3>1. s.op \in {"item", "leaf"} => ImportPath(s.mod, s.name) \in Explicit("vm", Statement, n)
      BY <2>3 DEF Explicit
    <3>2. s.op \in {"whole", "static"} => Module(s.mod) \in Explicit("vm", Statement, n)
      BY <2>3 DEF Explicit
    <3> QED BY <2>3, <2>4, <3>1, <3>2 DEF IsImport
  <2>5. CASE ~IsImport(s)
    <3>1. s = Declare(s.name) \/ s = Define(s.name) BY <2>2, <2>5, OpsOf
    <3>2. s = Define(s.name) => s.op = "fn" BY OpsAre
    <3>3. s = Declare(s.name) BY <2>3, <3>1, <3>2
    <3>4. s.op = "var" BY <3>3, OpsAre
    <3>5. s.as = s.name BY <3>3, OpsAre
    <3>6. Declaration(n) \in Explicit("vm", Statement, n) BY <2>3, <3>4, <3>5 DEF Explicit
    <3> QED BY <3>6
  <2> QED BY <2>4, <2>5
<1> QED BY <1>1, <1>2

LEMMA StatementsWellFormed == ASSUME TodoInv PROVE \A s \in Statement : WellFormed(s)
BY LinkingAssumption DEF TodoInv, Statement

LEMMA VmLayered ==
  ASSUME TodoInv, SlotInv, VmDone, NEW n \in Names \ DOMAIN Modules
  PROVE  Layered("vm", n, GlobalGet(n))
<1>1. todo = {} /\ phase \in {"vm", "vm only"} BY DEF VmDone
<1>2. Executed = Compiled /\ VmRan = Statement BY <1>1, AllExecuted
<1>3. PICK E, W, x, slot : /\ E = Explicit("vm", Statement, n) /\ W = Wildcard(Statement, n)
                           /\ x = GlobalGet(n) /\ slot = Bare(n)
  OBVIOUS
<1>4. E \cap Marks = {} BY <1>3, StatementsWellFormed, ExplicitValues
<1>5. W \cap Marks = {} BY <1>3, WildcardValues
<1>6. CASE n \in Declared
  <2>1. E # {} /\ \E p \in Compiled : Binds(p, n) BY <1>3, <1>6, BoundBy
  <2>2. OwnAt(Slots, n) BY <1>1, <1>6 DEF SlotInv
  <2>3. slot \in DOMAIN globals /\ globals[slot] \in E BY <1>2, <1>3, <2>1, <2>2 DEF OwnAt, Slots
  <2>4. x \in E BY <1>3, <1>4, <2>3 DEF GlobalGet, Marks
  <2> QED BY <1>3, <2>1, <2>4 DEF Layered
<1>7. CASE n \notin Declared
  <2>1. E = {} BY <1>3, <1>7, BoundBy
  <2>2. n \in FreeNames BY <1>7 DEF FreeNames
  <2>3. FreeAt(W, Slots, n) BY <1>1, <1>2, <1>3, <2>2 DEF SlotInv
  <2>4. slot \in DOMAIN globals BY <1>3, <2>3 DEF FreeAt, Slots
  <2>5. CASE W # {}
    <3>1. Picks(W, globals[slot]) BY <1>3, <2>3, <2>5 DEF FreeAt, Slots
    <3>2. CASE W = {globals[slot]}
      <4>1. globals[slot] \notin Marks BY <1>5, <3>2
      <4>2. x = globals[slot] BY <1>3, <2>4, <4>1 DEF GlobalGet, Marks
      <4>3. W = {x} BY <3>2, <4>2
      <4> QED BY <1>3, <2>1, <2>5, <4>3 DEF Layered
    <3>3. CASE globals[slot] = Ambiguous /\ \E v, w \in W : v # w
      <4>1. x = Error BY <1>3, <2>4, <3>3 DEF GlobalGet
      <4> QED BY <1>3, <2>1, <2>5, <3>3, <4>1 DEF Layered
    <3> QED BY <3>1, <3>2, <3>3 DEF Picks
  <2>6. CASE W = {} /\ n \in DOMAIN Builtins
    <3>1. globals[slot] = Owned(Builtins[n]) BY <1>3, <2>3, <2>6 DEF FreeAt, Slots
    <3>2. Owned(Builtins[n]) \notin Marks
      <4>1. Owned(Builtins[n]).is = "value" BY ValuesAre
      <4> QED BY <4>1, MarksAre
    <3>3. x = globals[slot] BY <1>3, <2>4, <3>1, <3>2 DEF GlobalGet, Marks
    <3> QED BY <1>3, <2>1, <2>6, <3>1, <3>3 DEF Layered
  <2>7. CASE W = {} /\ n \notin DOMAIN Builtins
    <3>1. globals[slot] = Unset BY <1>3, <2>3, <2>7 DEF FreeAt, Slots
    <3>2. x = Error BY <1>3, <3>1 DEF GlobalGet
    <3> QED BY <1>3, <2>1, <2>7, <3>2 DEF Layered
  <2> QED BY <2>5, <2>6, <2>7
<1> QED BY <1>6, <1>7

LEMMA WalkerLayered ==
  ASSUME TodoInv, ScopeInv, WalkerDone, NEW n \in Plain
  PROVE  Layered("walker", n, Lookup(n))
<1>1. phase \in {"walk", "vm"} BY DEF WalkerDone
<1>2. \A i : <<0, i>> \notin todo BY NotWalked DEF WalkerDone, TodoInv, Linked
<1>3. WalkRan = Statement BY <1>2, AllWalked
<1>4. PICK E, W, x : E = Bindings(Statement, n) /\ W = Wildcard(Statement, n) /\ x = Lookup(n) OBVIOUS
<1>5. E = Explicit("walker", Statement, n) BY <1>4 DEF Bindings
<1>6. NameAt(E, W, scope, n) BY <1>1, <1>3, <1>4 DEF ScopeInv
<1>7. E \cap Marks = {} BY <1>5, StatementsWellFormed, ExplicitValues
<1>8. W \cap Marks = {} BY <1>4, WildcardValues
<1>9. CASE E # {}
  <2>1. n \in DOMAIN scope /\ scope[n].value \in E BY <1>6, <1>9 DEF NameAt
  <2>2. x \in E BY <1>4, <1>7, <2>1 DEF Lookup, Marks
  <2> QED BY <1>4, <1>5, <1>9, <2>2 DEF Layered
<1>10. CASE E = {} /\ W # {}
  <2>1. n \in DOMAIN scope /\ Picks(W, scope[n].value) BY <1>6, <1>10 DEF NameAt
  <2>2. CASE W = {scope[n].value}
    <3>1. scope[n].value \notin Marks BY <1>8, <2>2
    <3>2. x = scope[n].value BY <1>4, <2>1, <3>1 DEF Lookup, Marks
    <3>3. W = {x} BY <2>2, <3>2
    <3> QED BY <1>4, <1>5, <1>10, <3>3 DEF Layered
  <2>3. CASE scope[n].value = Ambiguous /\ \E v, w \in W : v # w
    <3>1. x = Error BY <1>4, <2>1, <2>3 DEF Lookup
    <3> QED BY <1>4, <1>5, <1>10, <2>3, <3>1 DEF Layered
  <2> QED BY <2>1, <2>2, <2>3 DEF Picks
<1>11. CASE E = {} /\ W = {}
  <2>1. n \notin DOMAIN scope BY <1>6, <1>11 DEF NameAt
  <2>2. x = Error BY <1>4, <2>1 DEF Lookup
  <2>3. n \notin DOMAIN Builtins BY DEF Plain
  <2> QED BY <1>4, <1>5, <1>11, <2>2, <2>3 DEF Layered
<1> QED BY <1>9, <1>10, <1>11

LEMMA LayeredNames == ASSUME Phase, TodoInv, SlotInv, ScopeInv PROVE NamesLayered
<1>1. Shape BY DEF Shape, Phase, ScopeInv, Sources, SlotInv, Sound, Layers, Slots
<1>2. VmDone => \A n \in Names \ DOMAIN Modules : Layered("vm", n, GlobalGet(n)) BY VmLayered
<1>3. WalkerDone => \A n \in Plain : Layered("walker", n, Lookup(n)) BY WalkerLayered
<1> QED BY <1>1, <1>2, <1>3 DEF NamesLayered, Plain

\* When a program has run, in either engine, a name is what its definitions and
\* named imports say, else its wildcards, else the builtins, and one that two
\* wildcards disagree about is an error to read, whatever the order of the
\* statements (eval_import, link.py, LoadedModule.fill).
THEOREM NamesLayeredAlways == Spec => []NamesLayered
<1> DEFINE I == Phase /\ TodoInv /\ SlotInv /\ ScopeInv
<1>1. Init => I
  <2>1. Init => Phase BY DEF Init, Phase
  <2> QED BY <2>1, SlotsInit, ScopeInit
<1>2. I /\ [Next]_vars => I' BY PhaseStep, TodoStep, SlotsStep, ScopeStep
<1>3. I => NamesLayered BY LayeredNames
<1> QED BY <1>1, <1>2, <1>3, PTL DEF Spec

-----------------------------------------------------------------------------
(* Linking: messages, in either engine. *)
Foreign(m) == m \in Methods /\ m # Ambiguous /\ m.owner # Main
LEMMA MethodsForeign == \A m \in DOMAIN Modules : \A h \in MessagesOf(m) : Foreign(MessageIn(m, h))
<1> SUFFICES ASSUME NEW mod \in DOMAIN Modules, NEW h \in MessagesOf(mod) PROVE Foreign(MessageIn(mod, h))
  OBVIOUS
<1>1. PICK m : m = MessageIn(mod, h) OBVIOUS
<1>2. m = Method(m.owner, m.of) /\ m.owner # Main BY <1>1, LinkingAssumption
<1>3. m.is = "method" BY <1>2, ValuesAre
<1>4. Ambiguous.is = "ambiguous" BY DEF Ambiguous
<1>5. m \in Methods BY <1>1 DEF Methods
<1> QED BY <1>1, <1>2, <1>3, <1>4, <1>5 DEF Foreign
LEMMA BroughtForeign ==
  ASSUME NEW engine, NEW ran, \A s \in ran : WellFormed(s), NEW h, NEW m \in Brought(engine, ran, h)
  PROVE  Foreign(m)
<1>1. \E s \in ran : \/ s.op \in {"star", "static"} /\ h \in MessagesOf(s.mod) /\ m = MessageIn(s.mod, h)
                     \/ /\ s.op \in {"item", "leaf"} /\ s.name \notin MembersOf(s.mod)
                        /\ m = MessageIn(s.mod, s.name)
  BY DEF Brought
<1>2. PICK s \in ran : \/ s.op \in {"star", "static"} /\ h \in MessagesOf(s.mod) /\ m = MessageIn(s.mod, h)
                       \/ /\ s.op \in {"item", "leaf"} /\ s.name \notin MembersOf(s.mod)
                          /\ m = MessageIn(s.mod, s.name)
  BY <1>1
<1>3. IsImport(s) BY <1>2 DEF IsImport
<1>4. s.mod \in DOMAIN Modules /\ (s.op \in {"item", "leaf"} => s.name \in Named(s.mod)) BY <1>3, OpsOf
<1> QED BY <1>2, <1>4, MethodsForeign DEF Named

\* The methods a statement offers, and the table that has adopted them.
Brings(engine, s, offered) ==
  \A h : /\ h \in DOMAIN offered => Brought(engine, {s}, h) = {offered[h]} /\ Foreign(offered[h])
         /\ h \notin DOMAIN offered => Brought(engine, {s}, h) = {}
Adopted(table, c, offered) ==
  \A h : /\ h \in DOMAIN offered => Has(c, h, MergeMessage(table, h, offered[h]))
         /\ h \notin DOMAIN offered => SameName(table, c, h)
LEMMA AdoptIs ==
  ASSUME NEW table, NEW offered PROVE Adopted(table, AdoptMessages(table, offered), offered)
BY DEF Adopted, AdoptMessages, Has, SameName

LEMMA MergeIs ==
  ASSUME NEW table, NEW h, NEW m
  PROVE  /\ h \notin DOMAIN table => MergeMessage(table, h, m) = m
         /\ h \in DOMAIN table => MergeMessage(table, h, m) \in {table[h], Ambiguous}
         /\ h \in DOMAIN table /\ (table[h] \in {m, Ambiguous} \/ table[h].owner = Main) =>
              MergeMessage(table, h, m) = table[h]
         /\ h \in DOMAIN table /\ table[h] \notin {m, Ambiguous} /\ table[h].owner # Main =>
              MergeMessage(table, h, m) = Ambiguous
<1>1. PICK x : x = table[h] OBVIOUS
<1> QED BY <1>1 DEF MergeMessage

LEMMA DefineIs == \A s, h : s = Define(h) => s.op = "fn" /\ s.name = h BY OpsAre

LEMMA BroughtGrows ==
  ASSUME NEW engine, NEW ran, NEW s, NEW h
  PROVE  /\ Is(Brought(engine, ran \cup {s}, h), Brought(engine, ran, h) \cup Brought(engine, {s}, h))
         /\ \A m : m \in Brought(engine, ran, h) => m \in Brought(engine, ran \cup {s}, h)
<1>1. Brought(engine, ran \cup {s}, h) = Brought(engine, ran, h) \cup Brought(engine, {s}, h) BY DEF Brought
<1> QED BY <1>1 DEF Is

LEMMA AdoptAt ==
  ASSUME NEW engine, NEW ran, NEW s, NEW table, NEW c, NEW offered, NEW h,
         \A r \in ran : WellFormed(r), s.op # "fn",
         Brings(engine, s, offered), Adopted(table, c, offered), MessageAt(engine, ran, table, h)
  PROVE  MessageAt(engine, ran \cup {s}, c, h)
<1>1. PICK B, C : B = Brought(engine, ran, h) /\ C = Brought(engine, ran \cup {s}, h) OBVIOUS
<1>2. Is(C, B \cup Brought(engine, {s}, h))
  <2>1. Is(Brought(engine, ran \cup {s}, h), Brought(engine, ran, h) \cup Brought(engine, {s}, h)) BY BroughtGrows
  <2> QED BY <1>1, <2>1 DEF Is
<1>3. Define(h) \in ran \cup {s} <=> Define(h) \in ran BY DefineIs
<1>4. \A m \in B : Foreign(m) BY <1>1, BroughtForeign
<1>5. CASE h \notin DOMAIN offered
  <2>1. C = B BY <1>2, <1>5 DEF Is, Brings
  <2>2. SameName(table, c, h) BY <1>5 DEF Adopted
  <2> QED BY <1>1, <1>3, <2>1, <2>2 DEF MessageAt, SameName
<1>6. CASE h \in DOMAIN offered
  <2>1. PICK m, r : m = offered[h] /\ r = MergeMessage(table, h, m) OBVIOUS
  <2>2. C = B \cup {m} BY <1>2, <1>6, <2>1 DEF Is, Brings
  <2>3. Foreign(m) BY <1>6, <2>1 DEF Brings
  <2>4. h \in DOMAIN c /\ c[h] = r BY <1>6, <2>1 DEF Adopted, Has
  <2>5. CASE Define(h) \in ran
    <3>1. h \in DOMAIN table /\ table[h] \in B \cup {Own(h), Ambiguous} BY <1>1, <2>5 DEF MessageAt
    <3>2. r \in {table[h], Ambiguous} BY <2>1, <3>1, MergeIs
    <3>3. r \in C \cup {Own(h), Ambiguous} BY <2>2, <3>1, <3>2
    <3> QED BY <1>1, <1>3, <2>4, <2>5, <3>3 DEF MessageAt
  <2>6. CASE Define(h) \notin ran /\ B = {}
    <3>1. h \notin DOMAIN table BY <1>1, <2>6 DEF MessageAt
    <3>2. r = m BY <2>1, <3>1, MergeIs
    <3>3. Picks(C, r) /\ C # {} BY <2>2, <2>6, <3>2 DEF Picks
    <3> QED BY <1>1, <1>3, <2>4, <2>6, <3>3 DEF MessageAt
  <2>7. CASE Define(h) \notin ran /\ B # {}
    <3>1. h \in DOMAIN table /\ Picks(B, table[h]) BY <1>1, <2>7 DEF MessageAt
    <3>2. PICK x : x = table[h] OBVIOUS
    <3>3. Ambiguous.owner # Main BY DEF Ambiguous, Main
    <3>4. x.owner # Main BY <1>4, <3>1, <3>2, <3>3 DEF Picks, Foreign
    <3>5. r = IF x \in {m, Ambiguous} THEN x ELSE Ambiguous
      <4>1. CASE x \in {m, Ambiguous}
        <5>1. r = x BY <2>1, <3>1, <3>2, <4>1, MergeIs
        <5> QED BY <4>1, <5>1
      <4>2. CASE x \notin {m, Ambiguous}
        <5>1. r = Ambiguous BY <2>1, <3>1, <3>2, <3>4, <4>2, MergeIs
        <5> QED BY <4>2, <5>1
      <4> QED BY <4>1, <4>2
    <3>6. Ambiguous \notin B /\ m # Ambiguous BY <1>4, <2>3 DEF Foreign
    <3>7. Picks(B \cup {m}, r) BY <3>1, <3>2, <3>5, <3>6, PicksMore
    <3>8. C # {} BY <2>2
    <3> QED BY <1>1, <1>3, <2>2, <2>4, <2>7, <3>7, <3>8 DEF MessageAt
  <2> QED BY <2>5, <2>6, <2>7
<1> QED BY <1>5, <1>6

LEMMA AdoptSendable ==
  ASSUME NEW names, NEW engine, NEW ran, NEW s, NEW table, NEW c, NEW offered, NEW answer,
         \A r \in ran : WellFormed(r), s.op # "fn",
         Brings(engine, s, offered), Adopted(table, c, offered), Sendable(names, engine, ran, table, answer)
  PROVE  Sendable(names, engine, ran \cup {s}, c, answer)
<1>1. \A h \in names : MessageAt(engine, ran \cup {s}, c, h) BY AdoptAt DEF Sendable
<1>2. AnswersAt(names, engine, ran, table, answer) BY DEF Sendable
<1>3. ASSUME NEW m \in DOMAIN answer
      PROVE  \/ answer[m] = m.owner
             \/ answer[m] = Main /\ \E r \in ran \cup {s} : r.op = "fn" /\ m \in Brought(engine, ran \cup {s}, r.name)
  <2>1. CASE answer[m] = m.owner BY <2>1
  <2>2. CASE answer[m] = Main /\ \E r \in ran : r.op = "fn" /\ m \in Brought(engine, ran, r.name)
    <3>1. PICK r \in ran : r.op = "fn" /\ m \in Brought(engine, ran, r.name) BY <2>2
    <3>2. m \in Brought(engine, ran \cup {s}, r.name) BY <3>1, BroughtGrows
    <3> QED BY <2>2, <3>1, <3>2
  <2> QED BY <1>2, <2>1, <2>2 DEF AnswersAt
<1>4. ASSUME NEW h \in names, Define(h) \in ran \cup {s}, c[h] # Ambiguous PROVE c[h] \in DOMAIN answer
  <2>1. Define(h) \in ran BY <1>4, DefineIs
  <2>2. MessageAt(engine, ran, table, h) BY DEF Sendable
  <2>3. h \in DOMAIN table BY <2>1, <2>2 DEF MessageAt
  <2>4. c[h] = table[h]
    <3>1. CASE h \in DOMAIN offered
      <4>1. c[h] = MergeMessage(table, h, offered[h]) BY <3>1 DEF Adopted, Has
      <4> QED BY <1>4, <2>3, <4>1, MergeIs
    <3>2. CASE h \notin DOMAIN offered BY <2>3, <3>2 DEF Adopted, SameName
    <3> QED BY <3>1, <3>2
  <2> QED BY <1>2, <1>4, <2>1, <2>4 DEF AnswersAt
<1>5. AnswersAt(names, engine, ran \cup {s}, c, answer) BY <1>2, <1>3, <1>4 DEF AnswersAt
<1> QED BY <1>1, <1>5 DEF Sendable

\* A definition, in a table and among the answers.
Registered(table, name) == IF name \in DOMAIN table /\ table[name] # Ambiguous THEN table[name] ELSE Own(name)
LEMMA OwnIs == \A n : Own(n) # Ambiguous /\ Own(n).owner = Main
<1> SUFFICES ASSUME NEW n PROVE Own(n) # Ambiguous /\ Own(n).owner = Main OBVIOUS
<1>1. Own(n).is = "method" BY ValuesAre DEF Own
<1>2. Ambiguous.is = "ambiguous" BY DEF Ambiguous
<1>3. Own(n).owner = Main BY DEF Own, Method
<1> QED BY <1>1, <1>2, <1>3
LEMMA RegisteredIs ==
  ASSUME NEW engine, NEW ran, NEW table, NEW h, \A r \in ran : WellFormed(r), MessageAt(engine, ran, table, h)
  PROVE  /\ Registered(table, h) \in Brought(engine, ran, h) \cup {Own(h)}
         /\ Registered(table, h) # Ambiguous
<1>1. PICK B, x : B = Brought(engine, ran, h) /\ x = table[h] OBVIOUS
<1>2. CASE h \in DOMAIN table /\ x # Ambiguous
  <2>1. Registered(table, h) = x BY <1>1, <1>2 DEF Registered
  <2>2. CASE Define(h) \in ran
    <3>1. x \in B \cup {Own(h), Ambiguous} BY <1>1, <2>2 DEF MessageAt
    <3> QED BY <1>1, <1>2, <2>1, <3>1
  <2>3. CASE Define(h) \notin ran
    <3>1. Picks(B, x) BY <1>1, <1>2, <2>3 DEF MessageAt
    <3>2. x \in B BY <1>2, <3>1 DEF Picks
    <3> QED BY <1>1, <1>2, <2>1, <3>2
  <2> QED BY <2>2, <2>3
<1>3. CASE ~(h \in DOMAIN table /\ x # Ambiguous)
  <2>1. Registered(table, h) = Own(h) BY <1>1, <1>3 DEF Registered
  <2> QED BY <2>1, OwnIs
<1> QED BY <1>2, <1>3

LEMMA BroughtNone ==
  ASSUME NEW engine, NEW s, s.op \in {"fn", "var"}, NEW h PROVE Brought(engine, {s}, h) = {}
BY DEF Brought

LEMMA RegisterSendable ==
  ASSUME NEW names, NEW engine, NEW ran, NEW s, s.op = "fn", NEW table, NEW answer, NEW c, NEW d, NEW method,
         \A r \in ran : WellFormed(r), s = Define(s.name), s.name \in names,
         method = Registered(table, s.name), c = With(table, s.name, method), d = With(answer, method, Main),
         Sendable(names, engine, ran, table, answer)
  PROVE  Sendable(names, engine, ran \cup {s}, c, d) /\ Has(c, s.name, method) /\ Has(d, method, Main)
<1>1. PICK name : name = s.name OBVIOUS
<1>2. Has(c, name, method) /\ \A h : h # name => SameName(table, c, h) BY <1>1, WithIs DEF Has, SameName
<1>3. Has(d, method, Main) /\ \A m : m # method => SameName(answer, d, m) BY WithIs DEF Has, SameName
<1>4. MessageAt(engine, ran, table, name) /\ AnswersAt(names, engine, ran, table, answer) BY <1>1 DEF Sendable
<1>5. method \in Brought(engine, ran, name) \cup {Own(name)} /\ method # Ambiguous BY <1>1, <1>4, RegisteredIs
<1>6. \A h : Is(Brought(engine, ran \cup {s}, h), Brought(engine, ran, h))
  <2> SUFFICES ASSUME NEW h PROVE Is(Brought(engine, ran \cup {s}, h), Brought(engine, ran, h)) OBVIOUS
  <2>1. Is(Brought(engine, ran \cup {s}, h), Brought(engine, ran, h) \cup Brought(engine, {s}, h)) BY BroughtGrows
  <2>2. Brought(engine, {s}, h) = {} BY BroughtNone
  <2> QED BY <2>1, <2>2 DEF Is
<1>7. \A h : Define(h) \in ran \cup {s} <=> Define(h) \in ran \/ h = name BY <1>1, DefineIs
<1>8. ASSUME NEW h \in names PROVE MessageAt(engine, ran \cup {s}, c, h)
  <2>1. PICK B : B = Brought(engine, ran, h) OBVIOUS
  <2>2. Brought(engine, ran \cup {s}, h) = B BY <1>6, <2>1 DEF Is
  <2>3. MessageAt(engine, ran, table, h) BY <1>8 DEF Sendable
  <2>4. CASE h = name
    <3>1. h \in DOMAIN c /\ c[h] \in B \cup {Own(h), Ambiguous} BY <1>2, <1>5, <2>1, <2>4 DEF Has
    <3> QED BY <1>7, <2>2, <2>4, <3>1 DEF MessageAt
  <2>5. CASE h # name
    <3>1. SameName(table, c, h) BY <1>2, <2>5
    <3> QED BY <1>7, <2>1, <2>2, <2>3, <2>5, <3>1 DEF MessageAt, SameName
  <2> QED BY <2>4, <2>5
<1>9. ASSUME NEW m \in DOMAIN d
      PROVE  \/ d[m] = m.owner
             \/ d[m] = Main /\ \E r \in ran \cup {s} : r.op = "fn" /\ m \in Brought(engine, ran \cup {s}, r.name)
  <2>1. CASE m = method
    <3>1. d[m] = Main BY <1>3, <2>1 DEF Has
    <3>2. CASE method = Own(name) BY <2>1, <3>1, <3>2, OwnIs
    <3>3. CASE method \in Brought(engine, ran, name)
      <4>1. m \in Brought(engine, ran \cup {s}, s.name) BY <1>1, <2>1, <3>3, BroughtGrows
      <4> QED BY <3>1, <4>1
    <3> QED BY <1>5, <3>2, <3>3
  <2>2. CASE m # method
    <3>1. m \in DOMAIN answer /\ d[m] = answer[m] BY <1>3, <1>9, <2>2 DEF SameName
    <3>2. CASE answer[m] = m.owner BY <3>1, <3>2
    <3>3. CASE answer[m] = Main /\ \E r \in ran : r.op = "fn" /\ m \in Brought(engine, ran, r.name)
      <4>1. PICK r \in ran : r.op = "fn" /\ m \in Brought(engine, ran, r.name) BY <3>3
      <4>2. m \in Brought(engine, ran \cup {s}, r.name) BY <4>1, BroughtGrows
      <4> QED BY <3>1, <3>3, <4>1, <4>2
    <3> QED BY <1>4, <3>1, <3>2, <3>3 DEF AnswersAt
  <2> QED BY <2>1, <2>2
<1>10. \A m \in DOMAIN answer : m \in DOMAIN d BY <1>3 DEF Has, SameName
<1>11. ASSUME NEW h \in names, Define(h) \in ran \cup {s}, c[h] # Ambiguous PROVE c[h] \in DOMAIN d
  <2>1. CASE h = name BY <1>2, <1>3, <2>1 DEF Has
  <2>2. CASE h # name
    <3>1. Define(h) \in ran BY <1>7, <1>11, <2>2
    <3>2. h \in DOMAIN table BY <1>11, <3>1 DEF Sendable, MessageAt
    <3>3. c[h] = table[h] BY <1>2, <2>2, <3>2 DEF SameName
    <3> QED BY <1>4, <1>10, <1>11, <3>1, <3>3 DEF AnswersAt
  <2> QED BY <2>1, <2>2
<1>12. Methods \subseteq DOMAIN d BY <1>4, <1>10 DEF AnswersAt
<1>13. AnswersAt(names, engine, ran \cup {s}, c, d) BY <1>9, <1>11, <1>12 DEF AnswersAt
<1> QED BY <1>1, <1>2, <1>3, <1>8, <1>13 DEF Sendable

\* What a statement does to the tables of an engine.
Moves(engine, s, table, c, answer, d) ==
  \/ /\ s.op # "fn" /\ d = answer
     /\ \E offered : Brings(engine, s, offered) /\ Adopted(table, c, offered)
  \/ /\ s.op = "fn" /\ c = With(table, s.name, Registered(table, s.name))
     /\ d = With(answer, Registered(table, s.name), Main)
LEMMA NamesItself == ASSUME NEW s, WellFormed(s), s.op = "fn" PROVE s = Define(s.name)
<1>1. ~IsImport(s) BY DEF IsImport
<1>2. s = Declare(s.name) => s.op = "var" BY OpsAre
<1> QED BY <1>1, <1>2, OpsOf
LEMMA MovesSendable ==
  ASSUME NEW names, NEW engine, NEW ran, NEW s, NEW table, NEW c, NEW answer, NEW d,
         \A r \in ran : WellFormed(r), WellFormed(s), s.op = "fn" => s.name \in names,
         Moves(engine, s, table, c, answer, d), Sendable(names, engine, ran, table, answer)
  PROVE  Sendable(names, engine, ran \cup {s}, c, d)
<1>1. CASE s.op # "fn"
  <2>1. PICK offered : d = answer /\ Brings(engine, s, offered) /\ Adopted(table, c, offered) BY <1>1 DEF Moves
  <2> QED BY <1>1, <2>1, AdoptSendable
<1>2. CASE s.op = "fn"
  <2>1. PICK method : method = Registered(table, s.name) OBVIOUS
  <2>2. c = With(table, s.name, method) /\ d = With(answer, method, Main) BY <1>2, <2>1 DEF Moves
  <2> QED BY <1>2, <2>1, <2>2, NamesItself, RegisterSendable
<1> QED BY <1>1, <1>2

\* A statement that brings none leaves the table.
LEMMA MovesNone ==
  ASSUME NEW engine, NEW s, NEW table, NEW answer, s.op # "fn", \A h : Brought(engine, {s}, h) = {}
  PROVE  Moves(engine, s, table, table, answer, answer)
<1>1. PICK none : none = [h \in {} |-> h] OBVIOUS
<1>2. Brings(engine, s, none) BY <1>1 DEF Brings
<1>3. Adopted(table, table, none) BY <1>1 DEF Adopted, SameName
<1> QED BY <1>2, <1>3 DEF Moves
LEMMA MovesAll ==
  ASSUME NEW engine, NEW s, NEW table, NEW answer, NEW excepts, IsImport(s), s.mod \in DOMAIN Modules,
         \A h : h \in MessagesOf(s.mod) \ excepts => Brought(engine, {s}, h) = {MessageIn(s.mod, h)},
         \A h : h \notin MessagesOf(s.mod) \ excepts => Brought(engine, {s}, h) = {}
  PROVE  Moves(engine, s, table, AdoptMessages(table, MessagesFrom(s.mod, excepts)), answer, answer)
<1>1. PICK offered : offered = MessagesFrom(s.mod, excepts) OBVIOUS
<1>2. DOMAIN offered = MessagesOf(s.mod) \ excepts BY <1>1 DEF MessagesFrom
<1>3. \A h \in DOMAIN offered : offered[h] = MessageIn(s.mod, h) BY <1>1 DEF MessagesFrom
<1>4. \A h \in DOMAIN offered : Foreign(offered[h]) BY <1>2, <1>3, MethodsForeign
<1>5. Brings(engine, s, offered) BY <1>2, <1>3, <1>4 DEF Brings
<1>6. Adopted(table, AdoptMessages(table, offered), offered) BY AdoptIs
<1>7. s.op # "fn" BY DEF IsImport
<1> QED BY <1>1, <1>5, <1>6, <1>7 DEF Moves

IsWalker(engine) == engine = "walker"
IsVm(engine) == engine = "vm"
LEMMA WalkerImport ==
  ASSUME NEW engine, NEW s, NEW table, NEW answer, IsWalker(engine), WellFormed(s), IsImport(s), NEW c,
         c = CASE s.op \in {"star", "static"} -> AdoptMessages(table, MessagesFrom(s.mod, s.excepts))
               [] s.op \in {"item", "leaf"} -> ImportMessage(s, table)
               [] OTHER -> table
  PROVE  Moves(engine, s, table, c, answer, answer)
<1>1. s.mod \in DOMAIN Modules /\ (s.op \in {"item", "leaf"} => s.name \in Named(s.mod)) BY OpsOf
<1>2. s.op # "fn" BY DEF IsImport
<1>3. CASE s.op \in {"star", "static"}
  <2>1. PICK excepts, all : excepts = s.excepts /\ all = AdoptMessages(table, MessagesFrom(s.mod, excepts)) OBVIOUS
  <2>2. c = all BY <1>3, <2>1
  <2>3. \A h : h \in MessagesOf(s.mod) \ excepts => Brought(engine, {s}, h) = {MessageIn(s.mod, h)}
    BY <1>3, <2>1 DEF Brought, IsWalker
  <2>4. \A h : h \notin MessagesOf(s.mod) \ excepts => Brought(engine, {s}, h) = {}
    BY <1>3, <2>1 DEF Brought, IsWalker
  <2>5. Moves(engine, s, table, AdoptMessages(table, MessagesFrom(s.mod, excepts)), answer, answer)
    BY <1>1, <2>3, <2>4, MovesAll
  <2> QED BY <2>1, <2>2, <2>5
<1>4. CASE s.op \in {"item", "leaf"} /\ s.name \in MembersOf(s.mod)
  <2>1. c = table BY <1>4 DEF ImportMessage
  <2>2. \A h : Brought(engine, {s}, h) = {} BY <1>4 DEF Brought, IsWalker
  <2> QED BY <1>2, <2>1, <2>2, MovesNone
<1>5. CASE s.op \in {"item", "leaf"} /\ s.name \notin MembersOf(s.mod)
  <2>1. PICK offered : offered = [h \in {s.as} |-> MessageIn(s.mod, s.name)] OBVIOUS
  <2>2. c = AdoptMessages(table, offered) BY <1>5, <2>1 DEF ImportMessage
  <2>3. s.name \in MessagesOf(s.mod) BY <1>1, <1>5 DEF Named
  <2>4. Foreign(MessageIn(s.mod, s.name)) BY <1>1, <2>3, MethodsForeign
  <2>5. \A h : /\ h = s.as => Brought(engine, {s}, h) = {MessageIn(s.mod, s.name)}
               /\ h # s.as => Brought(engine, {s}, h) = {}
    BY <1>5 DEF Brought, IsWalker
  <2>6. DOMAIN offered = {s.as} /\ offered[s.as] = MessageIn(s.mod, s.name) BY <2>1
  <2>7. Brings(engine, s, offered) BY <2>4, <2>5, <2>6 DEF Brings
  <2> QED BY <1>2, <2>2, <2>7, AdoptIs DEF Moves
<1>6. CASE s.op = "whole"
  <2>1. c = table BY <1>6
  <2>2. \A h : Brought(engine, {s}, h) = {} BY <1>6 DEF Brought, IsWalker
  <2> QED BY <1>2, <2>1, <2>2, MovesNone
<1> QED BY <1>3, <1>4, <1>5, <1>6 DEF IsImport
LEMMA VmStar ==
  ASSUME NEW engine, NEW s, NEW table, NEW answer, IsVm(engine), s.op = "star", s.mod \in DOMAIN Modules
  PROVE  Moves(engine, s, table, AdoptMessages(table, MessagesFrom(s.mod, {})), answer, answer)
<1>1. PICK none : none = {} OBVIOUS
<1>2. \A h : h \in MessagesOf(s.mod) \ none => Brought(engine, {s}, h) = {MessageIn(s.mod, h)}
  BY <1>1 DEF Brought, IsVm
<1>3. \A h : h \notin MessagesOf(s.mod) \ none => Brought(engine, {s}, h) = {}
  BY <1>1 DEF Brought, IsVm
<1>4. IsImport(s) BY DEF IsImport
<1> QED BY <1>1, <1>2, <1>3, <1>4, MovesAll
LEMMA VmOther ==
  ASSUME NEW engine, NEW s, NEW table, NEW answer, IsVm(engine), s.op \notin {"star", "fn"}
  PROVE  Moves(engine, s, table, table, answer, answer)
<1>1. \A h : Brought(engine, {s}, h) = {} BY DEF Brought, IsVm
<1> QED BY <1>1, MovesNone

-----------------------------------------------------------------------------
(* Linking: the messages through a run. *)
LEMMA WalkMoves ==
  ASSUME DOMAIN messages = Engines, DOMAIN answers = Engines, NEW s, WellFormed(s),
         \/ IsImport(s) /\ EvalImport(s)
         \/ s.op = "var" /\ EvalVar(s)
         \/ s.op = "fn" /\ RegisterOverload("walker", s.name)
  PROVE  /\ DOMAIN messages' = Engines /\ DOMAIN answers' = Engines
         /\ messages'["vm"] = messages["vm"] /\ answers'["vm"] = answers["vm"]
         /\ Moves("walker", s, messages["walker"], messages'["walker"], answers["walker"], answers'["walker"])
<1>1. PICK e, table, answer : e = "walker" /\ table = messages["walker"] /\ answer = answers["walker"] OBVIOUS
<1>2. IsWalker(e) BY <1>1 DEF IsWalker
<1>3. "walker" \in Engines /\ "vm" \in Engines /\ "walker" # "vm" BY DEF Engines
<1>4. CASE IsImport(s) /\ EvalImport(s)
  <2>1. PICK c : c = CASE s.op \in {"star", "static"} -> AdoptMessages(table, MessagesFrom(s.mod, s.excepts))
                       [] s.op \in {"item", "leaf"} -> ImportMessage(s, table)
                       [] OTHER -> table
    OBVIOUS
  <2>2. messages' = [messages EXCEPT !["walker"] = c] BY <1>1, <1>4, <2>1 DEF EvalImport
  <2>3. answers' = answers BY <1>4 DEF EvalImport
  <2>4. Moves(e, s, table, c, answer, answer) BY <1>2, <1>4, <2>1, WalkerImport
  <2>5. messages'["walker"] = c /\ messages'["vm"] = messages["vm"] /\ DOMAIN messages' = Engines
    BY <1>3, <2>2
  <2> QED BY <1>1, <2>3, <2>4, <2>5
<1>5. CASE s.op = "var" /\ EvalVar(s)
  <2>1. messages' = messages /\ answers' = answers BY <1>5 DEF EvalVar
  <2>2. \A h : Brought(e, {s}, h) = {} BY <1>5, BroughtNone
  <2>3. s.op # "fn" BY <1>5
  <2>4. Moves(e, s, table, table, answer, answer) BY <2>2, <2>3, MovesNone
  <2> QED BY <1>1, <2>1, <2>4
<1>6. CASE s.op = "fn" /\ RegisterOverload("walker", s.name)
  <2>1. PICK method : method = Registered(table, s.name) OBVIOUS
  <2>2. messages' = [messages EXCEPT !["walker"] = With(table, s.name, method)]
    BY <1>1, <1>6, <2>1 DEF RegisterOverload, Registered
  <2>3. answers' = [answers EXCEPT !["walker"] = With(answer, method, Main)]
    BY <1>1, <1>6, <2>1 DEF RegisterOverload, Registered
  <2>4. /\ messages'["walker"] = With(table, s.name, method) /\ messages'["vm"] = messages["vm"]
        /\ DOMAIN messages' = Engines
    BY <1>3, <2>2
  <2>5. /\ answers'["walker"] = With(answer, method, Main) /\ answers'["vm"] = answers["vm"]
        /\ DOMAIN answers' = Engines
    BY <1>3, <2>3
  <2> QED BY <1>1, <1>6, <2>1, <2>4, <2>5 DEF Moves
<1> QED BY <1>4, <1>5, <1>6

LEMMA ExecuteMoves ==
  ASSUME TodoInv, DOMAIN messages = Engines, DOMAIN answers = Engines, Execute
  PROVE  \E p \in todo :
           /\ p \in Compiled /\ todo' = todo \ {p} /\ program' = program /\ phase' \in {phase, "stopped"}
           /\ DOMAIN messages' = Engines /\ DOMAIN answers' = Engines
           /\ messages'["walker"] = messages["walker"] /\ answers'["walker"] = answers["walker"]
           /\ Moves("vm", program[p[2]], messages["vm"], messages'["vm"], answers["vm"], answers'["vm"])
<1>1. PICK p \in todo :
        /\ Due(p) /\ todo' = todo \ {p}
        /\ LET s == program[p[2]]
           IN  \/ p[1] = 1 /\ s.op # "star" /\ OpImport(IF s.op = "item" THEN Whole(s.mod, s.mod) ELSE s)
               \/ p[1] = 1 /\ s.op = "star" /\ OpImportStar(s)
               \/ p[1] = 2 /\ BindImportedName(s)
               \/ /\ p[1] = 3 /\ s.op = "var" /\ globals' = With(globals, Bare(s.name), Declaration(s.name))
                  /\ UNCHANGED <<layer, messages, answers, phase>>
               \/ p[1] = 3 /\ s.op = "fn" /\ RegisterOverload("vm", s.name) /\ UNCHANGED <<globals, layer, phase>>
  BY DEF Execute
<1>2. PICK s : s = program[p[2]] OBVIOUS
<1>3. program' = program /\ p \in Compiled BY DEF Execute, TodoInv, Linked
<1>4. s \in Statement /\ WellFormed(s) /\ (p[1] = 1 => IsImport(s)) /\ (p[1] = 2 => s.op = "item")
  BY <1>2, <1>3, RunsIs
<1>5. PICK e, table, answer : e = "vm" /\ table = messages["vm"] /\ answer = answers["vm"] OBVIOUS
<1>6. IsVm(e) BY <1>5 DEF IsVm
<1>7. "walker" \in Engines /\ "vm" \in Engines /\ "walker" # "vm" BY DEF Engines
<1>8. CASE messages' = messages /\ answers' = answers /\ s.op \notin {"star", "fn"} /\ phase' \in {phase, "stopped"}
  <2>1. Moves(e, s, table, table, answer, answer) BY <1>6, <1>8, VmOther
  <2> QED BY <1>1, <1>2, <1>3, <1>5, <1>8, <2>1
<1>9. CASE s.op = "star" /\ OpImportStar(s)
  <2>1. PICK c : c = AdoptMessages(table, MessagesFrom(s.mod, {})) OBVIOUS
  <2>2. messages' = [messages EXCEPT !["vm"] = c] /\ answers' = answers /\ phase' = phase
    BY <1>5, <1>9, <2>1 DEF OpImportStar
  <2>3. messages'["vm"] = c /\ messages'["walker"] = messages["walker"] /\ DOMAIN messages' = Engines
    BY <1>7, <2>2
  <2>4. IsImport(s) BY <1>9 DEF IsImport
  <2>5. Moves(e, s, table, c, answer, answer) BY <1>4, <1>6, <1>9, <2>1, <2>4, OpsOf, VmStar
  <2> QED BY <1>1, <1>2, <1>3, <1>5, <2>2, <2>3, <2>5
<1>10. CASE s.op = "fn" /\ RegisterOverload("vm", s.name) /\ phase' = phase
  <2>1. PICK method : method = Registered(table, s.name) OBVIOUS
  <2>2. messages' = [messages EXCEPT !["vm"] = With(table, s.name, method)]
    BY <1>5, <1>10, <2>1 DEF RegisterOverload, Registered
  <2>3. answers' = [answers EXCEPT !["vm"] = With(answer, method, Main)]
    BY <1>5, <1>10, <2>1 DEF RegisterOverload, Registered
  <2>4. /\ messages'["vm"] = With(table, s.name, method) /\ messages'["walker"] = messages["walker"]
        /\ DOMAIN messages' = Engines
    BY <1>7, <2>2
  <2>5. /\ answers'["vm"] = With(answer, method, Main) /\ answers'["walker"] = answers["walker"]
        /\ DOMAIN answers' = Engines
    BY <1>7, <2>3
  <2>6. Moves("vm", s, messages["vm"], messages'["vm"], answers["vm"], answers'["vm"])
    BY <1>5, <1>10, <2>1, <2>4, <2>5 DEF Moves
  <2> QED BY <1>1, <1>2, <1>3, <1>10, <2>4, <2>5, <2>6
<1>11. ASSUME p[1] = 1, s.op # "star", OpImport(IF s.op = "item" THEN Whole(s.mod, s.mod) ELSE s)
       PROVE  messages' = messages /\ answers' = answers /\ s.op \notin {"star", "fn"} /\ phase' \in {phase, "stopped"}
  BY <1>4, <1>11 DEF OpImport, IsImport
<1>12. ASSUME p[1] = 2, BindImportedName(s)
       PROVE  messages' = messages /\ answers' = answers /\ s.op \notin {"star", "fn"} /\ phase' \in {phase, "stopped"}
  BY <1>4, <1>12 DEF BindImportedName
<1> QED BY <1>1, <1>2, <1>8, <1>9, <1>10, <1>11, <1>12

\* No definition has run in the VM while an import has yet to.
LEMMA DefinedLast ==
  ASSUME TodoInv, Linked, NEW p \in todo, NEW h, Define(h) \in VmRan
  PROVE  p[1] = 3
<1>1. PICK q \in Executed : program[q[2]] = Define(h) BY DEF VmRan
<1>2. q \in Compiled /\ q \notin todo BY <1>1 DEF Executed
<1>3. ~IsImport(program[q[2]])
  <2>1. program[q[2]].op = "fn" BY <1>1, DefineIs
  <2> QED BY <2>1 DEF IsImport
<1>4. q[1] = 3
  <2>1. q[1] \in {1, 2, 3} BY <1>2 DEF Compiled
  <2>2. q[1] # 1 BY <1>2, <1>3, RunsIs
  <2>3. q[1] # 2 BY <1>2, <1>3, RunsIs DEF IsImport
  <2> QED BY <2>1, <2>2, <2>3
<1>5. p \in Compiled BY DEF TodoInv
<1>6. p[1] \in {1, 2, 3} BY <1>5 DEF Compiled
<1>7. ~Before(p, q) BY <1>2 DEF TodoInv
<1> QED BY <1>4, <1>6, <1>7 DEF Before

LEMMA VmMessagesStep ==
  ASSUME TodoInv, Linked, NEW p \in todo, NEW s, s = program[p[2]], NEW table, NEW c, NEW answer, NEW d,
         NEW ran, ran = VmRan, NEW names, s.op = "fn" => s.name \in names,
         NEW e, Moves(e, s, table, c, answer, d), Sendable(names, e, ran, table, answer),
         Ours(names, ran, table, answer)
  PROVE  /\ Sendable(names, e, ran \cup {s}, c, d)
         /\ Ours(names, ran \cup {s}, c, d)
<1>1. p \in Compiled BY DEF TodoInv
<1>2. s \in Statement /\ WellFormed(s) /\ (p[1] = 3 => ~IsImport(s)) BY <1>1, RunsIs
<1>3. \A r \in ran : WellFormed(r)
  <2> SUFFICES ASSUME NEW r \in ran PROVE WellFormed(r) OBVIOUS
  <2>1. PICK q \in Executed : r = program[q[2]] BY DEF VmRan
  <2> QED BY <2>1, RunsIs DEF Executed
<1>5. Moves(e, s, table, c, answer, d) /\ Sendable(names, e, ran, table, answer) OBVIOUS
<1>6. Sendable(names, e, ran \cup {s}, c, d) BY <1>2, <1>3, <1>5, MovesSendable
<1>7. ASSUME NEW h \in names, Define(h) \in ran \cup {s} PROVE c[h] # Ambiguous /\ d[c[h]] = Main
  <2>1. Define(h) \in ran => h \in DOMAIN table /\ table[h] # Ambiguous /\ answer[table[h]] = Main
    BY <1>5 DEF Sendable, MessageAt, Ours
  <2>2. Define(h) \in ran => table[h] \in DOMAIN answer BY <1>5, <2>1 DEF Sendable, AnswersAt
  <2>3. CASE s.op # "fn"
    <3>1. Define(h) \in ran BY <1>7, <2>3, DefineIs
    <3>2. p[1] = 3 BY <3>1, DefinedLast
    <3>3. s.op = "var"
      <4>1. s = Declare(s.name) \/ s = Define(s.name) BY <1>2, <3>2, OpsOf
      <4>2. s # Define(s.name) BY <2>3, DefineIs
      <4> QED BY <4>1, <4>2, OpsAre
    <3>4. PICK offered : d = answer /\ Brings(e, s, offered) /\ Adopted(table, c, offered) BY <1>5, <2>3 DEF Moves
    <3>5. Brought(e, {s}, h) = {} BY <3>3, BroughtNone
    <3>6. h \notin DOMAIN offered BY <3>4, <3>5 DEF Brings
    <3>7. c[h] = table[h] BY <2>1, <3>1, <3>4, <3>6 DEF Adopted, SameName
    <3> QED BY <2>1, <3>1, <3>4, <3>7
  <2>4. CASE s.op = "fn"
    <3>1. PICK method : method = Registered(table, s.name) OBVIOUS
    <3>2. c = With(table, s.name, method) /\ d = With(answer, method, Main) BY <1>5, <2>4, <3>1 DEF Moves
    <3>3. s = Define(s.name) BY <1>2, <2>4, NamesItself
    <3>4. Has(c, s.name, method) /\ Has(d, method, Main)
      BY <3>2, WithIs DEF Has
    <3>5. method # Ambiguous
      <4>1. MessageAt(e, ran, table, s.name) BY <1>5, <2>4 DEF Sendable
      <4> QED BY <1>3, <3>1, <4>1, RegisteredIs
    <3>6. CASE h = s.name BY <3>4, <3>5, <3>6 DEF Has
    <3>7. CASE h # s.name
      <4>1. Define(h) \in ran BY <1>7, <3>7, DefineIs
      <4>2. c[h] = table[h] BY <2>1, <3>2, <3>7, <4>1, WithIs
      <4>3. table[h] # method => d[table[h]] = answer[table[h]] BY <2>2, <3>2, <4>1, WithIs
      <4>4. table[h] = method => d[table[h]] = Main BY <3>4 DEF Has
      <4> QED BY <2>1, <4>1, <4>2, <4>3, <4>4
    <3> QED BY <3>6, <3>7
  <2> QED BY <2>3, <2>4
<1> QED BY <1>6, <1>7 DEF Ours

LEMMA CalledIs == ASSUME program' = program PROVE Called' = Called BY DEF Called, Sendables, Defines, Statement
LEMMA StatementCalled == ASSUME NEW s \in Statement PROVE s.name \in Called
<1>1. s.name \in Defines BY DEF Defines
<1> QED BY <1>1 DEF Called

\* Of the definitions walked, the first had no import before it.
LEMMA FirstStep ==
  ASSUME TodoInv, phase = "walk", NEW i \in DOMAIN program, <<0, i>> \in todo,
         todo' = todo \ {<<0, i>>}, program' = program, NEW h, First(h)'
  PROVE  First(h) \/ (program[i] = Define(h) /\ \A r \in WalkRan : ~IsImport(r))
<1>1. PICK k \in DOMAIN program : /\ <<0, k>> \notin todo' /\ program[k] = Define(h)
                                  /\ \A j \in DOMAIN program : j < k => ~IsImport(program[j])
  BY DEF First
<1>2. CASE <<0, k>> \notin todo BY <1>1, <1>2 DEF First
<1>3. CASE <<0, k>> \in todo
  <2>1. k = i
    <3>1. <<0, k>> = <<0, i>> BY <1>1, <1>3
    <3> QED BY <3>1
  <2>2. ASSUME NEW r \in WalkRan PROVE ~IsImport(r)
    <3>1. PICK j \in DOMAIN program : <<0, j>> \notin todo /\ r = program[j] BY DEF WalkRan
    <3>2. DOMAIN program \subseteq Nat BY LinkingAssumption DEF TodoInv
    <3>3. <<0, j>> \in Walking BY DEF Walking
    <3>4. ~Before(<<0, i>>, <<0, j>>) BY <3>1, <3>3 DEF TodoInv, Linked
    <3>5. ~(i < j) BY <3>4 DEF Before
    <3>6. j # i BY <3>1
    <3>7. j < i BY <3>2, <3>5, <3>6
    <3> QED BY <1>1, <2>1, <3>1, <3>7
  <2> QED BY <1>1, <2>1, <2>2
<1> QED BY <1>2, <1>3

LEMMA FirstRan == ASSUME NEW h, First(h) PROVE Define(h) \in WalkRan
BY DEF First, WalkRan

\* It stays the program's own.
LEMMA FirstMoves ==
  ASSUME NEW names, NEW engine, NEW ran, NEW s, NEW table, NEW c, NEW answer, NEW d, NEW h \in names,
         \A r \in ran : WellFormed(r), WellFormed(s), s.op = "fn" => s.name \in names,
         Moves(engine, s, table, c, answer, d), Sendable(names, engine, ran, table, answer),
         \/ Define(h) \in ran /\ table[h] = Own(h)
         \/ s = Define(h) /\ \A r \in ran : ~IsImport(r)
  PROVE  Is(c[h], Own(h))
<1> SUFFICES c[h] = Own(h) BY DEF Is
<1>1. MessageAt(engine, ran, table, h) BY DEF Sendable
<1>2. Define(h) \in ran => h \in DOMAIN table BY <1>1 DEF MessageAt
<1>3. Own(h) # Ambiguous /\ Own(h).owner = Main BY OwnIs
<1>4. CASE s.op # "fn"
  <2>1. Define(h) \in ran /\ table[h] = Own(h) BY <1>4, DefineIs
  <2>2. PICK offered : Adopted(table, c, offered) BY <1>4 DEF Moves
  <2>3. CASE h \in DOMAIN offered
    <3>1. c[h] = MergeMessage(table, h, offered[h]) BY <2>2, <2>3 DEF Adopted, Has
    <3> QED BY <1>2, <1>3, <2>1, <3>1, MergeIs
  <2>4. CASE h \notin DOMAIN offered BY <1>2, <2>1, <2>2, <2>4 DEF Adopted, SameName
  <2> QED BY <2>3, <2>4
<1>5. CASE s.op = "fn"
  <2>1. PICK method : method = Registered(table, s.name) OBVIOUS
  <2>2. c = With(table, s.name, method) BY <1>5, <2>1 DEF Moves
  <2>3. CASE h = s.name
    <3>1. c[h] = method BY <2>2, <2>3, WithIs
    <3>2. CASE Define(h) \in ran /\ table[h] = Own(h)
      <4>1. method = Own(h) BY <1>2, <1>3, <2>1, <2>3, <3>2 DEF Registered
      <4> QED BY <3>1, <4>1
    <3>3. CASE \A r \in ran : ~IsImport(r)
      <4>1. Brought(engine, ran, h) = {} BY <3>3 DEF Brought, IsImport
      <4>2. method = Own(h) BY <1>1, <2>1, <2>3, <4>1, RegisteredIs
      <4> QED BY <3>1, <4>2
    <3> QED BY <3>2, <3>3
  <2>4. CASE h # s.name
    <3>1. Define(h) \in ran /\ table[h] = Own(h) BY <2>4, DefineIs
    <3>2. c[h] = table[h] BY <1>2, <2>2, <2>4, <3>1, WithIs
    <3> QED BY <3>1, <3>2
  <2> QED BY <2>3, <2>4
<1> QED BY <1>4, <1>5

LEMMA WalkRanWellFormed == ASSUME TodoInv PROVE \A r \in WalkRan : WellFormed(r)
BY LinkingAssumption DEF TodoInv, WalkRan

LEMMA MessagesInit == ASSUME Init PROVE MessagesInv
<1>1. messages = [e \in Engines |-> <<>>] /\ answers = [e \in Engines |-> [m \in Methods |-> m.owner]]
  BY DEF Init
<1>2. phase = "walk" /\ todo = Walking BY DEF Init, Walking
<1>3. "walker" \in Engines /\ "vm" \in Engines BY DEF Engines
<1>4. WalkRan = {} BY <1>2 DEF WalkRan, Walking
<1>5. Ran = {} BY <1>2 DEF Ran, Linked
<1>6. PICK table, answer : table = <<>> /\ answer = [m \in Methods |-> m.owner] OBVIOUS
<1>7. messages["walker"] = table /\ messages["vm"] = table /\ answers["walker"] = answer /\ answers["vm"] = answer
  BY <1>1, <1>3, <1>6
<1>8. \A e, h : Brought(e, {}, h) = {} BY DEF Brought
<1>9. \A e, h : MessageAt(e, {}, table, h) BY <1>6, <1>8 DEF MessageAt
<1>10. \A e : AnswersAt(Called, e, {}, table, answer) BY <1>6 DEF AnswersAt
<1>11. \A e : Sendable(Called, e, {}, table, answer) BY <1>9, <1>10 DEF Sendable
<1>12. \A h : ~First(h) BY <1>2 DEF First, Walking
<1>13. WalkerMessages BY <1>4, <1>7, <1>11, <1>12 DEF WalkerMessages
<1>14. VmMessages BY <1>5, <1>7, <1>11 DEF VmMessages, Ours
<1> QED BY <1>1, <1>13, <1>14 DEF MessagesInv

LEMMA MessagesWalk == ASSUME TodoInv, MessagesInv, Walk PROVE MessagesInv'
<1>1. PICK p \in todo, i \in DOMAIN program :
        /\ p = <<0, i>> /\ Due(p) /\ todo' = todo \ {p} /\ program' = program
        /\ WalkRan' = WalkRan \cup {program[i]}
        /\ \/ IsImport(program[i]) /\ EvalImport(program[i])
           \/ program[i].op = "var" /\ EvalVar(program[i])
           \/ /\ program[i].op = "fn" /\ RegisterOverload("walker", program[i].name)
              /\ UNCHANGED <<scope, phase>>
  BY WalkIs
<1>2. PICK s : s = program[i] OBVIOUS
<1>3. s \in Statement /\ WellFormed(s) BY <1>2, LinkingAssumption DEF TodoInv, Statement
<1>4. PICK table, c, answer, d : /\ table = messages["walker"] /\ c = messages'["walker"]
                                 /\ answer = answers["walker"] /\ d = answers'["walker"]
  OBVIOUS
<1>5. DOMAIN messages = Engines /\ DOMAIN answers = Engines BY DEF MessagesInv
<1>6. /\ DOMAIN messages' = Engines /\ DOMAIN answers' = Engines
      /\ messages'["vm"] = messages["vm"] /\ answers'["vm"] = answers["vm"]
      /\ Moves("walker", s, table, c, answer, d)
  BY <1>1, <1>2, <1>3, <1>4, <1>5, WalkMoves
<1>7. phase = "walk" /\ phase' \in {"walk", "failed"} BY DEF Walk, EvalImport, EvalVar
<1>8. PICK names, ran, e : names = Called /\ ran = WalkRan /\ e = "walker" OBVIOUS
<1>9. Called' = names BY <1>1, <1>8, CalledIs
<1>10. Sendable(names, e, ran, table, answer) BY <1>4, <1>7, <1>8 DEF MessagesInv, WalkerMessages
<1>11. \A r \in ran : WellFormed(r) BY <1>8, WalkRanWellFormed
<1>12. s.name \in names BY <1>3, <1>8, StatementCalled
<1>13. Moves(e, s, table, c, answer, d) BY <1>6, <1>8
<1>14. Sendable(names, e, ran \cup {s}, c, d) BY <1>3, <1>10, <1>11, <1>12, <1>13, MovesSendable
<1>15. ASSUME NEW h \in names, First(h)' PROVE c[h] = Own(h)
  <2>1. First(h) \/ (s = Define(h) /\ \A r \in ran : ~IsImport(r)) BY <1>1, <1>2, <1>7, <1>8, <1>15, FirstStep
  <2>2. First(h) => Define(h) \in ran /\ table[h] = Own(h)
    BY <1>4, <1>7, <1>8, FirstRan DEF MessagesInv, WalkerMessages
  <2>3. (Define(h) \in ran /\ table[h] = Own(h)) \/ (s = Define(h) /\ \A r \in ran : ~IsImport(r))
    BY <2>1, <2>2
  <2>4. h \in names /\ WellFormed(s) /\ (s.op = "fn" => s.name \in names) BY <1>3, <1>12, <1>15
  <2> HIDE <1>1, <1>2, <1>4, <1>8
  <2>5. Is(c[h], Own(h)) BY <1>10, <1>11, <1>13, <2>3, <2>4, FirstMoves
  <2> QED BY <2>5 DEF Is
<1>16. WalkerMessages' BY <1>1, <1>2, <1>4, <1>8, <1>9, <1>14, <1>15 DEF WalkerMessages
<1>17. VmMessages'
  <2>1. Ran = {} /\ Ran' = {} BY <1>7 DEF Ran, Linked
  <2> QED BY <1>6, <1>8, <1>9, <2>1 DEF MessagesInv, VmMessages
<1> QED BY <1>6, <1>16, <1>17 DEF MessagesInv

LEMMA MessagesExecute == ASSUME TodoInv, MessagesInv, Execute PROVE MessagesInv'
<1>1. DOMAIN messages = Engines /\ DOMAIN answers = Engines BY DEF MessagesInv
<1>2. PICK p \in todo :
        /\ p \in Compiled /\ todo' = todo \ {p} /\ program' = program /\ phase' \in {phase, "stopped"}
        /\ DOMAIN messages' = Engines /\ DOMAIN answers' = Engines
        /\ messages'["walker"] = messages["walker"] /\ answers'["walker"] = answers["walker"]
        /\ Moves("vm", program[p[2]], messages["vm"], messages'["vm"], answers["vm"], answers'["vm"])
  BY <1>1, ExecuteMoves
<1>3. PICK s : s = program[p[2]] OBVIOUS
<1>4. PICK table, c, answer, d : /\ table = messages["vm"] /\ c = messages'["vm"]
                                 /\ answer = answers["vm"] /\ d = answers'["vm"]
  OBVIOUS
<1>5. PICK names, ran, e : names = Called /\ ran = VmRan /\ e = "vm" OBVIOUS
<1>6. Called' = names BY <1>2, <1>5, CalledIs
<1>7. Linked /\ Linked' BY <1>2 DEF Execute, Linked
<1>8. Ran = ran /\ VmRan' = ran \cup {s} /\ Ran' = ran \cup {s}
  BY <1>2, <1>3, <1>5, <1>7, ExecutedGrows DEF Ran
<1>9. s.name \in names BY <1>2, <1>3, <1>5, RunsIs, StatementCalled
<1>10. /\ Sendable(names, e, ran, table, answer)
       /\ Ours(names, ran, table, answer)
  BY <1>4, <1>5, <1>8 DEF MessagesInv, VmMessages
<1>11. /\ Sendable(names, e, ran \cup {s}, c, d)
       /\ Ours(names, ran \cup {s}, c, d)
  <2>1. Moves(e, s, table, c, answer, d) BY <1>2, <1>3, <1>4, <1>5
  <2>2. p \in todo /\ s = program[p[2]] /\ ran = VmRan /\ Linked BY <1>2, <1>3, <1>5, <1>7
  <2> QED BY <1>9, <1>10, <2>1, <2>2, VmMessagesStep
<1>12. VmMessages' BY <1>4, <1>5, <1>6, <1>8, <1>11 DEF VmMessages
<1>13. WalkerMessages'
  <2>1. todo \subseteq Compiled BY <1>7 DEF TodoInv
  <2>2. \A i : <<0, i>> \notin todo /\ <<0, i>> \notin todo' BY <1>2, <2>1, NotWalked
  <2>3. WalkRan = Statement BY <2>2, AllWalked
  <2>4. WalkRan' = Statement BY <1>2, <2>2 DEF WalkRan, Statement
  <2>5. \A h : First(h)' => First(h) BY <1>2, <2>2 DEF First
  <2>6. PICK w : w = WalkRan OBVIOUS
  <2> QED BY <1>2, <1>5, <1>6, <2>3, <2>4, <2>5, <2>6 DEF MessagesInv, WalkerMessages
<1> QED BY <1>2, <1>12, <1>13 DEF MessagesInv

LEMMA MessagesLoad == ASSUME TodoInv, MessagesInv, LoadModule PROVE MessagesInv'
<1>1. program' = program /\ todo' = Compiled /\ messages' = messages /\ answers' = answers
      /\ (phase' = "vm" => phase = "walk" /\ todo = {}) /\ phase' \in {"vm", "vm only"}
      /\ phase \in {"walk", "failed"}
  BY DEF LoadModule
<1>2. PICK names : names = Called OBVIOUS
<1>3. Called' = names BY <1>1, <1>2, CalledIs
<1>4. VmMessages'
  <2>1. Ran = {} BY <1>1 DEF Ran, Linked
  <2>2. Compiled' = Compiled BY <1>1 DEF Compiled
  <2>3. Executed' = {} BY <1>1, <2>2 DEF Executed
  <2>4. VmRan' = {} BY <2>3 DEF VmRan
  <2>5. Ran' = {} BY <2>4 DEF Ran
  <2> QED BY <1>1, <1>2, <1>3, <2>1, <2>5 DEF MessagesInv, VmMessages
<1>5. WalkerMessages'
  <2>1. CASE phase' = "vm"
    <3>1. todo = {} /\ phase = "walk" BY <1>1, <2>1
    <3>2. WalkRan = Statement BY <3>1, AllWalked
    <3>3. \A i : <<0, i>> \notin todo' BY <1>1, NotWalked
    <3>4. WalkRan' = Statement BY <1>1, <3>3 DEF WalkRan, Statement
    <3>5. \A h : First(h)' => First(h) BY <1>1, <3>1 DEF First
    <3>6. PICK w : w = WalkRan OBVIOUS
    <3> QED BY <1>1, <1>2, <1>3, <3>1, <3>2, <3>4, <3>5, <3>6 DEF MessagesInv, WalkerMessages
  <2>2. CASE phase' # "vm" BY <1>1, <2>2 DEF WalkerMessages
  <2> QED BY <2>1, <2>2
<1> QED BY <1>1, <1>4, <1>5 DEF MessagesInv

LEMMA MessagesStep == ASSUME TodoInv, MessagesInv, [Next]_vars PROVE MessagesInv'
<1>1. CASE Done \/ UNCHANGED vars
  <2>1. UNCHANGED vars BY <1>1 DEF Done
  <2>2. Called' = Called /\ WalkRan' = WalkRan /\ Ran' = Ran /\ \A h : First(h)' => First(h)
    BY <2>1 DEF vars, Called, Sendables, Defines, Statement, WalkRan, Ran, Linked, VmRan, Executed, Compiled, First
  <2>3. PICK names, w, r : names = Called /\ w = WalkRan /\ r = Ran OBVIOUS
  <2>4. messages' = messages /\ answers' = answers /\ phase' = phase BY <2>1 DEF vars
  <2>5. WalkerMessages' BY <2>2, <2>3, <2>4 DEF MessagesInv, WalkerMessages
  <2>6. VmMessages' BY <2>2, <2>3, <2>4 DEF MessagesInv, VmMessages
  <2> QED BY <2>4, <2>5, <2>6 DEF MessagesInv
<1> QED BY <1>1, MessagesWalk, MessagesLoad, MessagesExecute DEF Next

LEMMA AnsweredImport ==
  ASSUME NEW names, NEW e, NEW ran, ran = Statement, NEW table, table = messages[e], NEW answer, answer = answers[e],
         TodoInv, Sendable(names, e, ran, table, answer), NEW h \in names, Define(h) \notin Statement
  PROVE  AnsweredByImport(e, h, Sends(e, h))
<1>1. PICK W, x : W = Brought(e, ran, h) /\ x = table[h] OBVIOUS
<1>2. MessageAt(e, ran, table, h) /\ AnswersAt(names, e, ran, table, answer) BY DEF Sendable
<1>3. \A m \in W : Foreign(m) BY <1>1, StatementsWellFormed, BroughtForeign
<1>4. CASE W = {}
  <2>1. h \notin DOMAIN table BY <1>1, <1>2, <1>4 DEF MessageAt
  <2>2. Sends(e, h) = Error BY <2>1 DEF Sends
  <2> QED BY <1>1, <1>4, <2>2 DEF AnsweredByImport
<1>5. CASE W # {}
  <2>1. h \in DOMAIN table /\ Picks(W, x) BY <1>1, <1>2, <1>5 DEF MessageAt
  <2>2. CASE W = {x}
    <3>1. Foreign(x) BY <1>3, <2>2
    <3>2. x \in DOMAIN answer BY <1>2, <3>1 DEF AnswersAt, Foreign
    <3>3. Sends(e, h) = Module(answer[x]) BY <1>1, <2>1, <3>1 DEF Sends, Foreign
    <3>4. \/ answer[x] = x.owner
          \/ answer[x] = Main /\ \E s \in ran : s.op = "fn" /\ x \in Brought(e, ran, s.name)
      BY <1>2, <3>2 DEF AnswersAt
    <3>5. x \in W BY <2>2
    <3> QED BY <1>1, <2>2, <3>3, <3>4, <3>5 DEF AnsweredByImport
  <2>3. CASE x = Ambiguous /\ \E v, w \in W : v # w
    <3>1. Sends(e, h) = Error BY <1>1, <2>3 DEF Sends
    <3> QED BY <1>1, <2>3, <3>1 DEF AnsweredByImport
  <2> QED BY <2>1, <2>2, <2>3 DEF Picks
<1> QED BY <1>4, <1>5

LEMMA VmSends ==
  ASSUME TodoInv, MessagesInv, VmDone, NEW h \in Sendables
  PROVE  /\ Define(h) \notin Statement => AnsweredByImport("vm", h, Sends("vm", h))
         /\ Define(h) \in Statement => Sends("vm", h) = Module(Main)
<1>1. todo = {} /\ phase \in {"vm", "vm only"} BY DEF VmDone
<1>2. PICK names, ran, e : names = Called /\ ran = Statement /\ e = "vm" OBVIOUS
<1>3. PICK table, answer : table = messages[e] /\ answer = answers[e] OBVIOUS
<1>4. Ran = ran BY <1>1, <1>2, AllExecuted DEF Ran, Linked
<1>5. Sendable(names, e, ran, table, answer) /\ Ours(names, ran, table, answer)
  BY <1>2, <1>3, <1>4 DEF MessagesInv, VmMessages
<1>6. h \in names BY <1>2 DEF Called
<1>7. ASSUME Define(h) \notin Statement PROVE AnsweredByImport(e, h, Sends(e, h))
  BY <1>2, <1>3, <1>5, <1>6, <1>7, AnsweredImport
<1>8. ASSUME Define(h) \in Statement PROVE Sends(e, h) = Module(Main)
  <2>1. h \in DOMAIN table BY <1>2, <1>5, <1>6, <1>8 DEF Sendable, MessageAt
  <2>2. table[h] # Ambiguous /\ answer[table[h]] = Main BY <1>2, <1>5, <1>6, <1>8 DEF Ours
  <2> QED BY <1>3, <2>1, <2>2 DEF Sends
<1> QED BY <1>2, <1>7, <1>8

LEMMA WalkerSends ==
  ASSUME TodoInv, MessagesInv, WalkerDone, NEW h \in Sendables
  PROVE  /\ Define(h) \notin Statement => AnsweredByImport("walker", h, Sends("walker", h))
         /\ FirstDefined(h) => Sends("walker", h) = Module(Main)
<1>1. phase \in {"walk", "vm"} BY DEF WalkerDone
<1>2. \A i : <<0, i>> \notin todo BY NotWalked DEF WalkerDone, TodoInv, Linked
<1>3. WalkRan = Statement BY <1>2, AllWalked
<1>4. PICK names, ran, e : names = Called /\ ran = Statement /\ e = "walker" OBVIOUS
<1>5. PICK table, answer : table = messages[e] /\ answer = answers[e] OBVIOUS
<1>6. Sendable(names, e, ran, table, answer) BY <1>1, <1>3, <1>4, <1>5 DEF MessagesInv, WalkerMessages
<1>7. h \in names BY <1>4 DEF Called
<1>8. ASSUME Define(h) \notin Statement PROVE AnsweredByImport(e, h, Sends(e, h))
  BY <1>4, <1>5, <1>6, <1>7, <1>8, AnsweredImport
<1>9. ASSUME FirstDefined(h) PROVE Sends(e, h) = Module(Main)
  <2>1. First(h) BY <1>2, <1>9 DEF First, FirstDefined
  <2>2. table[h] = Own(h) BY <1>1, <1>4, <1>5, <1>7, <2>1 DEF MessagesInv, WalkerMessages
  <2>3. Define(h) \in ran BY <1>3, <1>4, <2>1, FirstRan
  <2>4. MessageAt(e, ran, table, h) /\ AnswersAt(names, e, ran, table, answer) BY <1>6, <1>7 DEF Sendable
  <2>5. h \in DOMAIN table BY <2>3, <2>4 DEF MessageAt
  <2>6. table[h] # Ambiguous /\ table[h].owner = Main BY <2>2, OwnIs
  <2>7. table[h] \in DOMAIN answer BY <1>7, <2>3, <2>4, <2>6 DEF AnswersAt
  <2>8. answer[table[h]] = Main BY <2>4, <2>6, <2>7 DEF AnswersAt
  <2> QED BY <1>5, <2>5, <2>6, <2>8 DEF Sends
<1> QED BY <1>4, <1>8, <1>9

LEMMA LayeredMessages == ASSUME TodoInv, MessagesInv PROVE MessagesLayered
<1>1. SUFFICES ASSUME NEW e \in Engines, NEW h \in Sendables, IF e = "vm" THEN VmDone ELSE WalkerDone
               PROVE  /\ Define(h) \notin Statement => AnsweredByImport(e, h, Sends(e, h))
                      /\ (IF e = "vm" THEN Define(h) \in Statement ELSE FirstDefined(h)) => Sends(e, h) = Module(Main)
  BY DEF MessagesLayered, Sendables
<1>2. CASE e = "vm" BY <1>1, <1>2, VmSends
<1>3. CASE e = "walker" BY <1>1, <1>3, WalkerSends
<1> QED BY <1>2, <1>3 DEF Engines

\* A message that imports alone bring is answered by the module of its one
\* method, or is an error to send; one the program defines is answered by the
\* program: in the VM always, in the walker if it is defined before the imports
\* (adopt_messages, register_overload).
THEOREM MessagesLayeredAlways == Spec => []MessagesLayered
<1> DEFINE I == TodoInv /\ MessagesInv
<1>1. Init => I BY SlotsInit, MessagesInit
<1>2. I /\ [Next]_vars => I' BY TodoStep, MessagesStep
<1>3. I => MessagesLayered BY LayeredMessages
<1> QED BY <1>1, <1>2, <1>3, PTL DEF Spec
=============================================================================

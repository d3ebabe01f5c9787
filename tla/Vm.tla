--------------------------------- MODULE Vm ---------------------------------
(***************************************************************************)
(* The bytecode interpreter on one image: the dispatch loop and the defers *)
(* of vm/interp.py, the frames of vm/frame.py.  Each step is one           *)
(* instruction, one deferred block started or one frame left.  The calls   *)
(* the code makes on the host's stack are the frames of `stack`.           *)
(***************************************************************************)
EXTENDS Values, SequencesExt, FiniteSets

VARIABLES image,        \* the function table, the program's own body last
          stack,        \* the frames, the running one last
          boxes,        \* contents of the one-element pair lists the code made
          iters,        \* the iterators: what is left of each
          out,          \* what was printed
          outcome,      \* how the run ended, or "running"
          strayed       \* history: what the run did that its source does not say
vmVars == <<image, stack, boxes, iters, out, outcome, strayed>>

Box(i)  == Val("box", i, <<>>)
Iter(i) == Val("iter", i, <<>>)

\* A Frame: the L window, blank at first; the P frame; where its result goes
\* (`base` in the caller, -1 for a deferred block); the armed defers.  Once it
\* leaves, by "return" or "raise", `due` are the defers still to run.
Frame(f, args, base) ==
  [fn |-> f.n, ip |-> 0, l |-> [i \in 1..image[f.n].nlocals |-> Blank], p |-> args \o f.items,
   base |-> base, defers |-> <<>>, leaving |-> "no", due |-> <<>>, value |-> Nil]
Top      == Last(stack)
Code     == image[Top.fn].code
Cur      == Code[Top.ip + 1]
Running  == stack # <<>> /\ Top.leaving = "no"
Get(r)   == IF r >= 0 THEN Top.l[r + 1] ELSE Top.p[-r]
Put(fr, r, v) == IF r >= 0 THEN [fr EXCEPT !.l[r + 1] = v] ELSE [fr EXCEPT !.p[-r] = v]
Window(base, n) == [i \in 1..n |-> Get(base + i - 1)]
Advanced == [Top EXCEPT !.ip = @ + 1]
Replace(fr) == stack' = [stack EXCEPT ![Len(stack)] = fr]

\* Leaving by an exception: every armed defer runs, unless the frame was
\* already running its defers - those it had left are lost.
Failing(fr) == [fr EXCEPT !.leaving = "raise", !.defers = <<>>,
                          !.due = IF fr.leaving = "no" THEN Reverse(fr.defers) ELSE <<>>]
RaiseHere == Replace(Failing(Top))

Straying(how) == strayed' = strayed \cup how
\* The registers an instruction reads: a fresh slot is None, `var x` is Unset.
Reads(ins) ==
  CASE ins.op \in {"move", "not", "iter"} -> {ins.b}
    [] ins.op = "add" -> {ins.b, ins.c}
    [] ins.op \in {"getidx", "itnext"} -> {ins.b}
    [] ins.op = "setidx" -> {ins.a, ins.c}
    [] ins.op \in {"jf", "jt", "jnerr", "return"} -> {ins.a}
    [] ins.op = "call" -> ins.a..(ins.a + ins.b)
    [] ins.op = "list" -> ins.b..(ins.b + ins.c - 1)
    [] ins.op = "closure" -> ins.c..(ins.c + Len(image[ins.b].captures) - 1)
    [] OTHER -> {}
Strays ==
  {how \in {"blank", "unset"} :
     \E r \in Reads(Cur) : Get(r) = (IF how = "blank" THEN Blank ELSE UnsetVal)}

Computed(ins) ==
  CASE ins.op = "lnil" -> Nil
    [] ins.op = "lunset" -> UnsetVal
    [] ins.op = "i8" -> IntVal(ins.b)
    [] ins.op = "move" -> Get(ins.b)
    [] ins.op = "gget" -> IF ins.b = 1 THEN Println ELSE ErrorClass
    [] ins.op = "add" -> Plus(Get(ins.b), Get(ins.c))
    [] ins.op = "not" -> BoolVal(~Truthy(Get(ins.b)))
    [] ins.op = "list" -> ListOf(Window(ins.b, ins.c))
    [] ins.op = "closure" -> Val("fn", ins.b, Window(ins.c, Len(image[ins.b].captures)))
    [] ins.op = "getidx" -> IF Get(ins.b).t = "box" THEN boxes[Get(ins.b).n]
                            ELSE IndexValue(Get(ins.b), Get(ins.c))
Computing == {"lnil", "lunset", "i8", "move", "gget", "add", "not", "list", "closure", "getidx"}

Compute ==
  /\ Running /\ Cur.op \in Computing
  /\ LET v == Computed(Cur)
     IN  /\ IF v = Exc THEN RaiseHere ELSE Replace(Put(Advanced, Cur.a, v))
         /\ Straying(Strays)
  /\ UNCHANGED <<image, boxes, iters, out, outcome>>

MakeBox ==
  /\ Running /\ Cur.op = "plist"
  /\ boxes' = Append(boxes, Get(Cur.b))
  /\ Replace(Put(Advanced, Cur.a, Box(Len(boxes'))))
  /\ UNCHANGED <<image, iters, out, outcome, strayed>>

SetBox ==
  /\ Running /\ Cur.op = "setidx"
  /\ LET box == Get(Cur.a)
     IN  IF box.t = "box"
         THEN Replace(Advanced) /\ boxes' = [boxes EXCEPT ![box.n] = Get(Cur.c)]
         ELSE RaiseHere /\ UNCHANGED boxes
  /\ Straying(Strays)
  /\ UNCHANGED <<image, iters, out, outcome>>

Taken(ins) == CASE ins.op = "jmp" -> TRUE
                [] ins.op = "jf" -> ~Truthy(Get(ins.a))
                [] ins.op = "jt" -> Truthy(Get(ins.a))
                [] ins.op = "jnerr" -> ~IsError(Get(ins.a))
Branch ==
  /\ Running /\ Cur.op \in {"jmp", "jf", "jt", "jnerr"}
  /\ Replace(IF Taken(Cur) THEN [Top EXCEPT !.ip = Cur.b] ELSE Advanced)
  \* `jnerr` may look at an unset variable: `x ?= v` is there for that.
  /\ IF Cur.op = "jmp" THEN UNCHANGED strayed
     ELSE Straying(Strays \ (IF Cur.op = "jnerr" THEN {"unset"} ELSE {}))
  /\ UNCHANGED <<image, boxes, iters, out, outcome>>

\* The iterator is a generator: what cannot be iterated raises at its first
\* turn, and so does a turn of what is no iterator.
MakeIter ==
  /\ Running /\ Cur.op = "iter"
  /\ iters' = Append(iters, Get(Cur.b))
  /\ Replace(Put(Advanced, Cur.a, Iter(Len(iters'))))
  /\ Straying(Strays)
  /\ UNCHANGED <<image, boxes, out, outcome>>

IterNext ==
  /\ Running /\ Cur.op = "itnext"
  /\ LET it == Get(Cur.b)
         left == iters[it.n]
     IN  IF it.t # "iter" \/ left.t \notin {"list", "nil"}
         THEN RaiseHere /\ UNCHANGED <<iters, strayed>>
         ELSE IF left.items = <<>>
         THEN Replace([Top EXCEPT !.ip = Cur.c]) /\ UNCHANGED <<iters, strayed>>
         ELSE /\ Replace(Put(Advanced, Cur.a, Head(left.items)))
              /\ iters' = [iters EXCEPT ![it.n].items = Tail(@)]
              /\ Straying(IF Get(Cur.a).t = "box" THEN {"unboxed"} ELSE {})
  /\ UNCHANGED <<image, boxes, out, outcome>>

ArmDefer ==
  /\ Running /\ Cur.op = "defer_reg"
  /\ Replace([Advanced EXCEPT !.defers = Append(@, [f |-> Get(Cur.a), onError |-> Cur.b = 1])])
  /\ UNCHANGED <<image, boxes, iters, out, outcome, strayed>>

Trap ==
  /\ Running /\ Cur.op = "trap"
  /\ RaiseHere /\ Straying({"trap"})
  /\ UNCHANGED <<image, boxes, iters, out, outcome>>

\* Wrong: the arguments are not counted.
BadCallFunction ==
  /\ Running /\ Cur.op = "call" /\ Get(Cur.a).t = "fn"
  /\ stack' = Append([stack EXCEPT ![Len(stack)] = Advanced],
                     Frame(Get(Cur.a), Window(Cur.a + 1, Cur.b), Cur.a))
  /\ Straying(Strays)
  /\ UNCHANGED <<image, boxes, iters, out, outcome>>

\* invoke: a compiled function gets a frame (build_pframe counts the
\* arguments); a host function answers at once.
CallFunction ==
  /\ Running /\ Cur.op = "call" /\ Get(Cur.a).t = "fn"
  /\ LET f == Get(Cur.a)
     IN  IF Cur.b # image[f.n].nparams THEN RaiseHere
         ELSE stack' = Append([stack EXCEPT ![Len(stack)] = Advanced],
                              Frame(f, Window(Cur.a + 1, Cur.b), Cur.a))
  /\ Straying(Strays)
  /\ UNCHANGED <<image, boxes, iters, out, outcome>>

CallHost ==
  /\ Running /\ Cur.op = "call" /\ Get(Cur.a).t # "fn"
  /\ LET f == Get(Cur.a)
         args == Window(Cur.a + 1, Cur.b)
     IN  CASE f = Println -> /\ out' = out \o [i \in DOMAIN args |-> Shown(args[i])]
                             /\ Replace(Put(Advanced, Cur.a, Nil))
           [] f = ErrorClass /\ Cur.b = 1 -> Replace(Put(Advanced, Cur.a, Err)) /\ UNCHANGED out
           [] OTHER -> RaiseHere /\ UNCHANGED out
  /\ Straying(Strays)
  /\ UNCHANGED <<image, boxes, iters, outcome>>

\* `return`: its value, then the armed blocks, the latest first.
ReturnFrom ==
  /\ Running /\ Cur.op = "return"
  /\ Replace([Top EXCEPT !.leaving = "return", !.value = Get(Cur.a), !.defers = <<>>,
                         !.due = Reverse(Top.defers)])
  /\ Straying(Strays)
  /\ UNCHANGED <<image, boxes, iters, out, outcome>>

\* run_defers: one turn of its loop.  An `on error` block runs when the frame
\* leaves badly; what cannot be called without arguments raises.
LeavesBadly == Top.leaving = "raise" \/ IsError(Top.value)
RunDefer ==
  /\ stack # <<>> /\ Top.leaving # "no" /\ Top.due # <<>>
  /\ LET d == Head(Top.due)
         left == [Top EXCEPT !.due = Tail(@)]
     IN  IF (d.onError /\ ~LeavesBadly) \/ d.f = Println
         THEN Replace(left)
         ELSE IF d.f.t = "fn" /\ image[d.f.n].nparams = 0
         THEN stack' = Append([stack EXCEPT ![Len(stack)] = left], Frame(d.f, <<>>, -1))
         ELSE RaiseHere
  /\ UNCHANGED <<image, boxes, iters, out, outcome, strayed>>

\* The frame is left: its value lands at the window base (backfill), or its
\* exception in the frame below, or the run is over.
Leave ==
  /\ stack # <<>> /\ Top.leaving # "no" /\ Top.due = <<>>
  /\ LET rest == Front(stack)
         below == Last(rest)
         next == IF Top.leaving = "raise" THEN Failing(below)
                 ELSE IF Top.base = -1 THEN below
                 ELSE Put(below, Top.base, Top.value)
     IN  IF rest = <<>>
         THEN /\ stack' = <<>>
              /\ outcome' = IF Top.leaving = "raise" THEN [k |-> "raise", v |-> Nil]
                            ELSE [k |-> "next", v |-> Shown(Top.value)]
         ELSE stack' = [rest EXCEPT ![Len(rest)] = next] /\ UNCHANGED outcome
  /\ UNCHANGED <<image, boxes, iters, out, strayed>>

Load ==
  /\ stack = <<Frame(Val("fn", Len(image), <<>>), <<>>, -1)>>
  /\ boxes = <<>> /\ iters = <<>> /\ out = <<>>
  /\ outcome = [k |-> "running", v |-> Nil]
  /\ strayed = {}
Halted == stack = <<>> /\ UNCHANGED vmVars
Step == \/ Compute \/ MakeBox \/ SetBox \/ Branch \/ MakeIter \/ IterNext \/ ArmDefer \/ Trap
        \/ CallFunction \/ CallHost \/ ReturnFrom \/ RunDefer \/ Leave \/ Halted
MachineSpec == Load /\ [][Step]_vmVars

-----------------------------------------------------------------------------
Over == stack = <<>>

\* Frames, iterators and boxes keep the shape the image gives them.
TypeOK ==
  /\ \A i \in DOMAIN stack :
       LET fr == stack[i]
           fn == image[fr.fn]
       IN  /\ DOMAIN fr.l = 1..fn.nlocals
           /\ Len(fr.p) = fn.nparams + Len(fn.captures)
           /\ fr.leaving = "no" => fr.due = <<>>
           /\ i < Len(stack) /\ fr.leaving = "no" => stack[i + 1].base \in 0..(fn.nlocals - 1)
           /\ \A r \in DOMAIN fr.l : /\ fr.l[r].t = "box" => fr.l[r].n \in DOMAIN boxes
                                     /\ fr.l[r].t = "iter" => fr.l[r].n \in DOMAIN iters
  /\ strayed \subseteq {"blank", "unset", "unboxed", "trap"}
  /\ Over = (outcome.k # "running")

\* No run leaves the end of a body's code, which a verified jump may reach, or
\* the frame the image gives it.
InsideBody == TypeOK /\ (Running => Top.ip < Len(Code))
=============================================================================

------------------------------- MODULE Compile -------------------------------
(***************************************************************************)
(* The lowering of a function body to bytecode: compiler_bc/functions.py,  *)
(* statements.py, expressions.py and the FnContext of context.py.  An      *)
(* operator takes the context of the frame being compiled and answers the  *)
(* context after it, `reg` being the register an expression landed in.     *)
(* Registers of the L frame are 0, 1, ...; those of the P frame are        *)
(* -1, -2, ...: parameters, then captures.  Jumps name a label until the   *)
(* body is complete.  A CompileError sets `err`: the body is a trap.       *)
(***************************************************************************)
EXTENDS Syntax, Values, TLC

NoReg == 1000                       \* "no destination asked for", "not a register"
Ins(op, a, b, c) == [op |-> op, a |-> a, b |-> b, c |-> c]

\* FnContext: `args` are the parameters and captures, `next` the next slot of
\* a nested block to hand out, `fns` the image's function table.
NoFrame == [code |-> <<>>, labels |-> <<>>, loops |-> <<>>, top |-> 0, high |-> 0,
            nnamed |-> 0, next |-> 0, locals |-> <<>>, args |-> <<>>, cells |-> {},
            zero |-> NoReg, scopes |-> <<>>, fns |-> <<>>, err |-> FALSE, reg |-> NoReg]

Emit(c, ins)  == [c EXCEPT !.code = Append(@, ins)]
Refuse(c)     == [c EXCEPT !.err = TRUE, !.reg = 0]
In(c, r)      == [c EXCEPT !.reg = r]
FreeTo(c, m)  == [c EXCEPT !.top = m]
BadRaiseHigh(c) == c
RaiseHigh(c)  == [c EXCEPT !.high = IF c.top > @ THEN c.top ELSE @]
Push(c)       == [RaiseHigh([c EXCEPT !.top = @ + 1]) EXCEPT !.reg = c.top]
Target(c, dst)== IF dst = NoReg THEN Push(c) ELSE In(c, dst)
Land(c, dst)  == IF dst \in {NoReg, c.reg} THEN c
                 ELSE In(Emit(c, Ins("move", dst, c.reg, 0)), dst)

NewLabel(c)        == [c EXCEPT !.labels = Append(@, -1)]
Label(c)           == Len(c.labels) + 1            \* the label NewLabel makes
MarkLabel(c, l)    == [c EXCEPT !.labels[l] = Len(c.code)]
EmitJump(c, op, reg, l)== Emit(c, Ins(op, reg, l, 0))
PatchLabels(c)     ==
  [c EXCEPT !.code = <<>> \o [i \in DOMAIN @ |->
     CASE @[i].op \in {"jmp", "jf", "jt", "jnerr"} -> [@[i] EXCEPT !.b = c.labels[@]]
       [] @[i].op = "itnext" -> [@[i] EXCEPT !.c = c.labels[@]]
       [] OTHER -> @[i]]]

\* lookup: the innermost block's binding, then a local, then an argument.
Binding(env, x) == IF x \in DOMAIN env THEN env[x] ELSE NoReg
LookupReg(c, x) ==
  LET scope == SelectLastInSeq(c.scopes, LAMBDA s : x \in DOMAIN s)
  IN  IF scope # 0 THEN c.scopes[scope][x]
      ELSE IF x \in DOMAIN c.locals THEN c.locals[x]
      ELSE Binding(c.args, x)

ReserveLocal(c) == RaiseHigh([c EXCEPT !.nnamed = @ + 1, !.top = c.nnamed + 1, !.reg = c.nnamed])
DeclareLocal(c, x) == LET d == ReserveLocal(c) IN [d EXCEPT !.locals = (x :> d.reg) @@ @]

\* push_block: slots are handed out in the order blocks are emitted; a name
\* that lives in a cell keeps its one slot of the frame.
PushBlock(c, names) ==
  FoldLeft(LAMBDA d, x :
             IF x \in c.cells
             THEN [d EXCEPT !.scopes[Len(d.scopes)] = (x :> Binding(c.locals, x)) @@ @]
             ELSE [d EXCEPT !.scopes[Len(d.scopes)] = (x :> d.next) @@ @, !.next = @ + 1],
           [c EXCEPT !.scopes = Append(@, <<>>)], Listed(names))
PopBlock(c) == [c EXCEPT !.scopes = Front(@)]

EmitReturn(c, reg) ==
  IF reg >= 0 THEN Emit(c, Ins("return", reg, 0, 0))
  ELSE LET d == Push(c) IN Emit(Emit(d, Ins("move", d.reg, reg, 0)), Ins("return", d.reg, 0, 0))

\* resolve_name: a register, the box it holds, or a free global slot.
ResolveName(c, x, dst) ==
  LET r == LookupReg(c, x)
      d == Target(c, dst)
  IN  IF r # NoReg /\ x \in c.cells THEN Emit(d, Ins("getidx", d.reg, r, c.zero))
      ELSE IF r # NoReg THEN Land(In(c, r), dst)
      ELSE IF x \in ToSet(GlobalSlots)
           THEN Emit(d, Ins("gget", d.reg, SelectInSeq(GlobalSlots, LAMBDA g : g = x), 0))
           ELSE Refuse(c)

StoreReg(c, x, reg) ==
  LET slot == LookupReg(c, x)
  IN  IF slot = NoReg THEN Refuse(c)
      ELSE IF x \in c.cells THEN Emit(c, Ins("setidx", slot, c.zero, reg))
      ELSE IF slot # reg THEN Emit(c, Ins("move", slot, reg, 0)) ELSE c

\* Everything nested is compiled through one dispatch on what it is.
RECURSIVE Lower(_, _, _, _), CompileClauses(_, _, _, _, _)
CompileExpr(c, e, dst)         == Lower("expr", c, e, dst)
CompileStatement(c, s, result) == Lower("statement", c, s, result)
CompileBlock(c, body, result)  == Lower("block", c, body, result)
CompileCallable(c, ps, body)   == Lower("callable", c, [ps |-> ps, body |-> body], NoReg)

\* A closure over the next function of the table, its captures copied into a
\* window of their own first.
ClosureInto(c, ps, body, dst) ==
  LET d == CompileCallable(c, ps, body)
      index == Len(d.fns)
      moved == FoldLeft(LAMBDA e, x : LET f == Push(e)
                                      IN  Emit(f, Ins("move", f.reg, LookupReg(f, x), 0)),
                        d, d.fns[index].captures)
  IN  In(FreeTo(Emit(moved, Ins("closure", dst, index, d.top)), d.top), dst)

\* compile_into_window: the value in the next free temp.
IntoWindow(c, e) ==
  LET d == CompileExpr(c, e, NoReg)
      t == Push(FreeTo(d, c.top))
  IN  IF d.reg = c.top /\ d.top > c.top THEN d ELSE Emit(t, Ins("move", t.reg, d.reg, 0))
WindowOf(c, es) == FoldLeft(IntoWindow, c, es)

Operands(c, es, op, dst) ==
  LET l == CompileExpr(c, es[1], NoReg)
      r == CompileExpr(l, es[2], NoReg)
      d == Target(r, dst)
  IN  Emit(d, Ins(op, d.reg, l.reg, r.reg))

\* `and`, `or`, `catch`: the first value in the result register, the second
\* over it unless the jump is taken.
Guarded(c, es, jump, dst, Second(_, _)) ==
  LET d == Target(c, dst)
      first == FreeTo(CompileExpr(d, es[1], d.reg), d.top)
      done == Label(first)
      second == Second(EmitJump(NewLabel(first), jump, d.reg, done), d.reg)
  IN  In(MarkLabel(FreeTo(second, d.top), done), d.reg)

CompileReturn(c, e) == LET v == CompileExpr(c, e, NoReg) IN EmitReturn(v, v.reg)

\* The error is in the result register: it is what the function returns.
CompileTry(c, e, dst) ==
  LET d == Target(c, dst)
      v == FreeTo(CompileExpr(d, e, d.reg), d.top)
      l == Label(v)
  IN  In(MarkLabel(EmitReturn(EmitJump(NewLabel(v), "jnerr", d.reg, l), d.reg), l), d.reg)

\* The callee at the base of its window, the arguments above it; the result
\* takes the callee's place.
CompileCall(c, es, dst) ==
  LET w == Push(c)
      f == CompileExpr(w, es[1], w.reg)
      args == WindowOf(f, Tail(es))
  IN  Land(In(FreeTo(Emit(args, Ins("call", w.reg, Len(es) - 1, 0)), w.top), w.reg), dst)

CompileList(c, es, dst) ==
  LET d == Target(WindowOf(c, es), dst) IN Emit(d, Ins("list", d.reg, c.top, Len(es)))

ExprCode(c, e, dst) ==
  CASE e.op = "num" -> LET d == Target(c, dst) IN Emit(d, Ins("i8", d.reg, e.n, 0))
    [] e.op = "nil" -> LET d == Target(c, dst) IN Emit(d, Ins("lnil", d.reg, 0, 0))
    [] e.op = "name" -> ResolveName(c, e.id, dst)
    [] e.op = "add" -> Operands(c, e.e, "add", dst)
    [] e.op = "index" -> Operands(c, e.e, "getidx", dst)
    [] e.op = "not" -> LET v == CompileExpr(c, e.e[1], NoReg)
                           d == Target(v, dst)
                       IN  Emit(d, Ins("not", d.reg, v.reg, 0))
    [] e.op \in {"and", "or"} ->
         Guarded(c, e.e, IF e.op = "and" THEN "jf" ELSE "jt", dst,
                 LAMBDA d, r : CompileExpr(d, e.e[2], r))
    [] e.op = "catch" -> Guarded(c, e.e, "jnerr", dst, LAMBDA d, r : CompileExpr(d, e.e[2], r))
    [] e.op = "catchreturn" -> Guarded(c, e.e, "jnerr", dst, LAMBDA d, r : CompileReturn(d, e.e[2]))
    [] e.op = "try" -> CompileTry(c, e.e[1], dst)
    [] e.op = "call" -> CompileCall(c, e.e, dst)
    [] e.op = "list" -> CompileList(c, e.e, dst)
    [] e.op = "lambda" -> LET d == Target(c, dst) IN ClosureInto(d, e.ps, e.b[1], d.reg)
    [] e.op = "do" -> LET d == Target(c, dst) IN In(CompileBlock(d, e.b[1], d.reg), d.reg)
    [] e.op = "if" -> LET d == Target(c, dst) IN In(CompileStatement(d, e, d.reg), d.reg)

\* compile_body: a list of statements, the last one's value in `result`; the
\* temps of each are released after it.  A refusal ends it: CompileError is an
\* exception.
CompileStatements(c, body, result) ==
  FoldLeft(LAMBDA d, i :
    LET s == body[i]
        wants == i = Len(body) /\ result # NoReg
        plain == wants /\ s.op \notin {"expr", "if"}
        e == IF plain /\ s.op \notin {"return", "break", "continue"}
             THEN Emit(d, Ins("lnil", result, 0, 0)) ELSE d
    IN  IF d.err THEN d ELSE FreeTo(CompileStatement(e, s, IF wants /\ ~plain THEN result ELSE NoReg), d.top),
    c, [i \in DOMAIN body |-> i])

BlockCode(c, body, result) ==
  PopBlock(CompileStatements(PushBlock(c, OwnDeclaredNames(body)), body, result))

StoreExpr(c, x, e) ==
  LET slot == LookupReg(c, x)
      d == Push(c)
      v == CompileExpr(d, e, d.reg)
  IN  IF slot # NoReg /\ x \notin c.cells THEN CompileExpr(c, e, slot)
      ELSE IF slot = NoReg THEN Refuse(c)
      ELSE FreeTo(StoreReg(v, x, d.reg), c.top)

BadAssignPairwise(c, xs, es) == FoldLeft(LAMBDA d, i : StoreExpr(d, xs[i], es[i]), c, [i \in DOMAIN xs |-> i])
\* Several targets: every value is staged before any target is written.
AssignPairwise(c, xs, es) ==
  IF Len(xs) = 1 THEN StoreExpr(c, xs[1], es[1])
  ELSE LET staged == FoldLeft(LAMBDA d, e : LET p == Push(d) IN CompileExpr(p, e, p.reg), c, es)
           stored == FoldLeft(LAMBDA d, i : StoreReg(d, xs[i], c.top + i - 1), staged,
                              [i \in DOMAIN xs |-> i])
       IN  FreeTo(stored, c.top)

SetIfUnset(c, x, e) ==
  LET slot == LookupReg(c, x)
      done == Label(c)
      d == NewLabel(c)
      t == Push(d)
      read == EmitJump(Emit(t, Ins("getidx", t.reg, slot, c.zero)), "jnerr", t.reg, done)
      boxed == Emit(CompileExpr(read, e, t.reg), Ins("setidx", slot, c.zero, t.reg))
      plain == CompileExpr(EmitJump(d, "jnerr", slot, done), e, slot)
  IN  IF slot = NoReg THEN Refuse(c)
      ELSE MarkLabel(FreeTo(IF x \in c.cells THEN boxed ELSE plain, c.top), done)

\* The clauses of an `if` from the i-th on; `end` is where each body leaves to.
CompileClauses(c, s, i, end, result) ==
  IF i > Len(s.e) THEN IF i > Len(s.b) THEN c ELSE CompileBlock(c, s.b[i], result)
  ELSE LET skip == Label(c)
           cond == CompileExpr(NewLabel(c), s.e[i], NoReg)
           body == CompileBlock(FreeTo(EmitJump(cond, "jf", cond.reg, skip), c.top), s.b[i], result)
           more == i < Len(s.b)
           left == IF more THEN EmitJump(body, "jmp", NoReg, end) ELSE body
       IN  CompileClauses(MarkLabel(left, skip), s, i + 1, end, result)

LoopBody(c, head, end, body) ==
  [CompileBlock([c EXCEPT !.loops = Append(@, [head |-> head, end |-> end])], body, NoReg)
     EXCEPT !.loops = Front(@)]

CompileWhile(c, s) ==
  LET head == Label(c)
      end == head + 1
      h == MarkLabel(NewLabel(NewLabel(c)), head)
      cond == CompileExpr(h, s.e[1], NoReg)
      body == LoopBody(FreeTo(EmitJump(cond, "jf", cond.reg, end), c.top), head, end, s.b[1])
  IN  MarkLabel(EmitJump(body, "jmp", NoReg, head), end)

\* `break` jumps past the else clause, exhaustion to it.
CompileFor(c, s) ==
  LET p == PushBlock(c, {s.id})
      source == CompileExpr(p, s.e[1], NoReg)
      it == Push(source)
      i == Emit(it, Ins("iter", it.reg, source.reg, 0))
      head == Label(i)
      exhausted == head + 1
      end == head + 2
      h == MarkLabel(NewLabel(NewLabel(NewLabel(i))), head)
      next == Emit(h, Ins("itnext", LookupReg(h, s.id), it.reg, exhausted))
      body == MarkLabel(EmitJump(LoopBody(next, head, end, s.b[1]), "jmp", NoReg, head), exhausted)
      orelse == IF Len(s.b) = 2 THEN CompileBlock(body, s.b[2], NoReg) ELSE body
  IN  PopBlock(FreeTo(MarkLabel(orelse, end), c.top))

StoreUnset(c, x) ==
  LET d == Push(c)
  IN  IF x \notin c.cells THEN Emit(c, Ins("lunset", LookupReg(c, x), 0, 0))
      ELSE FreeTo(StoreReg(Emit(d, Ins("lunset", d.reg, 0, 0)), x, d.reg), c.top)

\* As an expression without an else, an `if` starts from nil.
CompileIf(c, s, result) ==
  LET end == Label(c)
      d == NewLabel(IF result # NoReg /\ Len(s.b) = Len(s.e)
                    THEN Emit(c, Ins("lnil", result, 0, 0)) ELSE c)
  IN  MarkLabel(CompileClauses(d, s, 1, end, result), end)

CompileJump(c, s) ==
  IF c.loops = <<>> THEN Refuse(c)
  ELSE EmitJump(c, "jmp", NoReg, IF s.op = "break" THEN Last(c.loops).end ELSE Last(c.loops).head)

CompileNestedFn(c, s) ==
  LET d == Push(c)
      f == ClosureInto(d, s.ps, s.b[1], d.reg)
  IN  FreeTo(StoreReg(f, s.id, d.reg), c.top)
CompileDefer(c, s) ==
  LET d == Push(c)
      f == ClosureInto(d, <<>>, s.b[1], d.reg)
  IN  FreeTo(Emit(f, Ins("defer_reg", d.reg, IF s.id = "error" THEN 1 ELSE 0, 0)), c.top)

StatementCode(c, s, result) ==
  CASE s.op = "expr" -> CompileExpr(c, s.e[1], result)
    [] s.op = "unset" -> StoreUnset(c, s.ps[1])
    [] s.op \in {"var", "assign"} -> AssignPairwise(c, s.ps, s.e)
    [] s.op = "setif" -> SetIfUnset(c, s.ps[1], s.e[1])
    [] s.op = "return" -> CompileReturn(c, IF s.e = <<>> THEN NilLit ELSE s.e[1])
    [] s.op = "if" -> CompileIf(c, s, result)
    [] s.op = "while" -> CompileWhile(c, s)
    [] s.op = "for" -> CompileFor(c, s)
    [] s.op \in {"break", "continue"} -> CompileJump(c, s)
    [] s.op = "fn" -> CompileNestedFn(c, s)
    [] s.op = "defer" -> CompileDefer(c, s)

\* _allocate_slots: boxes of parameters, the constant 0, the body's own names,
\* then every nested block's; a boxed name that shadows is refused.
AllocateSlots(c, ps, body) ==
  LET boxed == FoldLeft(DeclareLocal, c, SelectSeq(ps, LAMBDA x : x \in c.cells))
      zeroed == IF c.cells = {} THEN boxed
                ELSE LET d == DeclareLocal(boxed, "<cell index>") IN [d EXCEPT !.zero = d.reg]
      own == FoldLeft(DeclareLocal, zeroed, Listed(OwnDeclaredNames(body)))
      visible == DOMAIN c.args \cup OwnDeclaredNames(body)
      nested == FoldLeft(LAMBDA seq, s : seq \o BlockScopes(s, visible), <<>>, body)
      celled == SelectSeq(nested, LAMBDA b : b.name \in c.cells)
      framed == FoldLeft(LAMBDA d, b : IF b.name \in b.enclosing THEN Refuse(d)
                                       ELSE IF b.name \in DOMAIN d.locals THEN d
                                       ELSE DeclareLocal(d, b.name),
                         own, celled)
      blocks == FoldLeft(LAMBDA d, b : ReserveLocal(d), framed,
                         SelectSeq(nested, LAMBDA b : b.name \notin c.cells))
  IN  [blocks EXCEPT !.next = framed.nnamed]

\* _prologue: the frame makes its own boxes at entry; a captured one arrives.
Prologue(c, ps, captured) ==
  FoldLeft(LAMBDA d, x :
             LET s == Push(d)
                 seed == IF x \in ToSet(ps) THEN Ins("move", s.reg, c.args[x], 0)
                         ELSE Ins("lnil", s.reg, 0, 0)
             IN  FreeTo(Emit(Emit(s, seed), Ins("plist", LookupReg(c, x), s.reg, 1)), d.top),
           IF c.cells = {} THEN c ELSE Emit(c, Ins("i8", c.zero, 0, 0)),
           Listed(c.cells \ captured))

BodyAndEpilogue(c, body) ==
  IF Last(body).op = "return" THEN CompileStatements(c, body, NoReg)
  ELSE LET d == Push(c)
       IN  Emit(CompileStatements(d, body, d.reg), Ins("return", d.reg, 0, 0))

\* A body the compiler refuses keeps its entry and becomes a trap.
OrStub(made) == IF made.err THEN [made EXCEPT !.code = <<Ins("trap", 0, 0, 0)>>] ELSE PatchLabels(made)
CompileOrStub(frame, ps, body, captured) ==
  OrStub(BodyAndEpilogue(Prologue(AllocateSlots(frame, ps, body), ps, captured), body))

CapturesFrom(c, ps, body) == Listed({x \in FreeNames(ps, body) : LookupReg(c, x) # NoReg})
CellsOf(c, ps, body, captures) == CellNames(ps, body) \cup (c.cells \cap ToSet(captures))

\* compile_callable: a body in a frame of its own, added to the table as the
\* last function; `c` is the enclosing frame.  Captures keep some fixed order.
AddFunction(c, made, ps, captures) ==
  [c EXCEPT !.fns = Append(made.fns, [code |-> made.code, nlocals |-> made.high,
                                      nparams |-> Len(ps), captures |-> captures])]
Enclosed(c, ps, body, captures) ==
  [NoFrame EXCEPT !.fns = c.fns,
                  !.args = LET names == ps \o captures
                           IN  [x \in ToSet(names) |-> -SelectInSeq(names, LAMBDA y : y = x)],
                  !.cells = CellsOf(c, ps, body, captures)]
CompileWith(c, ps, body, captures) ==
  AddFunction(c, CompileOrStub(Enclosed(c, ps, body, captures), ps, body, ToSet(captures)), ps, captures)
CallableCode(c, ps, body) == CompileWith(c, ps, body, CapturesFrom(c, ps, body))

Lower(what, c, x, dst) == CASE what = "expr" -> ExprCode(c, x, dst)
                            [] what = "statement" -> StatementCode(c, x, dst)
                            [] what = "block" -> BlockCode(c, x, dst)
                            [] what = "callable" -> CallableCode(c, x.ps, x.body)

\* The image of a program: its function is the last of the table.
ImageOf(program) == CompileCallable(NoFrame, <<>>, program).fns
=============================================================================

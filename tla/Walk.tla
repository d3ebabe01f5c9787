-------------------------------- MODULE Walk --------------------------------
(***************************************************************************)
(* What the tree walker computes (src/wypoc/wyrm_eval_parse_tree.py): the  *)
(* reference a compiled body is held to.  A world is the scopes made so    *)
(* far, the closures and what was printed; a result is a world, how the    *)
(* evaluation ended ("next", "return", "break", "continue", "raise") and a *)
(* value.  Scope 1 holds the builtins.                                     *)
(***************************************************************************)
EXTENDS Syntax, Values, Functions

R(w, k, v)   == [w |-> w, k |-> k, v |-> v]
Done(w, v)   == R(w, "next", v)
Raise(w)     == R(w, "raise", Nil)
Then(r, K(_, _)) == IF r.k = "next" THEN K(r.w, r.v) ELSE r
Answer(w, v) == IF v = Exc THEN Raise(w) ELSE Done(w, v)

\* Scope: a level's own bindings, the enclosing level, the armed defers.
Scope(up)       == [vars |-> <<>>, up |-> up, defers |-> <<>>]
Child(w, c)     == [w EXCEPT !.scopes = Append(@, Scope(c))]
Newest(w)       == Len(w.scopes)
SetVar(w, c, x, v) == [w EXCEPT !.scopes[c].vars = [y \in DOMAIN @ \cup {x} |->
                                                    IF y = x THEN v ELSE @[y]]]
RECURSIVE GetCell(_, _, _)
GetCell(w, c, x) == IF c = 0 \/ x \in DOMAIN w.scopes[c].vars THEN c
                    ELSE GetCell(w, w.scopes[c].up, x)
DeclareNew(w, c, x, v) ==
  IF x \in DOMAIN w.scopes[c].vars THEN Raise(w) ELSE Done(SetVar(w, c, x, v), Nil)
Lookup(w, c, x) ==
  LET s == GetCell(w, c, x)
  IN  IF s = 0 \/ w.scopes[s].vars[x] = UnsetVal THEN Raise(w)
      ELSE Done(w, w.scopes[s].vars[x])
AssignTarget(w, c, x, v) ==
  LET s == GetCell(w, c, x) IN IF s = 0 THEN Raise(w) ELSE Done(SetVar(w, s, x, v), Nil)
\* A fn statement binds: it writes to an enclosing binding when there is one.
Bind(w, c, x, v) == LET s == GetCell(w, c, x) IN SetVar(w, IF s = 0 THEN c ELSE s, x, v)

Closure(w, c, ps, body) ==
  Done([w EXCEPT !.fns = Append(@, [ps |-> ps, body |-> body, env |-> c])],
       Val("fn", Len(w.fns) + 1, <<>>))

\* A body that declares or defers at its own top level gets a scope.
BodyNeedsScope(body) == \E i \in DOMAIN body : body[i].op \in {"var", "unset", "defer"}

\* Everything nested is walked through one dispatch, as in eval_node and
\* eval_block.
RECURSIVE Walked(_, _, _, _), RunIf(_, _, _, _), RunWhile(_, _, _), RunFor(_, _, _, _)
Eval(w, c, e) == Walked("expr", w, c, e)
Exec(w, c, s) == Walked("statement", w, c, s)
EvalBlock(w, c, body) == Walked("block", w, c, body)

EvalAll(w, c, es) ==
  FoldLeft(LAMBDA r, e : Then(r, LAMBDA w1, vs :
                           Then(Eval(w1, c, e), LAMBDA w2, v : Done(w2, ListOf(Append(vs.items, v))))),
           Done(w, ListOf(<<>>)), es)

EvalStatements(w, c, body) ==
  FoldLeft(LAMBDA r, s : Then(r, LAMBDA w1, v : Exec(w1, c, s)), Done(w, Nil), body)

\* Whatever ends the block, its own defers run, the latest first, each in a
\* child scope; one that does not end normally replaces the outcome.
RunScopedBlock(w, c, body) ==
  LET r == EvalBlock(w, c, body)
      badly == r.k = "raise" \/ (r.k = "return" /\ IsError(r.v))
      due == Reverse(SelectSeq(r.w.scopes[c].defers, LAMBDA d : badly \/ d.id = "always"))
      ran == FoldLeft(LAMBDA q, d : Then(q, LAMBDA w1, v :
                        LET w2 == Child(w1, c) IN EvalBlock(w2, Newest(w2), d.b[1])),
                      Done(r.w, Nil), due)
  IN  Then(ran, LAMBDA w1, v : [r EXCEPT !.w = w1])

RunBlock(w, c, body) ==
  IF BodyNeedsScope(body) THEN LET w1 == Child(w, c) IN RunScopedBlock(w1, Newest(w1), body)
  ELSE EvalBlock(w, c, body)

\* call_value, and a function's activation: _bind_params, then the body.
CallValue(w, f, args) ==
  CASE f.t = "println" -> Done([w EXCEPT !.out = @ \o [i \in DOMAIN args |-> Shown(args[i])]], Nil)
    [] f.t = "error" -> IF Len(args) = 1 THEN Done(w, Err) ELSE Raise(w)
    [] f.t = "fn" ->
         LET fn == w.fns[f.n]
             w1 == [w EXCEPT !.scopes = Append(@, [Scope(fn.env) EXCEPT !.vars =
                     [x \in ToSet(fn.ps) |-> args[SelectInSeq(fn.ps, LAMBDA p : p = x)]]])]
         IN  IF Len(args) # Len(fn.ps) THEN Raise(w)
             ELSE LET r == RunScopedBlock(w1, Newest(w1), fn.body)
                  IN  IF r.k = "return" THEN [r EXCEPT !.k = "next"] ELSE r
    [] OTHER -> Raise(w)

\* `try` returns the error from the function; `catch` gives its handler's value
\* in its place, or returns that.
Handle(w, c, e, v) ==
  CASE e.op = "try" -> R(w, "return", v)
    [] e.op = "catch" -> Eval(w, c, e.e[2])
    [] e.op = "catchreturn" -> Then(Eval(w, c, e.e[2]), LAMBDA w1, u : R(w1, "return", u))

EvalNode(w, c, e) ==
  CASE e.op = "num" -> Done(w, IntVal(e.n))
    [] e.op = "nil" -> Done(w, Nil)
    [] e.op = "name" -> Lookup(w, c, e.id)
    [] e.op = "add" -> Then(EvalAll(w, c, e.e), LAMBDA w1, vs :
                         Answer(w1, Plus(vs.items[1], vs.items[2])))
    [] e.op = "index" -> Then(EvalAll(w, c, e.e), LAMBDA w1, vs :
                           Done(w1, IndexValue(vs.items[1], vs.items[2])))
    [] e.op = "list" -> EvalAll(w, c, e.e)
    [] e.op = "not" -> Then(Eval(w, c, e.e[1]), LAMBDA w1, v : Done(w1, BoolVal(~Truthy(v))))
    [] e.op \in {"and", "or"} ->
         Then(Eval(w, c, e.e[1]), LAMBDA w1, v :
           IF Truthy(v) = (e.op = "or") THEN Done(w1, v) ELSE Eval(w1, c, e.e[2]))
    [] e.op = "call" -> Then(EvalAll(w, c, e.e), LAMBDA w1, vs :
                          CallValue(w1, Head(vs.items), Tail(vs.items)))
    [] e.op = "lambda" -> Closure(w, c, e.ps, e.b[1])
    [] e.op = "do" -> RunBlock(w, c, e.b[1])
    [] e.op = "if" -> RunIf(w, c, e, 1)
    [] e.op \in {"try", "catch", "catchreturn"} -> Then(Eval(w, c, e.e[1]), LAMBDA w1, v :
                                                      IF IsError(v) THEN Handle(w1, c, e, v) ELSE Done(w1, v))

\* The first true condition's body, the else body, or nil.
RunIf(w, c, s, i) ==
  IF i > Len(s.e) THEN IF i > Len(s.b) THEN Done(w, Nil) ELSE RunBlock(w, c, s.b[i])
  ELSE Then(Eval(w, c, s.e[i]), LAMBDA w1, v :
         IF Truthy(v) THEN RunBlock(w1, c, s.b[i]) ELSE RunIf(w1, c, s, i + 1))

RunWhile(w, c, s) ==
  Then(Eval(w, c, s.e[1]), LAMBDA w1, v :
    IF ~Truthy(v) THEN Done(w1, Nil)
    ELSE LET r == RunBlock(w1, c, s.b[1])
         IN  CASE r.k \in {"next", "continue"} -> RunWhile(r.w, c, s)
               [] r.k = "break" -> Done(r.w, Nil)
               [] OTHER -> r)

\* A fresh scope per item; `last` is the latest one, whose variable the else
\* clause still sees.
RunFor(w, s, last, items) ==
  IF items = <<>>
  THEN IF Len(s.b) = 1 THEN Done(w, Nil)
       ELSE LET w1 == Child(w, last.c)
                w2 == IF last.ran THEN w1 ELSE SetVar(w1, Newest(w1), s.id, UnsetVal)
                r  == RunScopedBlock(w2, Newest(w2), s.b[2])
            IN  [r EXCEPT !.v = IF r.k = "next" THEN Nil ELSE @]
  ELSE LET w1 == Child(w, last.outer)
           i  == Newest(w1)
           r  == RunScopedBlock(SetVar(w1, i, s.id, Head(items)), i, s.b[1])
       IN  CASE r.k \in {"next", "continue"} ->
                  RunFor(r.w, s, [last EXCEPT !.c = i, !.ran = TRUE], Tail(items))
             [] r.k = "break" -> Done(r.w, Nil)
             [] OTHER -> r

\* Every value before any target.
Store(w, c, s, Into(_, _, _, _)) ==
  Then(EvalAll(w, c, s.e), LAMBDA w1, vs :
    FoldLeft(LAMBDA r, i : Then(r, LAMBDA w2, u : Into(w2, c, s.ps[i], vs.items[i])),
             Done(w1, Nil), [i \in DOMAIN s.ps |-> i]))
SetIfUnset(w, c, x, e) ==
  LET k == GetCell(w, c, x)
  IN  IF k = 0 THEN Raise(w)
      ELSE IF ~IsError(w.scopes[k].vars[x]) THEN Done(w, Nil)
      ELSE Then(Eval(w, c, e), LAMBDA w1, v : Done(SetVar(w1, k, x, v), Nil))

ExecNode(w, c, s) ==
  CASE s.op = "expr" -> Eval(w, c, s.e[1])
    [] s.op = "unset" -> DeclareNew(w, c, s.ps[1], UnsetVal)
    [] s.op = "var" -> Store(w, c, s, DeclareNew)
    [] s.op = "assign" -> Store(w, c, s, AssignTarget)
    [] s.op = "setif" -> SetIfUnset(w, c, s.ps[1], s.e[1])
    [] s.op = "return" -> Then(IF s.e = <<>> THEN Done(w, Nil) ELSE Eval(w, c, s.e[1]),
                               LAMBDA w1, v : R(w1, "return", v))
    [] s.op = "if" -> RunIf(w, c, s, 1)
    [] s.op = "while" -> RunWhile(w, c, s)
    [] s.op = "for" ->
         Then(Eval(w, c, s.e[1]), LAMBDA w1, v :
           IF v.t \notin {"list", "nil"} THEN Raise(w1)
           ELSE RunFor(w1, s, [c |-> c, outer |-> c, ran |-> FALSE], v.items))
    [] s.op \in {"break", "continue"} -> R(w, s.op, Nil)
    [] s.op = "defer" -> Done([w EXCEPT !.scopes[c].defers = Append(@, s)], Nil)
    [] s.op = "fn" -> Then(Closure(w, c, s.ps, s.b[1]), LAMBDA w1, f : Done(Bind(w1, c, s.id, f), Nil))

Walked(what, w, c, x) == CASE what = "expr" -> EvalNode(w, c, x)
                           [] what = "statement" -> ExecNode(w, c, x)
                           [] what = "block" -> EvalStatements(w, c, x)

\* The program is the body of a function of no arguments that the host calls.
Globals == [x \in Builtins |-> IF x = "println" THEN Println ELSE ErrorClass]
World0  == [scopes |-> <<[Scope(0) EXCEPT !.vars = Globals]>>, fns |-> <<>>, out |-> <<>>]
Ended(r) == [k |-> r.k, v |-> IF r.k = "next" THEN Shown(r.v) ELSE Nil, out |-> r.w.out]
Outcome(program) == Ended(Eval(World0, 1, Call(Lambda(<<>>, program), <<>>)))
=============================================================================

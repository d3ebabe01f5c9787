------------------------------- MODULE Syntax -------------------------------
(***************************************************************************)
(* The trees both engines of Wyrm read - the tree walker                   *)
(* (wyrm_eval_parse_tree.py) and the bytecode compiler (compiler_bc/) -    *)
(* and the questions compiler_bc/analysis.py asks of a body before one     *)
(* instruction of it is emitted.  A node is one record shape for every     *)
(* kind: `id` a name or a mode, `n` a number, `ps` names, `e` expressions, *)
(* `b` statement lists.                                                    *)
(***************************************************************************)
EXTENDS Integers, Sequences, FiniteSets, SequencesExt, FiniteSetsExt

Node(op, id, n, ps, e, b) == [op |-> op, id |-> id, n |-> n, ps |-> ps, e |-> e, b |-> b]
Form(op, e)      == Node(op, "", 0, <<>>, e, <<>>)
Block(op, e, b)  == Node(op, "", 0, <<>>, e, b)

\* Expressions.
Num(n)           == Node("num", "", n, <<>>, <<>>, <<>>)
NilLit           == Form("nil", <<>>)
Name(x)          == Node("name", x, 0, <<>>, <<>>, <<>>)
Add(l, r)        == Form("add", <<l, r>>)
Not(v)           == Form("not", <<v>>)
And(l, r)        == Form("and", <<l, r>>)
Or(l, r)         == Form("or", <<l, r>>)
Call(f, args)    == Form("call", <<f>> \o args)
List(items)      == Form("list", items)
Index(v, i)      == Form("index", <<v, i>>)
Lambda(ps, body) == Node("lambda", "", 0, ps, <<>>, <<body>>)
Do(body)         == Block("do", <<>>, <<body>>)
Try(v)           == Form("try", <<v>>)
Catch(v, h)      == Form("catch", <<v, h>>)
CatchReturn(v, r)== Form("catchreturn", <<v, r>>)
\* `if` is a statement and an expression: one body per condition, and one more
\* when there is an else.
If(conds, bodies) == Block("if", conds, bodies)

\* Statements; an expression standing as one is an ExprStmt.
Expr(v)          == Form("expr", <<v>>)
Var(xs, vs)      == Node("var", "", 0, xs, vs, <<>>)
Unset(x)         == Node("unset", "", 0, <<x>>, <<>>, <<>>)      \* `var x: T`
Assign(xs, vs)   == Node("assign", "", 0, xs, vs, <<>>)
SetIf(x, v)      == Node("setif", "", 0, <<x>>, <<v>>, <<>>)     \* `x ?= v`
Return(vs)       == Form("return", vs)
While(c, body)   == Block("while", <<c>>, <<body>>)
For(x, v, bodies)== Node("for", x, 0, <<>>, <<v>>, bodies)       \* body [, else]
Break            == Form("break", <<>>)
Continue         == Form("continue", <<>>)
Defer(mode, body)== Node("defer", mode, 0, <<>>, <<>>, <<body>>) \* "always", "error"
Fn(x, ps, body)  == Node("fn", x, 0, ps, <<>>, <<body>>)

Show(v) == Expr(Call(Name("println"), <<v>>))
Fail    == Call(Name("error"), <<Num(0)>>)          \* an error value
Builtins == {"println", "error"}

\* The elements of a set in some fixed order.
Listed(S) == FoldSet(LAMBDA x, seq : Append(seq, x), <<>>, S)

Children(s) == s.e \o FlattenSeq(s.b)
\* A function, a lambda and a deferred block end the walk of a scope.
Boundary(s) == s.op \in {"fn", "lambda", "defer"}

\* walk_scope, walk_body: the nodes of one frame, boundaries included.
RECURSIVE WalkScope(_)
WalkScope(s) == {s} \cup (IF Boundary(s) THEN {}
                          ELSE UNION {WalkScope(k) : k \in ToSet(Children(s))})
WalkBody(body) == UNION {WalkScope(s) : s \in ToSet(body)}

\* block_bodies, walk_block: the bodies that are scopes of their own, and the
\* nodes of one block scope.
Bodies(s) == IF s.op \in {"if", "while", "for", "do"} THEN s.b ELSE <<>>
RECURSIVE WalkBlock(_)
WalkBlock(s) == {s} \cup (IF Boundary(s) THEN {}
                          ELSE UNION {WalkBlock(k) : k \in ToSet(s.e)})

Introduces(s) == CASE s.op \in {"var", "unset"} -> ToSet(s.ps)
                   [] s.op = "fn" -> {s.id}
                   [] OTHER -> {}
DeclaredNames(body) ==
  UNION {Introduces(s) \cup (IF s.op = "for" THEN {s.id} ELSE {}) : s \in WalkBody(body)}
OwnDeclaredNames(body) ==
  UNION {Introduces(s) : s \in UNION {WalkBlock(t) : t \in ToSet(body)}}

\* block_scopes: each name a nested scope of the body declares, with the names
\* the scopes around it bind.  A `for` owns its variable: body and else see it.
RECURSIVE BlockScopes(_, _)
BlockScopes(s, enclosing) ==
  LET loop == enclosing \cup (IF s.op = "for" THEN {s.id} ELSE {})
      all(seq, F(_)) == FoldLeft(LAMBDA acc, t : acc \o F(t), <<>>, seq)
      nested(body) ==
        LET own == OwnDeclaredNames(body)
        IN  all(Listed(own), LAMBDA x : <<[name |-> x, enclosing |-> loop]>>)
              \o all(body, LAMBDA t : BlockScopes(t, loop \cup own))
  IN  IF Boundary(s) THEN <<>>
      ELSE (IF s.op = "for" THEN <<[name |-> s.id, enclosing |-> enclosing]>> ELSE <<>>)
             \o all(Bodies(s), nested) \o all(s.e, LAMBDA e : BlockScopes(e, enclosing))

\* free_names: what a function's body reads without declaring it.  An
\* assignment's target counts as read, and an inner function's free names too.
RECURSIVE FreeNames(_, _)
FreeNames(ps, body) ==
  LET uses(s) == CASE s.op = "name" -> {s.id}
                   [] s.op \in {"assign", "setif"} -> ToSet(s.ps)
                   [] Boundary(s) -> FreeNames(s.ps, s.b[1])
                   [] OTHER -> {}
  IN  UNION {uses(s) : s \in WalkBody(body)} \ (ToSet(ps) \cup DeclaredNames(body))

RECURSIVE WalkAll(_)
WalkAll(s) == {s} \cup UNION {WalkAll(k) : k \in ToSet(Children(s))}
NodesOf(body) == UNION {WalkAll(s) : s \in ToSet(body)}

\* assigned_names enters nested functions: their writes count.
AssignedNames(body) ==
  UNION {ToSet(s.ps) : s \in {t \in NodesOf(body) : t.op \in {"assign", "setif"}}}

CapturedNames(body) ==
  UNION {FreeNames(s.ps, s.b[1]) : s \in {t \in WalkBody(body) : Boundary(t)}}
\* The names of a frame that must live in a one-element box.
CellNames(ps, body) ==
  CapturedNames(body) \cap (ToSet(ps) \cup DeclaredNames(body)) \cap AssignedNames(body)
=============================================================================

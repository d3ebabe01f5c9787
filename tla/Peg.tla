-------------------------------- MODULE Peg --------------------------------
(***************************************************************************)
(* How the generated parser reads tokens, and the trees it makes.  Its     *)
(* memo holds what each method answers at each token; here it is a table,  *)
(* filled from the last token to the first, and at each token in layers:   *)
(* no rule comes before one it may start with.                             *)
(*                                                                         *)
(* With `ordered` the table is the parser's: the first alternative that    *)
(* matches is taken and repetition takes all it can.  Without, it holds    *)
(* every reading the rules allow.  An empty list counts as a failure, as   *)
(* the `and` of the generated code has it.                                 *)
(***************************************************************************)
EXTENDS Grammar, FiniteSets

Tree(kind, kids) == [kind |-> kind, text |-> "", kids |-> kids]
Leaf(kind, text) == [kind |-> kind, text |-> text, kids |-> <<>>]
List(kids) == Tree("list", kids)
None == Tree("None", <<>>)

-----------------------------------------------------------------------------
(***************************************************************************)
(* The actions of the rules.                                               *)
(***************************************************************************)
RECURSIVE FoldLeft(_, _), FoldPostfix(_, _), FoldIndex(_, _), Concat(_)

BinOp(op, left, right) == [kind |-> "BinOp", text |-> op.text, kids |-> <<left, right>>]

FoldLeft(node, rest) ==
    IF rest = <<>> THEN node
    ELSE FoldLeft(BinOp(rest[1].kids[1], node, rest[1].kids[2]), Tail(rest))

FoldPostfix(node, ops) ==
    IF ops = <<>> THEN node
    ELSE FoldPostfix([ops[1] EXCEPT !.kids = <<node>> \o @], Tail(ops))

FoldIndex(base, indices) ==
    IF indices = <<>> THEN base
    ELSE FoldIndex(Tree("IndexTarget", <<base, indices[1]>>), Tail(indices))

Concat(groups) ==
    IF groups = <<>> THEN <<>> ELSE groups[1].kids \o Concat(Tail(groups))

\* `:=` declares plain names; anything else on its left is an error.
Assignment(targets, op, values) ==
    IF op.text # ":=" THEN [kind |-> "Assign", text |-> op.text, kids |-> <<targets, values>>]
    ELSE IF \E i \in DOMAIN targets.kids : targets.kids[i].kind # "NameTarget"
    THEN Tree("SyntaxError", <<>>)
    ELSE Tree("VarDecl", <<List([i \in DOMAIN targets.kids |->
             Tree("VarTarget", <<targets.kids[i].kids[1], None>>)]), values>>)

StringLiteral(tok) ==
    Leaf(CASE tok.text = "'s" -> "Symbol" [] tok.text = "\\c" -> "Char" [] OTHER -> "Str",
         tok.text)

Make(how, v) ==
    CASE how = "same" -> v[1]
      [] how = "single" -> List(<<v[1]>>)
      [] how = "cons" -> List(<<v[1]>> \o v[2].kids)
      [] how = "flat" -> List(Concat(v[1].kids))
      [] how = "Program" -> Tree(how, Concat(v[1].kids))
      [] how = "members" -> Tree(how, v[1].kids)
      [] how = "classes" -> Tree(how, IF v = <<>> THEN <<>> ELSE <<v[1]>> \o v[2].kids)
      [] how = "expression" -> IF Len(v[1].kids) = 1 THEN v[1].kids[1] ELSE Tree("Tuple", v[1].kids)
      [] how = "make_tuple" -> Tree("Tuple", <<v[1]>> \o v[2].kids)
      [] how = "make_type_expr" -> Tree("TypeExpr", <<v[1]>> \o v[2].kids)
      [] how = "make_string_literal" -> StringLiteral(v[1])
      [] how = "make_assignment_stmt" -> Assignment(v[1], v[2], v[3])
      [] how = "left" -> FoldLeft(v[1], v[2].kids)
      [] how = "fold_postfix" -> FoldPostfix(v[1], v[2].kids)
      [] how = "fold_index_target" -> FoldIndex(v[1], v[2].kids)
      [] how \in {"compare", "power"} -> BinOp(v[2], v[1], v[3])
      [] how = "spaceship" -> Leaf("token", "<=>")
      [] how = "isNot" -> Tree("not", <<Tree("TypeCheck", v)>>)
      [] OTHER -> Tree(how, v)

Fails(tree) == tree = List(<<>>) \/ tree.kind = "SyntaxError"

-----------------------------------------------------------------------------
(***************************************************************************)
(* Reading.  c holds the tokens and the mode, t the table; a partial       *)
(* reading is a position and what the items before it have left.           *)
(***************************************************************************)
Leave(r, to, left) == [at |-> to, left |-> r.left \o left]
Found(t, at, rule) == IF rule \in DOMAIN t[at] THEN t[at][rule] ELSE {}

RECURSIVE Items(_, _, _, _), Repeat(_, _, _, _), Choice(_, _, _, _)

\* One run through a group of items, which leaves one value or none.
Group(c, t, group, r) ==
    {Leave(r, g.at, IF Len(g.left) > 1 THEN <<List(g.left)>> ELSE g.left) :
        g \in Items(c, t, group, {[at |-> r.at, left |-> <<>>]})}

\* Further runs through a group: all of them, or every number of them.
Repeat(c, t, group, r) ==
    LET more == UNION {Repeat(c, t, group, g) : g \in Group(c, t, group, r)}
    IN  IF c.ordered /\ more # {} THEN more ELSE {r} \cup more

Leaves(group) == \E i \in DOMAIN group : group[i].op # "token"
Runs(c, t, i, r) ==
    LET runs == Repeat(c, t, i.group, [at |-> r.at, left |-> <<>>])
    IN  {Leave(r, g.at, IF Leaves(i.group) THEN <<List(g.left)>> ELSE <<>>) :
            g \in {g \in runs : i.op = "many" \/ g.at > r.at}}

Absent(i, r) ==
    Leave(r, r.at, IF i.op = "orEmpty" THEN <<List(<<>>)>>
                   ELSE IF Leaves(i.group) THEN <<None>> ELSE <<>>)
Optional(c, t, i, r) ==
    LET there == Group(c, t, i.group, r)
    IN  IF c.ordered /\ there # {} THEN there ELSE there \cup {Absent(i, r)}

Read(c, t, i, r) ==
    CASE i.op = "token" -> IF c.toks[r.at] \in i.toks THEN {Leave(r, r.at + 1, <<>>)} ELSE {}
      [] i.op = "kept" ->
            IF c.toks[r.at] \in i.toks
            THEN {Leave(r, r.at + 1, <<Leaf("token", c.toks[r.at])>>)} ELSE {}
      [] i.op = "rule" -> {Leave(r, f.at, <<f.tree>>) : f \in Found(t, r.at, i.rule)}
      [] i.op = "none" -> {Leave(r, r.at, <<None>>)}
      [] i.op = "empty" -> {Leave(r, r.at, <<List(<<>>)>>)}
      [] i.op \in {"many", "more"} -> Runs(c, t, i, r)
      [] OTHER -> Optional(c, t, i, r)

Items(c, t, items, readings) ==
    IF items = <<>> \/ readings = {} THEN readings
    ELSE Items(c, t, Tail(items), UNION {Read(c, t, items[1], r) : r \in readings})

Choice(c, t, alts, at) ==
    IF alts = <<>> THEN {}
    ELSE LET r     == Items(c, t, alts[1].items, {[at |-> at, left |-> <<>>]})
             found == {[at |-> g.at, tree |-> Make(alts[1].make, g.left)] : g \in r}
         IN  IF c.ordered /\ found # {} THEN found
             ELSE found \cup Choice(c, t, Tail(alts), at)

Matches(c, t, rule, at) == {f \in Choice(c, t, Rules[rule], at) : ~Fails(f.tree)}

-----------------------------------------------------------------------------
(***************************************************************************)
(* The table.                                                              *)
(***************************************************************************)
Nullable(i) == i.op \in {"none", "empty", "opt", "orEmpty", "many"}
               \/ i.rule = "program"

RECURSIVE Heads(_), Layered(_, _), Starters(_, _, _), Fill(_, _, _, _), Filled(_, _, _)

\* The items a sequence of items may start with.
Heads(items) ==
    IF items = <<>> THEN {}
    ELSE (IF items[1].group # <<>> THEN Heads(items[1].group) ELSE {items[1]})
         \cup (IF Nullable(items[1]) THEN Heads(Tail(items)) ELSE {})
HeadsOfAny(alts) == UNION {Heads(alts[k].items) : k \in DOMAIN alts}
HeadsOf(rule) == HeadsOfAny(Rules[rule])

Layered(rest, done) ==
    IF rest = {} THEN <<>>
    ELSE LET next == {n \in rest : \A h \in HeadsOf(n) : h.op = "rule" => h.rule \in done}
         IN  <<next>> \o Layered(rest \ next, done \cup next)
Layers == Layered(DOMAIN Rules, {})

\* The tokens a rule may start with.
Starters(layers, k, known) ==
    IF k > Len(layers) THEN known
    ELSE Starters(layers, k + 1, known @@ [n \in layers[k] |->
            UNION {IF h.op = "rule" THEN known[h.rule] ELSE h.toks : h \in HeadsOf(n)}])
Starts == Starters(Layers, 1, <<>>)

\* The layers at a token: the rules that may start with it.
Trimmed(layers) == SelectSeq(layers, LAMBDA layer : layer # {})
LayersAt(starts, layers, tok) ==
    Trimmed([k \in 1..Len(layers) |-> {n \in layers[k] : tok \in starts[n] \/ n \in {"start", "program"}}])
TableOf(starts, layers) ==
    [tok \in UNION {starts[n] : n \in DOMAIN starts} \cup {"?"} |-> LayersAt(starts, layers, tok)]
LayersOf == TableOf(Starts, Layers)
At(table, tok) == table[IF tok \in DOMAIN table THEN tok ELSE "?"]

Fill(c, t, at, layers) ==
    IF layers = <<>> \/ t = <<>> THEN t
    ELSE Fill(c, [t EXCEPT ![at] = @ @@ [n \in layers[1] |-> Matches(c, t, n, at)]], at, Tail(layers))

Filled(c, t, at) == IF at = 0 THEN t ELSE Filled(c, Fill(c, t, at, At(LayersOf, c.toks[at])), at - 1)

Readings(toks, ordered) ==
    LET c == [toks |-> toks, ordered |-> ordered]
        t == Filled(c, [at \in 1..Len(toks) |-> <<>>], Len(toks))
    IN  {f.tree : f \in Found(t, 1, "start")}
============================================================================

----------------------------- MODULE MCReading -----------------------------
(***************************************************************************)
(* Instances of Reading: expressions of every kind within each other,      *)
(* statements of every kind within each other in every layout, short       *)
(* sentences of a few tokens, and short layouts of a few lines.            *)
(***************************************************************************)
EXTENDS Reading, Writing

Tok(t) == Leaf("token", t)
Nm(t) == Tree("Name", <<Tok(t)>>)
A == Nm("a")
B == Nm("b")
C == Nm("c")
One == Tree("Num", <<Tok("1")>>)
Op(op, l, r) == BinOp(Tok(op), l, r)
Toks(names) == List([i \in DOMAIN names |-> Tok(names[i])])
Ty(t) == Tree("TypeExpr", <<Tok(t)>>)
Types(ts) == List([i \in DOMAIN ts |-> Ty(ts[i])])
NoArgs == List(<<>>)
Decorator(args) ==
    IF args = None THEN Tree("Decorator", <<Tok("d")>>) ELSE Tree("Applied", <<Tok("d"), args>>)
Message(object, module, args) == Tree("Message", <<object, module, Tok("m"), args>>)

-----------------------------------------------------------------------------
(***************************************************************************)
(* Expressions.                                                            *)
(***************************************************************************)
\* A `yield` is a statement, and a leading `if` or decorator makes a compound
\* one: those stand in an array.
AsStatement(e) ==
    IF e.kind \in {"Yield", "YieldFrom"} THEN e
    ELSE IF \/ Expr(e, 0)[1] \in {"if", "@"} \/ e.kind = "SetIfUnset"
            \/ e.kind = "Tuple" /\ \E i \in DOMAIN e.kids : e.kids[i].kind = "SetIfUnset"
      THEN Tree("ExprStmt", <<Tree("Array", <<List(<<e>>)>>)>>)
      ELSE Tree("ExprStmt", <<e>>)

\* What an operator written after a message without arguments would change.
Open(e) == e.kind \in {"Message", "MessageTupleExpr"}

Some == {"or", "and", "==", "|", "-", "*", "**"}
Binary == Some \cup {"<=>", "in", "^", "&", "<<", ">>", "+", "%"}

\* An object in parentheses is a tuple of receivers, which no module can follow:
\* `(e) ! n::m(o)` is not the message n::m (wyrm.gram:680-684) but what n answers,
\* its `::m` called (wyrm.gram:793-797).  So the messages below, which are to be
\* read as messages, have objects that need no parentheses (Level 16, postfix).
Parenthesised(e, o) ==
    LET scope == Tree("Scope", <<Tree("MessageTupleExpr", <<List(<<e>>), Tok("n"), None>>), Tok("m")>>)
    IN  {scope, Tree("Call", <<scope, List(<<o>>)>>)}

\* An expression of every kind around e, and around e and another operand.
Around(e, o, ops) ==
    {Op(op, e, o) : op \in ops} \cup {Op(op, o, e) : op \in ops}
    \cup {Tree(u, <<e>>) : u \in {"not", "neg", "inv", "TaskSpawn", "Try", "Yield", "YieldFrom", "AstRef"}}
    \cup {Tree(k, <<e, o>>) : k \in {"SetIfUnset", "Catch", "Tuple", "Index"}}
    \cup {Tree(k, <<o, e>>) : k \in {"SetIfUnset", "Catch", "Tuple", "Index"}}
    \cup {Tree("TypeCheck", <<e, Types(<<"x", "y">>)>>),
          Tree("not", <<Tree("TypeCheck", <<e, Types(<<"x">>)>>)>>),
          Tree("Catch", <<Tree("Try", <<o>>), e>>),
          Tree("Catch", <<o, Tree("Return", <<e>>)>>), Tree("Tuple", <<e>>),
          Tree("Array", <<List(<<e, o>>)>>), Tree("Pair", <<List(<<o, e>>)>>),
          Tree("Dict", <<List(<<Tree("DictEntry", <<e, o>>), Tree("DictEntry", <<o, e>>)>>)>>),
          Tree("MessageTupleExpr", <<List(<<e, o>>), Tok("m"), None>>),
          Tree("MessageTupleExpr", <<List(<<e>>), Tok("m"), List(<<o>>)>>),
          Tree("Call", <<o, List(<<e, Tree("Kwarg", <<Tok("x"), e>>)>>)>>),
          Tree("Call", <<o, List(<<Tree("SpreadPos", <<e>>), Tree("SpreadKw", <<e>>)>>)>>),
          Tree("SuperCall", <<List(<<e>>)>>), Tree("Attr", <<e, Tok("x")>>),
          Tree("Decorated", <<Decorator(NoArgs), e>>),
          Tree("Lambda", <<NoArgs, List(<<AsStatement(e), AsStatement(o)>>)>>),
          Tree("Do", <<List(<<AsStatement(o), AsStatement(e)>>)>>),
          Tree("If", <<e, List(<<AsStatement(o)>>),
                       List(<<Tree("ElifClause", <<o, List(<<AsStatement(e)>>)>>)>>),
                       List(<<AsStatement(e)>>)>>)}
    \cup (IF Open(e) THEN {} ELSE {Tree("Call", <<e, List(<<o>>)>>), Tree("Scope", <<e, Tok("x")>>)})
    \cup Parenthesised(e, o)
    \cup (IF Level(e) < 16 THEN {}
          ELSE {Message(e, module, args) : module \in {None, Tok("n")}, args \in {None, List(<<o>>)}})

Simples == {A, One, Tree("ThisRef", <<>>), Leaf("Symbol", "'s"), Tree("EllipsisExpr", <<>>),
            Tree("Tuple", <<>>), Tree("Array", <<NoArgs>>), Tree("Dict", <<NoArgs>>), Tree("true", <<>>),
            Tree("ThreadSpawn", <<Toks(<<"m", "n">>)>>), Tree("Defined", <<Leaf("Str", "text")>>),
            Tree("Decorated", <<Decorator(None), A>>)}

\* One kind in another, and a further one around that.
Exprs1 == UNION {Around(e, B, Binary) : e \in Simples}
Exprs2 == UNION {Around(e, C, Some) : e \in Around(A, B, Some)}

-----------------------------------------------------------------------------
(***************************************************************************)
(* Statements.                                                             *)
(***************************************************************************)
Target(n) == Tree("NameTarget", <<Tok(n)>>)
Attribute == Tree("AttrTarget", <<Tok("this"), Toks(<<"x", "y">>)>>)
Entry == Tree("IndexTarget", <<Tree("IndexTarget", <<Tree("AttrTarget", <<Tok("a"), Toks(<<"x">>)>>), B>>), C>>)
Assign(targets, op, values) == [kind |-> "Assign", text |-> op, kids |-> <<List(targets), List(values)>>]
Params2 == List(<<Tree("Param", <<Tok("x"), None, None>>), Tree("Param", <<Tok("y"), Ty("m"), B>>),
                  Tree("VarPositional", <<Tok("c")>>), Tree("VarKeyword", <<Tok("d")>>)>>)
VarOf(targets, values) == Tree("VarDecl", <<List(targets), values>>)
Doing(e) == Tree("ExprStmt", <<e>>)
Imported == Toks(<<"m", "n">>)
Body == List(<<Doing(A), Tree("Return", <<B>>)>>)
Slot(ty, value, options) == Tree("SlotDef", <<Tok("x"), ty, value, options>>)
Option(name, value) == Tree("SlotOption", <<Tok(name), value>>)

SimpleStmts ==
    {Tree("Pass", <<>>), Tree("Break", <<>>), Tree("Continue", <<>>),
     Tree("Return", <<None>>), Tree("Return", <<Tree("Tuple", <<A, B>>)>>),
     Tree("Yield", <<None>>), Tree("YieldFrom", <<A>>), Tree("Emit", <<Tok("m"), List(<<A>>)>>),
     Assign(<<Target("a"), Attribute>>, "=", <<B, C>>), Assign(<<Entry>>, "?=", <<One>>),
     VarOf(<<Tree("VarTarget", <<Tok("a"), Ty("m")>>), Tree("VarTarget", <<Tok("b"), None>>)>>, List(<<A, B>>)),
     VarOf(<<Tree("VarTarget", <<Tok("a"), None>>)>>, None),
     Tree("StaticDecl", <<Tok("x"), Ty("m"), A>>), Tree("WithSimple", <<Tok("x"), None, A>>),
     Tree("SignalDef", <<Tok("x"), Params2>>),
     Tree("Import", <<Imported>>), Tree("make_static_import", <<Tree("ImportAs", <<Imported, Tok("a")>>)>>),
     Tree("ImportAll", <<Imported>>), Tree("ImportExcept", <<Imported, Toks(<<"a">>)>>),
     Tree("ImportExcept", <<Imported, Toks(<<"a", "b">>)>>),
     Tree("ImportItems", <<Imported, List(<<Tree("ImportItem", <<Tok("a"), None>>),
                                           Tree("ImportItem", <<Tok("b"), Tok("c")>>)>>)>>),
     Tree("FromImport", <<Imported, Toks(<<"a", "b">>)>>)}

\* A statement of every compound kind whose blocks are b and c, and the
\* simple ones that end with a block.
Holding(b, c) ==
    {Tree("If", <<A, b, NoArgs, None>>),
     Tree("If", <<A, b, List(<<Tree("ElifClause", <<B, c>>), Tree("ElifClause", <<C, b>>)>>), c>>),
     Tree("While", <<A, b>>), Tree("For", <<Tok("x"), A, b, None>>), Tree("For", <<Tok("x"), A, b, c>>),
     Tree("Defer", <<b>>), Tree("DeferOnError", <<b>>),
     Tree("FnDef", <<None, Tok("f"), NoArgs, None, b>>),
     Tree("FnDef", <<Tree("classes", <<Tok("a"), Tok("b")>>), Tok("f"), Params2, Ty("m"), b>>),
     Tree("CoDef", <<None, Tok("f"), None, None, b>>),
     Tree("CoDef", <<None, Tok("f"), Tree("CoParams", <<Ty("m"), Params2>>), None, b>>),
     Tree("Decorated", <<Decorator(List(<<A>>)), Tree("FnDef", <<None, Tok("f"), NoArgs, None, b>>)>>),
     Assign(<<Target("a")>>, "=", <<Tree("Lambda", <<NoArgs, b>>)>>),
     Assign(<<Target("a")>>, "=", <<Tree("Do", <<b>>)>>)}

ClassOf(b) ==
    Tree("ClassDef", <<Tok("a"), List(<<B>>),
        Tree("members", <<Slot(Ty("m"), A, None), Tree("FnDef", <<None, Tok("f"), NoArgs, None, b>>),
                                 Slot(None, None, List(<<Option("setter", Tok("undefined")), Option("getter", A)>>)),
                                 Tree("SignalDef", <<Tok("y"), NoArgs>>),
                                 Tree("CoDef", <<None, Tok("f"), None, None, b>>),
                                 Tree("StaticDecl", <<Tok("x"), None, A>>)>>)>>)
WithBlock == Tree("WithBlock", <<List(<<Tree("WithBinding", <<Tok("x"), None, A>>),
                                     Tree("WithBinding", <<Tok("y"), Ty("m"), B>>)>>)>>)

Blocks1 == {List(<<s>>) : s \in {Doing(A), Assign(<<Target("a")>>, "=", <<B>>)}}
           \cup {List(<<Doing(B), s>>) : s \in Holding(Body, Body)}
Compounds2 == UNION {Holding(b, Body) \cup {ClassOf(b)} : b \in Blocks1}
WithBlocks == {WithBlock} \cup Holding(List(<<WithBlock>>), Body)
              \cup Holding(List(<<WithBlock, Doing(B)>>), List(<<WithBlock>>))

\* Inside braces no block is indented: that is left to "indent" outside.
Layouts == {<<"indent">>, <<"lines">>, <<"braces">>, <<"inline">>, <<"indent", "lines">>}

Written(ss, hows) ==
    {[source |-> Source(Tree("Program", s), how), wanted |-> {Tree("Program", s)}] : s \in ss, how \in hows}

-----------------------------------------------------------------------------
(***************************************************************************)
(* Short sentences, whatever they mean: a beginning and up to four of a    *)
(* few tokens; and layouts of three lines.                                 *)
(***************************************************************************)
Family(start, words) == {start \o w : w \in UNION {[1..n -> words] : n \in 0..4}}
Sentences ==
    Family(<<"import", "m">>, {"::", "*", "except", "a", ","})
    \cup Family(<<"defer">>, {"on", "error", ":", "a"})
    \cup Family(<<"a">>, {"is", "not", "<=", ">", "b"})
    \cup Family(<<>>, {"{", "}", ":", "do", "a"})
    \cup Family(<<"(", "a">>, {")", "!", "m", "::", "("})
    \cup Family(<<"f", "(">>, {"a", "=", "*", ",", ")"})
    \cup Family(<<>>, {"try", "a", "catch", "return"})
    \cup Family(<<"@", "d">>, {"(", ")", "a", ",", Break(0)})
    \cup Family(<<"a">>, {",", "=", "b", "[", "]"})

Line(text) == {text \o <<Break(i)>> : i \in 0..2}
Texts == {<<"a">>, <<"if", "a", ":">>, <<"if", "a", "{">>, <<"}">>, <<"(">>, <<")">>, <<"#", "x">>}
Lines3 == {a \o b \o c : a, b \in UNION {Line(t) : t \in Texts}, c \in {t \o <<Break(1)>> : t \in Texts}}

MCInputs ==
    Written({<<AsStatement(e)>> : e \in Exprs1 \cup Exprs2}, {<<"braces">>})
    \cup Written({<<s, Doing(B)>> : s \in SimpleStmts \cup Compounds2}, Layouts)
    \cup Written({<<s, Doing(B)>> : s \in WithBlocks}, {<<"indent">>})
    \cup {[source |-> s, wanted |-> {}] : s \in Sentences \cup Lines3}
============================================================================

------------------------------ MODULE Writing ------------------------------
(***************************************************************************)
(* A reference for the parser: how a tree is written, from the table of    *)
(* levels of doc/grammar.ebnf, with the parentheses its level asks for and *)
(* its blocks laid out in one of four ways.  Parsing must give the tree    *)
(* back.                                                                   *)
(***************************************************************************)
EXTENDS Integers, Sequences, Lexer

LevelOf(op) ==
    CASE op = "or" -> 4 [] op = "and" -> 5
      [] op \in {"<=", ">=", "==", "!=", "<", ">", "in", "<=>"} -> 7
      [] op = "|" -> 8 [] op = "^" -> 9 [] op = "&" -> 10
      [] op \in {"<<", ">>"} -> 11 [] op \in {"+", "-"} -> 12
      [] op \in {"*", "/", "%"} -> 13 [] op = "**" -> 15

Level(e) ==
    CASE e.kind = "Tuple" -> IF Len(e.kids) > 1 THEN 0 ELSE 17
      [] e.kind \in {"Yield", "YieldFrom"} -> 0
      [] e.kind = "SetIfUnset" -> 1
      [] e.kind = "Catch" -> IF e.kids[2].kind = "Return" THEN 0 ELSE 2
      [] e.kind = "Try" -> 3
      [] e.kind = "BinOp" -> LevelOf(e.text)
      [] e.kind = "not" -> 6
      [] e.kind = "TypeCheck" -> 7
      [] e.kind \in {"neg", "pos", "inv", "TaskSpawn", "ThreadSpawn", "Decorated"} -> 14
      [] e.kind \in {"Call", "Index", "Attr", "Message", "Scope", "AstRef"} -> 16
      [] OTHER -> 17

\* How deep blocks are laid out: "indent", "lines" (braces over several
\* lines), "braces" (on one line) and "inline".
InBraces(how) == how[1] \in {"lines", "braces"}
Inner(how) == IF Len(how) > 1 THEN Tail(how) ELSE how

\* Everything nested is written through one dispatch on what it is; `at` is
\* the level or the indentation it stands at.
RECURSIVE Write(_, _, _, _), Exprs(_, _), Joined(_, _, _), Stmts(_, _, _, _), Elifs(_, _, _), Dotted(_, _)
Expr(e, level)     == Write("expr", e, level, <<>>)
Arg(a)             == Write("arg", a, 0, <<>>)
Stmt(s, col, how)  == Write("stmt", s, col, how)
Block(b, col, how) == Write("block", b, col, how)
Members(ms, col, how) == Write("members", ms, col, how)

Parens(toks) == <<"(">> \o toks \o <<")">>

\* An operand on the right, where `not` binds as tightly as a sign.
Operand(e, level) ==
    IF e.kind = "not" /\ Level(e.kids[1]) >= 14 THEN <<"not">> \o Expr(e.kids[1], 14)
    ELSE Expr(e, level)

Dotted(toks, sep) ==
    IF Len(toks) = 1 THEN <<toks[1].text>> ELSE <<toks[1].text, sep>> \o Dotted(Tail(toks), sep)
Exprs(es, level) ==
    IF es = <<>> THEN <<>>
    ELSE IF Len(es) = 1 THEN Expr(es[1], level)
    ELSE Expr(es[1], level) \o <<",">> \o Exprs(Tail(es), level)
ArgToks(a) ==
    CASE a.kind = "Kwarg" -> <<a.kids[1].text, "=">> \o Expr(a.kids[2], 1)
      [] a.kind = "SpreadPos" -> <<"*">> \o Expr(a.kids[1], 1)
      [] a.kind = "SpreadKw" -> <<"**">> \o Expr(a.kids[1], 1)
      [] a.kind = "DictEntry" -> Expr(a.kids[1], 1) \o <<":">> \o Expr(a.kids[2], 1)
      [] a.kind = "Param" -> <<a.kids[1].text>>
            \o (IF a.kids[2].kind = "None" THEN <<>> ELSE <<":">> \o Dotted(a.kids[2].kids, "::"))
            \o (IF a.kids[3].kind = "None" THEN <<>> ELSE <<"=">> \o Expr(a.kids[3], 1))
      [] a.kind = "VarPositional" -> <<"*", a.kids[1].text>>
      [] a.kind = "VarKeyword" -> <<"**", a.kids[1].text>>
      [] a.kind = "VarTarget" -> <<a.kids[1].text>>
            \o (IF a.kids[2].kind = "None" THEN <<>> ELSE <<":">> \o Dotted(a.kids[2].kids, "::"))
      [] a.kind = "TypeExpr" -> Dotted(a.kids, "::")
      [] a.kind = "NameTarget" -> <<a.kids[1].text>>
      [] a.kind = "AttrTarget" -> <<a.kids[1].text, ".">> \o Dotted(a.kids[2].kids, ".")
      [] a.kind = "IndexTarget" -> Arg(a.kids[1]) \o <<"[">> \o Expr(a.kids[2], 0) \o <<"]">>
      [] a.kind = "ImportItem" -> <<a.kids[1].text>>
            \o (IF a.kids[2].kind = "None" THEN <<>> ELSE <<"as", a.kids[2].text>>)
      [] a.kind = "token" -> <<a.text>>
      [] OTHER -> Expr(a, 1)
Joined(as, sep, i) ==
    IF i > Len(as) THEN <<>>
    ELSE IF i = Len(as) THEN Arg(as[i]) ELSE Arg(as[i]) \o <<sep>> \o Joined(as, sep, i + 1)
Listed(list) == Parens(Joined(list.kids, ",", 1))

Bare(e) ==
    LET k == e.kids
    IN  CASE e.kind \in {"Name", "Num"} -> <<k[1].text>>
          [] e.kind \in {"Str", "Char", "Symbol"} -> <<e.text>>
          [] e.kind = "true" -> <<"true">> [] e.kind = "false" -> <<"false">>
          [] e.kind = "EllipsisExpr" -> <<"...">>
          [] e.kind = "ThisRef" -> <<"this">>
          [] e.kind = "SuperCall" -> <<"super">> \o Listed(k[1])
          [] e.kind = "Defined" -> <<"defined">> \o Parens(Expr(k[1], 0))
          [] e.kind = "ThreadSpawn" -> <<"thread">> \o Dotted(k[1].kids, "::")
          [] e.kind = "Tuple" ->
                IF k = <<>> THEN Parens(<<>>)
                ELSE IF Len(k) = 1 THEN Parens(Expr(k[1], 1) \o <<",">>) ELSE Exprs(k, 1)
          [] e.kind = "Array" -> <<"[">> \o Exprs(k[1].kids, 1) \o <<"]">>
          [] e.kind = "Pair" -> <<"$", "[">> \o Exprs(k[1].kids, 1) \o <<"]">>
          [] e.kind = "Dict" -> <<"{">> \o Joined(k[1].kids, ",", 1) \o <<"}">>
          [] e.kind = "MessageTupleExpr" ->
                Parens(Exprs(k[1].kids, 1)) \o <<"!", k[2].text>>
                \o (IF k[3].kind = "None" THEN <<>> ELSE Listed(k[3]))
          [] e.kind = "Message" ->
                Expr(k[1], 16) \o <<"!">> \o (IF k[2].kind = "None" THEN <<>> ELSE <<k[2].text, "::">>)
                \o <<k[3].text>> \o (IF k[4].kind = "None" THEN <<>> ELSE Listed(k[4]))
          [] e.kind = "Call" -> Expr(k[1], 16) \o Listed(k[2])
          [] e.kind = "Index" -> Expr(k[1], 16) \o <<"[">> \o Expr(k[2], 0) \o <<"]">>
          [] e.kind = "Attr" -> Expr(k[1], 16) \o <<".", k[2].text>>
          [] e.kind = "Scope" -> Expr(k[1], 16) \o <<"::", k[2].text>>
          [] e.kind = "AstRef" -> Expr(k[1], 16) \o <<"::", "$ast">>
          [] e.kind = "neg" -> <<"-">> \o Operand(k[1], 14)
          [] e.kind = "pos" -> <<"+">> \o Operand(k[1], 14)
          [] e.kind = "inv" -> <<"~">> \o Operand(k[1], 14)
          [] e.kind = "TaskSpawn" -> <<"task">> \o Operand(k[1], 14)
          [] e.kind = "not" /\ k[1].kind = "TypeCheck" ->
                Expr(k[1].kids[1], 8) \o <<"is", "not">> \o Joined(k[1].kids[2].kids, "|", 1)
          [] e.kind = "not" -> <<"not">> \o Expr(k[1], 6)
          [] e.kind = "TypeCheck" -> Expr(k[1], 8) \o <<"is">> \o Joined(k[2].kids, "|", 1)
          [] e.kind = "BinOp" /\ e.text = "<=>" -> Expr(k[1], 8) \o <<"<=", ">">> \o Operand(k[2], 8)
          [] e.kind = "BinOp" /\ e.text = "**" -> Expr(k[1], 16) \o <<"**">> \o Operand(k[2], 14)
          [] e.kind = "BinOp" /\ LevelOf(e.text) = 7 ->
                Expr(k[1], 8) \o <<e.text>> \o Operand(k[2], 8)
          [] e.kind = "BinOp" -> Expr(k[1], Level(e)) \o <<e.text>> \o Operand(k[2], Level(e) + 1)
          [] e.kind = "Try" -> <<"try">> \o Expr(k[1], 4)
          [] e.kind = "Catch" -> Expr(k[1], 3) \o <<"catch">>
                \o (IF k[2].kind = "Return" THEN Stmt(k[2], 0, <<"braces">>) ELSE Expr(k[2], 4))
          [] e.kind = "SetIfUnset" -> Expr(k[1], 4) \o <<"?=">> \o Expr(k[2], 4)
          [] e.kind \in {"Yield", "YieldFrom"} -> Stmt(e, 0, <<"braces">>)
          [] e.kind = "Decorated" -> Stmt(e, 0, <<"braces">>)
          [] e.kind = "Lambda" -> <<"fn">> \o Listed(k[1]) \o Block(k[2], 0, <<"braces">>)
          [] e.kind = "Do" -> <<"do">> \o Block(k[1], 0, <<"braces">>)
          [] e.kind = "If" -> Stmt(e, 0, <<"braces">>)

-----------------------------------------------------------------------------
(***************************************************************************)
(* Statements, at an indentation.                                          *)
(***************************************************************************)
Statement(e) == \* an expression as a statement
    LET toks == Expr(e, 0) IN IF toks[1] = "if" THEN Parens(toks) ELSE toks

Values(list) == Exprs(list.kids, 1)
Annotated(ty) == IF ty.kind = "None" THEN <<>> ELSE <<":">> \o Dotted(ty.kids, "::")
Default(e) == IF e.kind = "None" THEN <<>> ELSE <<"=">> \o Expr(e, 1)
Else(b, col, how) == IF b.kind = "None" THEN <<>> ELSE
    (IF InBraces(how) THEN <<>> ELSE <<Break(col)>>) \o <<"else">> \o Block(b, col, how)
Elifs(list, col, how) ==
    IF list = <<>> THEN <<>>
    ELSE (IF InBraces(how) THEN <<>> ELSE <<Break(col)>>)
         \o <<"elif">> \o Expr(list[1].kids[1], 0) \o Block(list[1].kids[2], col, how)
         \o Elifs(Tail(list), col, how)
Receivers(c) == IF c.kind = "None" THEN <<>> ELSE <<"[">> \o Joined(c.kids, ",", 1) \o <<"]">>
Arrow(t) == IF t.kind = "None" THEN <<>> ELSE <<"->">> \o Dotted(t.kids, "::")

\* A value that ends its statement may have its blocks laid out as well.
Ending(e, col, how) ==
    CASE e.kind = "Do" -> <<"do">> \o Block(e.kids[1], col, how)
      [] e.kind = "Lambda" -> <<"fn">> \o Listed(e.kids[1]) \o Block(e.kids[2], col, how)
      [] OTHER -> Expr(e, 0)

StmtToks(s, col, how) ==
    LET k == s.kids
    IN  CASE s.kind = "ExprStmt" -> Statement(k[1])
          [] s.kind \in {"Pass", "Continue", "Break"} ->
                <<CASE s.kind = "Pass" -> "pass" [] s.kind = "Continue" -> "continue" [] OTHER -> "break">>
          [] s.kind = "Return" -> <<"return">> \o (IF k[1].kind = "None" THEN <<>> ELSE Expr(k[1], 0))
          [] s.kind = "Yield" -> <<"yield">> \o (IF k[1].kind = "None" THEN <<>> ELSE Expr(k[1], 0))
          [] s.kind = "YieldFrom" -> <<"yield", "from">> \o Expr(k[1], 0)
          [] s.kind = "Emit" -> <<"emit", k[1].text>> \o Listed(k[2])
          [] s.kind = "Assign" -> Joined(k[1].kids, ",", 1) \o <<s.text>>
                \o (IF Len(k[2].kids) = 1 THEN Ending(k[2].kids[1], col, how) ELSE Values(k[2]))
          [] s.kind = "VarDecl" -> <<"var">> \o Joined(k[1].kids, ",", 1)
                \o (IF k[2].kind = "None" THEN <<>> ELSE <<"=">> \o Values(k[2]))
          [] s.kind = "StaticDecl" -> <<"static", k[1].text>> \o Annotated(k[2]) \o Default(k[3])
          [] s.kind = "WithSimple" -> <<"with", k[1].text>> \o Annotated(k[2]) \o Default(k[3])
          [] s.kind = "SignalDef" -> <<"signal", k[1].text>> \o Listed(k[2])
          [] s.kind = "SlotDef" -> <<"slot", k[1].text>> \o Annotated(k[2]) \o Default(k[3])
                \o (IF k[4].kind = "None" THEN <<>> ELSE <<"with">> \o Members(k[4].kids, col, IF InBraces(how) THEN <<"braces">> ELSE how))
          [] s.kind = "SlotOption" -> <<k[1].text, "=">> \o Arg(k[2])
          [] s.kind = "WithBinding" -> <<k[1].text>> \o Annotated(k[2]) \o Default(k[3])
          [] s.kind = "WithBlock" -> <<"with">> \o Members(k[1].kids, col, <<"indent">>)
          [] s.kind = "Import" -> <<"import">> \o Dotted(k[1].kids, "::")
          [] s.kind = "make_static_import" -> <<"import", "static">> \o Tail(Stmt(k[1], col, how))
          [] s.kind = "ImportAs" -> <<"import">> \o Dotted(k[1].kids, "::") \o <<"as", k[2].text>>
          [] s.kind = "ImportAll" -> <<"import">> \o Dotted(k[1].kids, "::") \o <<"::", "*">>
          [] s.kind = "ImportExcept" -> <<"import">> \o Dotted(k[1].kids, "::") \o <<"::", "*", "except">>
                \o (IF Len(k[2].kids) = 1 THEN Arg(k[2].kids[1]) ELSE Listed(k[2]))
          [] s.kind = "ImportItems" -> <<"import">> \o Dotted(k[1].kids, "::") \o <<"::">> \o Listed(k[2])
          [] s.kind = "FromImport" -> <<"from">> \o Dotted(k[1].kids, "::") \o <<"import">> \o Joined(k[2].kids, ",", 1)
          [] s.kind = "Decorated" ->
                (IF k[1].kind = "Applied" THEN <<"@", k[1].kids[1].text>> \o Listed(k[1].kids[2])
                 ELSE <<"@", k[1].kids[1].text>>)
                \o (IF k[2].kind \in {"FnDef", "CoDef", "ClassDef", "While", "For", "Defer"}
                    THEN Stmt(k[2], col, how) ELSE Operand(k[2], 14))
          [] s.kind = "If" -> <<"if">> \o Expr(k[1], 0) \o Block(k[2], col, how)
                \o Elifs(k[3].kids, col, how) \o Else(k[4], col, how)
          [] s.kind = "While" -> <<"while">> \o Expr(k[1], 0) \o Block(k[2], col, how)
          [] s.kind = "For" -> <<"for", k[1].text, "in">> \o Expr(k[2], 0) \o Block(k[3], col, how)
                \o Else(k[4], col, how)
          [] s.kind = "Defer" -> <<"defer">> \o Block(k[1], col, how)
          [] s.kind = "DeferOnError" -> <<"defer", "on", "error">> \o Block(k[1], col, how)
          [] s.kind = "FnDef" -> <<"fn">> \o Receivers(k[1]) \o <<k[2].text>> \o Listed(k[3])
                \o Arrow(k[4]) \o Block(k[5], col, how)
          [] s.kind = "CoDef" -> <<"co">> \o Receivers(k[1]) \o <<k[2].text>>
                \o (IF k[3].kind = "None" THEN Parens(<<>>)
                    ELSE Parens((IF k[3].kids[1].kind = "None" THEN <<>>
                                 ELSE <<"<-">> \o Dotted(k[3].kids[1].kids, "::")
                                      \o (IF k[3].kids[2].kids = <<>> THEN <<>> ELSE <<",">>))
                                \o Joined(k[3].kids[2].kids, ",", 1)))
                \o Arrow(k[4]) \o Block(k[5], col, how)
          [] s.kind = "ClassDef" -> <<"class", k[1].text>>
                \o (IF k[2].kids = <<>> THEN <<>> ELSE Listed(k[2])) \o Members(k[3].kids, col, how)

Simple(s) == s.kind \notin {"If", "While", "For", "FnDef", "CoDef", "ClassDef", "WithBlock",
                            "Defer", "DeferOnError", "Decorated"}

Stmts(ss, col, how, sep) ==
    IF ss = <<>> THEN <<>>
    ELSE IF Len(ss) = 1 THEN Stmt(ss[1], col, how)
    ELSE Stmt(ss[1], col, how) \o <<sep>> \o Stmts(Tail(ss), col, how, sep)

BlockToks(b, col, how) ==
    LET in == Inner(how)
    IN  CASE how[1] = "lines" ->
                <<"{", Break(col + 1)>> \o Stmts(b.kids, col + 1, in, Break(col + 1)) \o <<Break(col), "}">>
          [] how[1] = "braces" -> <<"{">> \o Stmts(b.kids, col, <<"braces">>, ";") \o <<"}">>
          [] how[1] = "inline" /\ \A i \in DOMAIN b.kids : Simple(b.kids[i]) ->
                <<":">> \o Stmts(b.kids, col, <<"braces">>, ";")
          [] OTHER -> <<":", Break(col + 1)>> \o Stmts(b.kids, col + 1, in, Break(col + 1))

\* Members, options and bindings are lines of their own, or stand in braces.
MembersToks(ms, col, how) ==
    CASE how[1] = "braces" -> <<"{">> \o Stmts(ms, col, <<"braces">>, ";") \o <<"}">>
      [] how[1] = "lines" -> <<"{", Break(col + 1)>> \o Stmts(ms, col + 1, Inner(how), Break(col + 1)) \o <<Break(col), "}">>
      [] OTHER -> <<":", Break(col + 1)>> \o Stmts(ms, col + 1, Inner(how), Break(col + 1))

ExprToks(e, level) == LET toks == Bare(e) IN IF Level(e) < level THEN Parens(toks) ELSE toks
Write(what, x, at, how) == CASE what = "expr" -> ExprToks(x, at)
                             [] what = "arg" -> ArgToks(x)
                             [] what = "stmt" -> StmtToks(x, at, how)
                             [] what = "block" -> BlockToks(x, at, how)
                             [] what = "members" -> MembersToks(x, at, how)

Source(program, how) == Stmts(program.kids, 0, how, Break(0))
============================================================================

------------------------------- MODULE Lexer -------------------------------
(***************************************************************************)
(* wyrm_tokenizer.py from the layout's side: a source is a sequence of     *)
(* lexemes, and a line break carries the indentation of the line it        *)
(* starts.  A comment runs from "#" to the break, "\" before a break joins *)
(* two lines.  What the characters of a lexeme are is left out.            *)
(***************************************************************************)
EXTENDS Integers, Sequences

Breaks == <<"\n0", "\n1", "\n2", "\n3">>
Break(indent) == Breaks[indent + 1]
IsBreak(lexeme) == \E i \in DOMAIN Breaks : Breaks[i] = lexeme
IndentOf(lexeme) == (CHOOSE i \in DOMAIN Breaks : Breaks[i] = lexeme) - 1

\* `fresh`: nothing of the line has been read; `col`: where its text starts.
Lexing == [out |-> <<>>, indents |-> <<0>>, brackets |-> 0, braces |-> 0,
           fresh |-> TRUE, col |-> 0, comment |-> FALSE, joined |-> FALSE, failed |-> FALSE]

Top(s) == s.indents[Len(s.indents)]
IsNewline(tok) == tok \in {"NEWLINE", ";"}

\* pegen's tokenizer drops a NEWLINE after another.
Emit(s, tok) ==
    IF IsNewline(tok) /\ s.out # <<>> /\ IsNewline(s.out[Len(s.out)]) THEN s
    ELSE [s EXCEPT !.out = Append(@, tok)]

RECURSIVE Dedent(_), Scan(_, _)

BadDedent(s) ==
    IF s.col < Top(s)
    THEN Emit([s EXCEPT !.indents = SubSeq(@, 1, Len(@) - 1)], "DEDENT") ELSE s
Dedent(s) ==
    IF s.col < Top(s)
    THEN Dedent(Emit([s EXCEPT !.indents = SubSeq(@, 1, Len(@) - 1)], "DEDENT"))
    ELSE [s EXCEPT !.failed = s.col # Top(s)]

\* The first token of a line outside brackets and braces.
Indentation(s) ==
    IF ~s.fresh \/ s.brackets > 0 \/ s.braces > 0 THEN [s EXCEPT !.fresh = FALSE]
    ELSE IF s.col > Top(s)
    THEN Emit([s EXCEPT !.indents = Append(@, s.col), !.fresh = FALSE], "INDENT")
    ELSE Dedent([s EXCEPT !.fresh = FALSE])

\* The end of a line: blank lines count only inside braces, and in brackets
\* no line ends.
EndLine(s, break) ==
    LET n == [s EXCEPT !.comment = FALSE, !.joined = FALSE]
    IN  IF s.joined \/ s.brackets > 0 THEN n
        ELSE IF s.fresh /\ s.braces = 0 THEN [n EXCEPT !.col = IndentOf(break)]
        ELSE [Emit(n, "NEWLINE") EXCEPT !.fresh = TRUE, !.col = IndentOf(break)]

Less(n) == IF n = 0 THEN 0 ELSE n - 1
Nesting(s, tok) ==
    CASE tok \in {"(", "["} -> [s EXCEPT !.brackets = @ + 1]
      [] tok \in {")", "]"} -> [s EXCEPT !.brackets = Less(@)]
      [] tok = "{" -> [s EXCEPT !.braces = @ + 1]
      [] tok = "}" -> [s EXCEPT !.braces = Less(@)]
      [] OTHER -> s

BadLexeme(s, l) ==
    IF IsBreak(l) THEN EndLine(s, l)
    ELSE IF s.comment THEN s
    ELSE CASE l = "#"  -> [Indentation(s) EXCEPT !.comment = TRUE]
           [] l = "\\" -> [Indentation(s) EXCEPT !.joined = TRUE]
           [] OTHER    -> Emit(Nesting(Indentation(s), l), l)
Lexeme(s, l) ==
    IF IsBreak(l) THEN EndLine(s, l)
    ELSE IF s.comment THEN s
    ELSE CASE l = "#"  -> [s EXCEPT !.comment = TRUE]
           [] l = "\\" -> [Indentation(s) EXCEPT !.joined = TRUE]
           [] OTHER    -> Emit(Nesting(Indentation(s), l), l)

Scan(s, source) ==
    IF source = <<>> \/ s.failed THEN s ELSE Scan(Lexeme(s, source[1]), Tail(source))

\* A source ends with a line break; what is still indented ends with it.
Tokens(source) ==
    LET s == Scan(Lexing, source)
        e == Dedent([EndLine(s, Break(0)) EXCEPT !.col = 0])
    IN  IF s.failed THEN <<>> ELSE Append(e.out, "ENDMARKER")
============================================================================

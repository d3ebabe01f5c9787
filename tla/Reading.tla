------------------------------ MODULE Reading ------------------------------
(***************************************************************************)
(* parse.py: a source is split into tokens, the tokens are parsed.  An     *)
(* input is a source and, when it was written from one, the tree it means. *)
(***************************************************************************)
EXTENDS Peg, Lexer

CONSTANT Inputs   \* what is read: [source, wanted]; wanted is empty for a
                  \* source no tree was written as

VARIABLES phase,     \* "source", "tokens", "tree"
          source, wanted,
          tokens, 
          read,      \* the tree, in a set; empty for a syntax error
          readings   \* every tree the rules allow, whatever their order
vars == <<phase, source, wanted, tokens, read, readings>>

Init == /\ phase = "source"
        /\ \E i \in Inputs : source = i.source /\ wanted = i.wanted
        /\ tokens = <<>> /\ read = {} /\ readings = {}

Tokenize == /\ phase = "source"
            /\ tokens' = Tokens(source)
            /\ phase' = IF tokens' = <<>> THEN "tree" ELSE "tokens"
            /\ UNCHANGED <<source, wanted, read, readings>>

Parse == /\ phase = "tokens"
         /\ read' = Readings(tokens, TRUE)
         /\ readings' = IF wanted = {} THEN Readings(tokens, FALSE) ELSE read'
         /\ phase' = "tree"
         /\ UNCHANGED <<source, wanted, tokens>>

Done == phase = "tree" /\ UNCHANGED vars

Next == Tokenize \/ Parse \/ Done
Spec == Init /\ [][Next]_vars

-----------------------------------------------------------------------------
\* A parser answers one tree or a syntax error, and a source that cannot be
\* split into tokens is never parsed (parser.py; wyrm_tokenizer.py).
TypeOK == /\ phase \in {"source", "tokens", "tree"}
          /\ Cardinality(read) <= 1
          /\ tokens = <<>> => read = {}

\* What is written from a tree, with the parentheses of its level and its
\* blocks in any layout, is read back as that tree: no rule, precedence,
\* fold or layout changes what a program means (the rules of parser.py,
\* actions.py, wyrm_tokenizer.py).
Reads == TypeOK /\ (phase = "tree" /\ wanted # {} => read = wanted)

RECURSIVE Kinds(_)
Kinds(tree) == {tree.kind} \cup UNION {Kinds(tree.kids[i]) : i \in DOMAIN tree.kids}

\* One hiding is meant: parentheses right after a decorator's name are always
\* its arguments, so `@d (a)`, which then has no operand, is a syntax error
\* (wyrm.gram:178-181).  The readings without it, for a source of at most one
\* decorator.
Meant ==
    LET called == \E i \in 1 .. Len(tokens) - 2 : tokens[i] = "@" /\ tokens[i + 2] = "("
    IN  {r \in readings : called => "Applied" \in Kinds(r)}

\* In the sentences read both ways no alternative hides a later one: what the
\* rules allow in any order of their alternatives, and mean, is not refused
\* because an earlier alternative took a part of it (the order of the
\* alternatives in parser.py).
NothingHidden == phase = "tree" => (Meant # {} => read # {})

\* Every INDENT has its DEDENT, at the end of the source too, and none
\* comes between brackets or braces (wyrm_tokenizer.py, tokens and
\* _handle_indentation).
CountOf(toks, n) == Cardinality({i \in 1..n : tokens[i] \in toks})
Balanced ==
    phase = "tokens" =>
      /\ CountOf({"INDENT"}, Len(tokens)) = CountOf({"DEDENT"}, Len(tokens))
      /\ \A n \in DOMAIN tokens :
            /\ tokens[n] = "DEDENT" => CountOf({"INDENT"}, n) >= CountOf({"DEDENT"}, n)
            /\ tokens[n] = "INDENT" => /\ CountOf({"("}, n) <= CountOf({")"}, n)
                                       /\ CountOf({"{"}, n) <= CountOf({"}"}, n)

\* Lines that are empty or hold a comment only, at any indentation, change
\* nothing (wyrm_tokenizer.py, _handle_indentation and _scan_line_tokens).
RECURSIVE Stripped(_, _)
Stripped(s, comment) ==
    IF s = <<>> THEN <<>>
    ELSE LET rest == Stripped(Tail(s), ~IsBreak(s[1]) /\ (comment \/ s[1] = "#"))
         IN  IF IsBreak(s[1]) /\ rest # <<>> /\ IsBreak(rest[1]) THEN rest
             ELSE IF (comment /\ ~IsBreak(s[1])) \/ s[1] = "#" THEN rest
             ELSE <<s[1]>> \o rest
CommentsVanish == phase # "source" /\ wanted = {} => tokens = Tokens(Stripped(source, FALSE))
============================================================================

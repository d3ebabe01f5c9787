-------------------------------- MODULE Lang --------------------------------
(***************************************************************************)
(* The control structure of a Wyrm function body, as both twins of the     *)
(* evaluator walk it (src/wypoc/ast_nodes.py).  What an expression         *)
(* computes is abstracted to what control can tell apart: calls, their     *)
(* results and errors.  `mark` is any statement with a visible effect.     *)
(***************************************************************************)
EXTENDS Naturals, Sequences, SequencesExt

Value == {"nil", "ok", "err"}

\* A statement; `arg` is a tag, a value, a mode or an outcome.
Stmt(op, arg, body, other) == [op |-> op, arg |-> arg, body |-> body, other |-> other]
Simple(op, arg) == Stmt(op, arg, <<>>, <<>>)

Mark(tag)      == Simple("mark", tag)
Return(value)  == Simple("return", value)
Break          == Simple("break", "nil")
Continue       == Simple("continue", "nil")
Crash          == Simple("crash", "nil")        \* an operation that raises
If(branch, body, other) == Stmt("if", branch, body, other)     \* "then", "else"
Do(body)       == Stmt("do", "nil", body, <<>>)
For(times, body, other) == Stmt("for", times, body, other)     \* "once", "twice"
While(times, body)      == Stmt("while", times, body, <<>>)
Defer(mode, body)       == Stmt("defer", mode, body, <<>>)     \* "always", "error"

\* A call of a function with that body, and what the statement around it does
\* with the result: "show" it, "return" it, "try", "catch", "catch return"; or
\* a call with arguments the function does not bind ("misbound").
Call(how, body) == Stmt("call", how, body, <<>>)

\* Only a body that declares something at its own level gets a scope.
NeedsScope(body) == \E i \in DOMAIN body : body[i].op = "defer"

Times(s) == IF s.arg = "once" THEN 1 ELSE 2
Branch(s) == IF s.arg = "then" THEN s.body ELSE s.other

\* How a block, a statement or a call ends: normally ("next") with a value, by
\* "return" with one, by "break" or "continue", or by raising an exception.
Signal == {"next", "return", "break", "continue", "raise"}
Ends(kind, val) == [kind |-> kind, val |-> val, exc |-> 0]
Raises(exc)     == [kind |-> "raise", val |-> "nil", exc |-> exc]
Normal(val)     == Ends("next", val)

IsErrorExit(sig) == sig.kind = "raise" \/ (sig.kind = "return" /\ sig.val = "err")

\* Does a defer run when its scope is left so?
RunsOn(defer, sig) == defer.arg = "always" \/ IsErrorExit(sig)
=============================================================================

------------------------------ MODULE MCDriver ------------------------------
(***************************************************************************)
(* Programs for TLC: two levels of statements around a body that ends in   *)
(* every way, with and without a defer of its own, under a function that   *)
(* has one of each kind.                                                   *)
(***************************************************************************)
EXTENDS Native

Leaf == {Mark("m"), Return("ok"), Return("err"), Break, Continue, Crash}

\* A function that crashes and whose own defer returns instead.
Swallows == <<Defer("always", <<Return("ok")>>), Crash>>
DeferBody ==
  {<<Mark("d")>>, <<Return("ok")>>, <<Crash>>, <<Call("show", Swallows)>>,
   <<Defer("always", <<Mark("x")>>)>>}
Defers == {Defer(mode, body) : mode \in {"always", "error"}, body \in DeferBody}

Body == {<<s>> : s \in Leaf} \cup {<<d, s>> : d \in Defers, s \in Leaf}

Hows == {"show", "return", "try", "catch", "catch return", "misbound"}
Forms  == {"then", "else", "do", "for", "break", "while"} \cup Hows

Form(form, b) ==
  CASE form = "then"  -> If("then", b, <<>>)
    [] form = "else"  -> If("else", <<>>, b)
    [] form = "do"    -> Do(b)
    [] form = "for"   -> For("twice", b, <<Mark("e"), Call("show", <<Return("ok")>>)>>)
    [] form = "break" -> For("once", b, <<Break>>)
    [] form = "while" -> While("twice", b)
    [] OTHER          -> Call(form, b)

Around(bodies) == {Form(form, b) : form \in Forms, b \in bodies}

Traced(bodies) == {<<Defer("always", <<Mark("D")>>), Defer("error", <<Mark("E")>>), s,
                     Mark("z")>> : s \in bodies}

OneLevel  == Traced(Around(Body))
TwoLevels == Traced(Around({<<s>> : s \in Around(Body)} \cup OneLevel))
=============================================================================

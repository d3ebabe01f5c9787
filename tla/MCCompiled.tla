------------------------------ MODULE MCCompiled ------------------------------
(***************************************************************************)
(* Small programs, run by the VM on what the compiler makes of them and    *)
(* held to what the walker makes of them.                                  *)
(***************************************************************************)
EXTENDS Compiled

One == Num(1)
A == Name("a")
G == Call(Name("g"), <<>>)
F == Call(Name("f"), <<>>)
Pairs == List(<<Num(7), Num(8)>>)
AddTo(x, v) == Assign(<<x>>, <<Add(Name(x), v)>>)

\* What `a` is given: the forms whose value may jump, return or open a block.
Exprs == <<Add(A, Num(2)), Catch(Fail, Num(4)), Catch(One, Num(4)), Catch(Fail, A), CatchReturn(Fail, One),
           And(Num(0), A), Or(Not(A), Num(5)), Try(Fail), Try(Index(Pairs, One)), Index(Pairs, Num(2)),
           Do(<<Var(<<"b">>, <<Add(One, One)>>), Expr(Add(Name("b"), Name("b")))>>),
           If(<<A>>, <<<<Expr(Num(6))>>>>),
           Add(A, If(<<A>>, <<<<Assign(<<"a">>, <<Num(5)>>), Expr(Num(3))>>, <<Expr(Fail)>>>>)),
           Call(Lambda(<<"p">>, <<AddTo("p", Name("p")), Return(<<Name("p")>>)>>), <<Num(4)>>), G>>

Functions == <<Fn("f", <<>>, <<Return(<<A>>)>>),
               Fn("f", <<>>, <<AddTo("a", Num(10)), Return(<<A>>)>>),
               Fn("f", <<>>, <<Var(<<"a">>, <<Num(9)>>), AddTo("a", One), Return(<<A>>)>>),
               Fn("f", <<>>, <<Defer("error", <<AddTo("a", Num(20))>>), Return(<<Catch(Fail, A)>>)>>),
               Fn("f", <<>>, <<Defer("error", <<AddTo("a", Num(30))>>), Expr(Try(Fail)), Return(<<A>>)>>),
               Fn("f", <<"p">>, <<Return(<<A>>)>>),
               Fn("f", <<>>, <<If(<<Not(A)>>, <<<<Return(<<Num(2)>>)>>>>), AddTo("a", Num(-1)), Return(<<G>>)>>)>>

Loops == <<While(A, <<Assign(<<"a">>, <<Num(0)>>), Show(A)>>),
           While(One, <<AddTo("a", One), If(<<A>>, <<<<Break>>>>), Break>>),
           For("i", Pairs, <<<<If(<<A>>, <<<<Assign(<<"a">>, <<Num(0)>>), Continue>>>>), AddTo("a", Name("i"))>>,
                             <<Show(Name("i"))>>>>),
           For("i", Pairs, <<<<Fn("f", <<>>, <<Return(<<Add(A, Name("i"))>>)>>), AddTo("a", F)>>>>),
           For("i", Pairs, <<<<Fn("f", <<>>, <<AddTo("i", One), Return(<<Name("i")>>)>>), Show(F)>>>>),
           For("i", Pairs, <<<<Var(<<"b">>, <<Name("i")>>), If(<<Name("b")>>, <<<<Break>>>>)>>, <<Show(A)>>>>),
           For("i", A, <<<<Show(One)>>>>),
           For("a", List(<<>>), <<<<Show(A)>>, <<Show(One)>>>>)>>

Others == <<If(<<A, One>>, <<<<Var(<<"a">>, <<Num(3)>>), Show(A)>>, <<AddTo("a", One)>>, <<Show(Fail)>>>>),
            If(<<Num(0), One>>, <<<<Show(A)>>, <<AddTo("a", One)>>, <<Show(Fail)>>>>),
            If(<<One>>, <<<<Var(<<"a">>, <<A>>), Show(A)>>>>),
            Expr(Do(<<Var(<<"b">>, <<Lambda(<<>>, <<AddTo("a", One), Return(<<A>>)>>)>>),
                      Show(Call(Name("b"), <<>>))>>)),
            Defer("always", <<Show(A)>>), Defer("error", <<AddTo("a", One), Show(A)>>),
            Defer("always", <<Expr(Add(A, Fail))>>), Defer("always", <<Return(<<Num(5)>>)>>),
            Unset("u"), SetIf("a", Num(8)),
            Var(<<"c", "d">>, <<A, Num(2)>>), Return(<<A>>), Return(<<Fail>>), Expr(Add(A, NilLit))>>

Given == [i \in DOMAIN Exprs |-> <<Assign(<<"a">>, <<Exprs[i]>>)>>]
Steps == Given \o [i \in DOMAIN Functions |-> <<Functions[i], Show(F)>>]
           \o [i \in DOMAIN Loops |-> <<Loops[i]>>] \o [i \in DOMAIN Others |-> <<Others[i]>>]
           \o << <<Unset("u"), SetIf("u", A), Show(Name("u"))>>,
                 <<Var(<<"c", "d">>, <<A, Num(2)>>), Assign(<<"c", "d">>, <<Name("d"), Name("c")>>),
                   Show(List(<<Name("c"), Name("d")>>))>> >>
Ends == {Show(G), AddTo("a", One), Return(<<A>>), Return(<<Fail>>), Expr(Add(A, NilLit)),
         For("i", Pairs, <<<<Fn("f", <<>>, <<AddTo("i", One), Return(<<Name("i")>>)>>), Show(F)>>>>),
         Defer("always", <<Show(A)>>), Defer("error", <<AddTo("a", One), Show(A)>>),
         Assign(<<"a">>, <<Add(A, G)>>)}

\* A step and an end: as they stand, in an `if`, a `for` or a nested function.
Wrap(w, body) == CASE w = 0 -> body
                   [] w = 1 -> <<If(<<A>>, <<body>>)>>
                   [] w = 2 -> <<For("j", Pairs, <<body>>)>>
                   [] w = 3 -> <<Fn("h", <<>>, body), Show(Call(Name("h"), <<>>))>>
\* `getter`: a function that captures `a`, which then lives in a box wherever
\* something assigns it.
Getter == Fn("g", <<>>, <<Return(<<A>>)>>)
Whole(body, getter) == <<Var(<<"a">>, <<One>>)>> \o (IF getter THEN <<Getter>> ELSE <<>>)
                         \o body \o <<Show(A)>>
CONSTANT Wraps
MCPrograms ==
  {p \in {Whole(Wrap(w, Append(Steps[i], s)), getter) :
            w \in Wraps, i \in DOMAIN Steps, s \in Ends, getter \in BOOLEAN} :
     G \in NodesOf(p) => Getter \in ToSet(p)}
=============================================================================

----------------------------- MODULE MCImports -----------------------------
(***************************************************************************)
(* Instances of Imports for TLC: a package p with a module q in it (pq),   *)
(* and a module q; every import graph over them but for modules that       *)
(* import themselves, and choices of files.                                *)
(***************************************************************************)
EXTENDS Imports, TLC
CONSTANTS p, pq, q, init

Modules == {p, pq, q}
InPackage == p :> NoMod @@ pq :> p @@ q :> NoMod
OthersOf == p :> {pq, q} @@ pq :> {p, q} @@ q :> {p, pq}
OnTheWay == p :> {} @@ pq :> {p} @@ q :> {}

\* The image of p::q is called q, and its source may be beside it; that of the
\* package p, from __init__.wy, is called __init__.
Names == {p, pq, q, init}
Source == [source |-> TRUE, image |-> NoMod]
Image(name) == [source |-> FALSE, image |-> name]
Both(name) == [source |-> TRUE, image |-> name]
Nothing == [source |-> FALSE, image |-> NoMod]
SomeFiles == p :> {Source, Image(init)} @@ pq :> {Source, Image(q), Both(q), Nothing}
               @@ q :> {Source, Both(q)}
=============================================================================

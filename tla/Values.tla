------------------------------- MODULE Values -------------------------------
(***************************************************************************)
(* The values both engines compute with, and the operations the VM borrows *)
(* from the walker (BINOPS, index_value, set_index, is_error).  One record *)
(* shape: `t` the type, `n` a number or a reference, `items` a list's      *)
(* contents or a closure's captures.                                       *)
(***************************************************************************)
EXTENDS Integers, Sequences

Val(t, n, items) == [t |-> t, n |-> n, items |-> items]
IntVal(n)      == Val("int", n, <<>>)
BoolVal(b)    == Val("bool", IF b THEN 1 ELSE 0, <<>>)
Nil           == Val("nil", 0, <<>>)
UnsetVal      == Val("unset", 0, <<>>)
Err           == Val("err", 0, <<>>)          \* error("...")
BadIndex      == Val("err", 1, <<>>)          \* the error a failed index answers
ListOf(items) == Val("list", 0, items)
Exc           == Val("exc", 0, <<>>)          \* the operation raised
Blank         == Val("blank", 0, <<>>)        \* Python's None in a fresh L slot
Println       == Val("println", 0, <<>>)
ErrorClass    == Val("error", 0, <<>>)
GlobalSlots   == <<"println", "error">>      \* the free global slots, their names

IsError(v) == v.t \in {"err", "unset"}
\* Python's truth: nil is an object like any other, None and 0 are not.
Truthy(v) == ~ \/ v.t \in {"int", "bool"} /\ v.n = 0
               \/ v.t = "list" /\ v.items = <<>>
               \/ v.t = "blank"

Numeric(v) == v.t \in {"int", "bool"}
Plus(l, r) == IF Numeric(l) /\ Numeric(r) THEN IntVal(l.n + r.n)
              ELSE IF l.t = "list" /\ r.t = "list" THEN ListOf(l.items \o r.items)
              ELSE Exc

\* A failed lookup is an error value, never an exception.
IndexValue(v, i) ==
  IF v.t = "list" /\ Numeric(i) /\ i.n + 1 \in DOMAIN v.items THEN v.items[i.n + 1] ELSE BadIndex

\* What println makes visible of a value.
Shown(v) == IF v.t = "fn" THEN Val("fn", 0, <<>>) ELSE v
=============================================================================

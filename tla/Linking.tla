------------------------------ MODULE Linking ------------------------------
(***************************************************************************)
(* How a module's names get their values from the modules it imports, in   *)
(* both engines: the tree walker binds names statement by statement        *)
(* (eval_import); the compiler moves the imports to the front and the VM   *)
(* fills global slots (link.py, LoadedModule.fill).  Variables and         *)
(* messages are separate namespaces.  The modules imported are loaded:     *)
(* Imports.tla has how.                                                    *)
(***************************************************************************)
EXTENDS Naturals, Sequences

CONSTANTS Modules,    \* name -> [vars, messages]: names to values, to methods
          Builtins,   \* name -> value, in every scope
          Programs    \* sequences of the statements below

Star(mod, excepts)   == [op |-> "star", mod |-> mod, name |-> "", as |-> "", excepts |-> excepts]
Item(mod, name, as)  == [op |-> "item", mod |-> mod, name |-> name, as |-> as, excepts |-> {}]
Leaf(mod, name)      == [op |-> "leaf", mod |-> mod, name |-> name, as |-> name, excepts |-> {}]
Whole(mod, as)       == [op |-> "whole", mod |-> mod, name |-> "", as |-> as, excepts |-> {}]
Static(mod)          == [Whole(mod, mod) EXCEPT !.op = "static"]
Declare(name)        == [op |-> "var", mod |-> "", name |-> name, as |-> name, excepts |-> {}]
Define(message)      == [op |-> "fn", mod |-> "", name |-> message, as |-> message, excepts |-> {}]

VARIABLES program,
          phase,      \* the walker runs it, then the VM
          todo,       \* <<pass, position>> of the statements still to run
          scope,      \* walker: name -> [value, source]; no source in layer 1
          messages,   \* engine -> name -> method, or Ambiguous
          answers,    \* engine -> method -> the module whose overload answers
          globals,    \* VM: slot, called by its path -> value
          layer       \* VM: slot -> [layer, source] of what filled it
vars == <<program, phase, todo, scope, messages, answers, globals, layer>>

Engines == {"walker", "vm"}
Owned(value)       == [is |-> "value", of |-> value]
Module(mod)        == [is |-> "module", of |-> mod]
Method(mod, name)  == [is |-> "method", of |-> name, owner |-> mod]
Unset              == [is |-> "unset", of |-> ""]
Ambiguous          == [is |-> "ambiguous", of |-> "", owner |-> ""]
Error              == [is |-> "error", of |-> ""]
Main == "main"
Own(name) == Method(Main, name)
Declaration(name) == [is |-> "own", of |-> name]

MessagesOf(mod) == DOMAIN Modules[mod].messages
MessageIn(mod, name) == Modules[mod].messages[name]
\* A module's scope holds the builtins as well as its own names.
MembersOf(mod) == DOMAIN Modules[mod].vars \cup DOMAIN Builtins
Member(mod, name) ==
    Owned(IF name \in DOMAIN Modules[mod].vars THEN Modules[mod].vars[name] ELSE Builtins[name])
\* What `import mod::*` offers: what the module's own code bound.
WildcardExports(mod) == DOMAIN Modules[mod].vars
Methods == UNION {{MessageIn(m, h) : h \in MessagesOf(m)} : m \in DOMAIN Modules}

IsImport(s) == s.op \in {"star", "item", "leaf", "whole", "static"}
WellFormed(s) ==
  \/ /\ IsImport(s) /\ s.mod \in DOMAIN Modules
     /\ s.op \in {"item", "leaf"} => s.name \in MembersOf(s.mod) \cup MessagesOf(s.mod)
  \/ s = Declare(s.name)
  \/ s = Define(s.name)

\* A program imports what is there, and nobody imports the program.
ASSUME LinkingAssumption ==
  /\ DOMAIN Modules \cap {"", Main} = {}
  /\ \A m \in DOMAIN Modules : \A h \in MessagesOf(m) :
       LET method == MessageIn(m, h) IN method = Method(method.owner, method.of) /\ method.owner # Main
  /\ \A p \in Programs : DOMAIN p \subseteq Nat /\ \A i \in DOMAIN p : WellFormed(p[i])

\* A table with one more, or another, entry.
With(table, key, value) == [k \in DOMAIN table \cup {key} |-> IF k = key THEN value ELSE table[k]]

\* The statements of a program run from the first to the last, in each pass.
Before(p, q) == p[1] < q[1] \/ (p[1] = q[1] /\ p[2] < q[2])
Due(p) == p \in todo /\ \A q \in todo : ~Before(q, p)

-----------------------------------------------------------------------------
(***************************************************************************)
(* Messages, which both engines keep in the runtime's own table.           *)
(***************************************************************************)
\* Wrong: the last import wins; an error value in place of the marker.
BadMergeMessage(table, name, method) == method

\* What `name` is in the table after `method` is imported as `name`: a
\* definition of this module's own stays, the same method twice is one, and
\* two methods are ambiguous.
MergeMessage(table, name, method) ==
    IF name \notin DOMAIN table THEN method
    ELSE IF table[name] \in {method, Ambiguous} \/ table[name].owner = Main THEN table[name]
    ELSE Ambiguous

AdoptMessages(table, offered) ==
    [h \in DOMAIN table \cup DOMAIN offered |->
       IF h \in DOMAIN offered THEN MergeMessage(table, h, offered[h]) ELSE table[h]]
MessagesFrom(mod, excepts) == [h \in MessagesOf(mod) \ excepts |-> MessageIn(mod, h)]

\* A definition: a method the table has gets one more overload, here of the
\* classes it has one for, which it replaces; otherwise a new method is made.
RegisterOverload(engine, name) ==
    LET table == messages[engine]
        method == IF name \in DOMAIN table /\ table[name] # Ambiguous THEN table[name] ELSE Own(name)
    IN  /\ messages' = [messages EXCEPT ![engine] = With(@, name, method)]
        /\ answers' = [answers EXCEPT ![engine] = With(@, method, Main)]

\* `C()!name()` when the program has run.
Sends(engine, name) ==
    IF name \notin DOMAIN messages[engine] \/ messages[engine][name] = Ambiguous THEN Error
    ELSE Module(answers[engine][messages[engine][name]])

-----------------------------------------------------------------------------
(***************************************************************************)
(* The walker.                                                             *)
(***************************************************************************)
BindNew(ctx, name, value) == With(ctx, name, [value |-> value, source |-> ""])

\* Wrong: the last wildcard wins.
BadMergeWildcardName(ctx, name, value, source) ==
    IF name \notin DOMAIN ctx \/ ctx[name].source # "" THEN [value |-> value, source |-> source] ELSE ctx[name]

\* What `name` is bound to after a wildcard import offers it: nothing changes a
\* name of layer 1, and two sources of one value are one.  The builtins are
\* names of this scope too.
MergeWildcardName(ctx, name, value, source) ==
    IF name \notin DOMAIN ctx THEN [value |-> value, source |-> source]
    ELSE IF ctx[name].source = "" \/ ctx[name].value \in {value, Ambiguous} THEN ctx[name]
    ELSE [value |-> Ambiguous, source |-> source]
MergeWildcard(ctx, mod, excepts) ==
    [n \in DOMAIN ctx \cup (WildcardExports(mod) \ excepts) |->
       IF n \in WildcardExports(mod) \ excepts THEN MergeWildcardName(ctx, n, Member(mod, n), mod) ELSE ctx[n]]

\* What an import binds, and what it does to the messages.
ImportOne(s, ctx) ==
    IF s.name \in MembersOf(s.mod) THEN BindNew(ctx, s.as, Member(s.mod, s.name)) ELSE ctx
ImportMessage(s, table) ==
    IF s.name \in MembersOf(s.mod) THEN table ELSE AdoptMessages(table, [h \in {s.as} |-> MessageIn(s.mod, s.name)])
EvalImport(s) ==
    /\ scope' = CASE s.op = "star" -> MergeWildcard(scope, s.mod, s.excepts)
                  [] s.op = "item" -> ImportOne(s, scope)
                  [] s.op = "leaf" -> BindNew(ImportOne(s, scope), s.mod, Module(s.mod))
                  [] OTHER -> BindNew(scope, s.as, Module(s.mod))
    /\ messages' = [messages EXCEPT !["walker"] =
                      CASE s.op \in {"star", "static"} -> AdoptMessages(@, MessagesFrom(s.mod, s.excepts))
                        [] s.op \in {"item", "leaf"} -> ImportMessage(s, @)
                        [] OTHER -> @]
    /\ UNCHANGED <<answers, phase>>

\* A name of this scope is declared once.
EvalVar(s) ==
    /\ IF s.name \in DOMAIN scope
       THEN phase' = "failed" /\ UNCHANGED scope
       ELSE scope' = BindNew(scope, s.name, Declaration(s.name)) /\ UNCHANGED phase
    /\ UNCHANGED <<messages, answers>>
Walk ==
    /\ phase = "walk"
    /\ \E p \in todo :
         /\ Due(p)
         /\ LET s == program[p[2]]
            IN  \/ IsImport(s) /\ EvalImport(s)
                \/ s.op = "var" /\ EvalVar(s)
                \/ s.op = "fn" /\ RegisterOverload("walker", s.name) /\ UNCHANGED <<scope, phase>>
         /\ todo' = todo \ {p}
    /\ UNCHANGED <<program, globals, layer>>

Lookup(name) ==
    IF name \notin DOMAIN scope \/ scope[name].value = Ambiguous THEN Error ELSE scope[name].value

-----------------------------------------------------------------------------
(***************************************************************************)
(* The compiler and the VM.                                                *)
(***************************************************************************)
Statement == {program[i] : i \in DOMAIN program}
\* Every name the top level introduces is a global slot of the module.
Declared ==
    {s.mod : s \in {s \in Statement : IsImport(s)}}
    \cup {s.as : s \in {s \in Statement : s.op \notin {"star", "fn"}}}

\* The imports first, then the names imported out of modules, then the rest.
Compiled ==
    {<<1, i>> : i \in {i \in DOMAIN program : IsImport(program[i])}}
    \cup {<<2, i>> : i \in {i \in DOMAIN program : program[i].op = "item"}}
    \cup {<<3, i>> : i \in {i \in DOMAIN program : ~IsImport(program[i])}}

\* What a module reads and does not define is a slot too: here it reads every
\* name, bare and out of each module.
Names == UNION {MembersOf(m) : m \in DOMAIN Modules}
Bare(name) == <<name>>
Path(mod, name) == <<mod, name>>
FreeNames == Names \ Declared
Free == {Bare(n) : n \in FreeNames} \cup {Path(m, n) : m \in DOMAIN Modules, n \in Names}

\* Wrong: a layer takes over from itself.
BadTakes(st, slot, lay) == slot \notin DOMAIN st.layer \/ lay <= st.layer[slot].layer
\* The stronger layer wins,
Takes(st, slot, lay) == slot \notin DOMAIN st.layer \/ lay < st.layer[slot].layer
\* and two values of one layer are ambiguous.
Clashes(st, slot, value, lay, source) ==
    /\ ~Takes(st, slot, lay)
    /\ lay = st.layer[slot].layer /\ source # st.layer[slot].source
    /\ st.globals[slot] \notin {value, Ambiguous}

\* `offered`, values for free slots, on behalf of a layer.
Fill(st, offered, lay, source) ==
    LET taken == {slot \in DOMAIN offered : Takes(st, slot, lay)}
    IN  [globals |-> [slot \in DOMAIN st.globals \cup taken |->
                        IF slot \in taken THEN offered[slot]
                        ELSE IF slot \in DOMAIN offered /\ Clashes(st, slot, offered[slot], lay, source)
                        THEN Ambiguous ELSE st.globals[slot]],
         layer |-> [slot \in DOMAIN st.layer \cup taken |->
                      IF slot \in taken THEN [layer |-> lay, source |-> source] ELSE st.layer[slot]]]

FillFromBuiltins(st) ==
    Fill(st, [slot \in {Bare(n) : n \in FreeNames \cap DOMAIN Builtins} |-> Owned(Builtins[slot[1]])],
         3, "builtins")
\* An import fills the slots of the paths through it.
FillFromImport(st, mod) ==
    Fill(st, [slot \in {Path(mod, n) : n \in MembersOf(mod)} |-> Member(mod, slot[2])], 1, mod)
FillFromWildcard(st, mod, excepts) ==
    LET open == (FreeNames \cap WildcardExports(mod)) \ excepts
    IN  Fill(st, [slot \in {Bare(n) : n \in open} |-> Member(mod, slot[1])], 2, mod)

Install(st) == globals' = st.globals /\ layer' = st.layer
Set(st, name, value) == [st EXCEPT !.globals = With(@, Bare(name), value)]

\* Loading: the slots, and the builtins in those nothing has filled.
LoadModule ==
    /\ phase = "failed" \/ (phase = "walk" /\ todo = {})
    /\ phase' = IF phase = "failed" THEN "vm only" ELSE "vm"
    /\ todo' = Compiled
    /\ LET slots == Free \cup {Bare(n) : n \in Declared}
       IN  Install(FillFromBuiltins([globals |-> [slot \in slots |-> Unset], layer |-> <<>>]))
    /\ UNCHANGED <<program, scope, messages, answers>>

\* What `import mod::name` reaches: a member that is no variable is a message.
ImportPath(mod, name) == IF name \in MembersOf(mod) THEN Member(mod, name) ELSE MessageIn(mod, name)
\* `import` of each prefix of the path, and `gset` of its root and its leaf.
OpImport(s) ==
    LET st   == FillFromImport([globals |-> globals, layer |-> layer], s.mod)
        leaf == ImportPath(s.mod, s.name)
        path == Path(s.mod, s.name)
    IN  /\ Install(IF s.op # "leaf" THEN Set(st, s.as, Module(s.mod))
                   ELSE Set(Set(Fill(st, [slot \in {path} |-> leaf], 1, path), s.mod, Module(s.mod)), s.as, leaf))
        /\ UNCHANGED <<messages, answers, phase>>
\* `import_star` adds the names to the free slots, and adopts all messages.
OpImportStar(s) ==
    LET st == FillFromImport([globals |-> globals, layer |-> layer], s.mod)
    IN  /\ Install(FillFromWildcard(Set(st, s.mod, Module(s.mod)), s.mod, s.excepts))
        /\ messages' = [messages EXCEPT !["vm"] = AdoptMessages(@, MessagesFrom(s.mod, {}))]
        /\ UNCHANGED <<answers, phase>>
\* A name out of a module is read from the slot of its path: that of a message
\* is filled by no import of the module, and the read ends the program.
BindImportedName(s) ==
    LET slot == Path(s.mod, s.name)
    IN  /\ IF slot \notin DOMAIN layer
           THEN phase' = "stopped" /\ UNCHANGED <<globals, layer>>
           ELSE globals' = With(globals, Bare(s.as), globals[slot]) /\ UNCHANGED <<phase, layer>>
        /\ UNCHANGED <<messages, answers>>

Execute ==
    /\ phase \in {"vm", "vm only"}
    /\ \E p \in todo :
         /\ Due(p)
         /\ LET s == program[p[2]]
            IN  \/ p[1] = 1 /\ s.op # "star" /\ OpImport(IF s.op = "item" THEN Whole(s.mod, s.mod) ELSE s)
                \/ p[1] = 1 /\ s.op = "star" /\ OpImportStar(s)
                \/ p[1] = 2 /\ BindImportedName(s)
                \/ /\ p[1] = 3 /\ s.op = "var" /\ globals' = With(globals, Bare(s.name), Declaration(s.name))
                   /\ UNCHANGED <<layer, messages, answers, phase>>
                \/ p[1] = 3 /\ s.op = "fn" /\ RegisterOverload("vm", s.name) /\ UNCHANGED <<globals, layer, phase>>
         /\ todo' = todo \ {p}
    /\ UNCHANGED <<program, scope>>

GlobalGet(name) ==
    LET slot == Bare(name)
    IN  IF slot \notin DOMAIN globals \/ globals[slot] \in {Unset, Ambiguous} THEN Error ELSE globals[slot]

Init == /\ program \in Programs /\ phase = "walk" /\ todo = {<<0, i>> : i \in DOMAIN program}
        /\ scope = [n \in DOMAIN Builtins |-> [value |-> Owned(Builtins[n]), source |-> ""]]
        /\ messages = [e \in Engines |-> <<>>]
        /\ answers = [e \in Engines |-> [m \in Methods |-> m.owner]]
        /\ globals = <<>> /\ layer = <<>>

WalkerDone == phase = "vm" \/ (phase = "walk" /\ todo = {})
VmDone == phase \in {"vm", "vm only"} /\ todo = {}
Done == (VmDone \/ phase = "stopped") /\ UNCHANGED vars
Next == Walk \/ LoadModule \/ Execute \/ Done
Spec == Init /\ [][Next]_vars

-----------------------------------------------------------------------------
(***************************************************************************)
(* Properties.  addendum.md: a name is looked for among the module's own   *)
(* definitions and named imports, then among the wildcard imports, then    *)
(* among the builtins; two wildcards that disagree are an error to read.   *)
(***************************************************************************)
\* What each layer has for a name after the statements `ran`, whatever their
\* order.  A message an import names is a value in the VM only.
Explicit(engine, ran, name) ==
    {Declaration(name) : s \in {s \in ran : s.op = "var" /\ s.name = name}}
    \cup {ImportPath(s.mod, s.name) :
            s \in {s \in ran : /\ s.op \in {"item", "leaf"} /\ s.as = name
                               /\ engine = "vm" \/ s.name \in MembersOf(s.mod)}}
    \cup {Module(s.mod) : s \in {s \in ran : s.op \in {"whole", "static"} /\ s.as = name}}
Wildcard(ran, name) ==
    {Member(s.mod, name) : s \in {s \in ran : s.op = "star" /\ name \in WildcardExports(s.mod) \ s.excepts}}
Layered(engine, name, value) ==
    LET explicit == Explicit(engine, Statement, name)
        wildcard == Wildcard(Statement, name)
    IN  IF explicit # {} THEN value \in explicit
        ELSE IF wildcard # {} THEN \/ wildcard = {value}
                                   \/ value = Error /\ \E v, w \in wildcard : v # w
        ELSE value = IF name \in DOMAIN Builtins THEN Owned(Builtins[name]) ELSE Error

Shape ==
    /\ phase \in {"walk", "failed", "vm", "vm only", "stopped"}
    /\ \A n \in DOMAIN scope : scope[n].source \in DOMAIN Modules \cup {""}
    /\ \A slot \in DOMAIN layer : slot \in DOMAIN globals /\ layer[slot].layer \in 1..3

\* In the VM every name holds what the layers say, in whatever order the
\* imports, the definitions and the fills came (LoadedModule.fill).
\* In the walker too, but for the builtins, which are names of the module's own
\* scope there, like its definitions: they hide what a wildcard import brings.
\* Left out are the names of the modules themselves: every import reserves a
\* slot for the first of its path, and only some bind it.
NamesLayered ==
    /\ Shape
    /\ VmDone => \A n \in Names \ DOMAIN Modules : Layered("vm", n, GlobalGet(n))
    /\ WalkerDone => \A n \in Names \ (DOMAIN Modules \cup DOMAIN Builtins) : Layered("walker", n, Lookup(n))

\* The methods that imports bring under a name.  The VM takes every message
\* of a wildcard import and none from the others; the walker heeds `except`.
Brought(engine, ran, name) ==
    IF engine = "vm"
    THEN {MessageIn(s.mod, name) : s \in {s \in ran : s.op = "star" /\ name \in MessagesOf(s.mod)}}
    ELSE {MessageIn(s.mod, name) :
            s \in {s \in ran : s.op \in {"star", "static"} /\ name \in MessagesOf(s.mod) \ s.excepts}}
         \cup {MessageIn(s.mod, s.name) :
                 s \in {s \in ran : /\ s.op \in {"item", "leaf"} /\ s.as = name
                                    /\ s.name \notin MembersOf(s.mod)}}
FirstDefined(name) ==
    \E i \in DOMAIN program : /\ program[i] = Define(name)
                             /\ \A j \in DOMAIN program : j < i => ~IsImport(program[j])
\* What answers a message that imports alone bring: its one method, of the
\* module it is from, unless this module defines another name of that method.
AnsweredByImport(engine, name, answer) ==
    LET brought == Brought(engine, Statement, name)
    IN  \/ answer = Error /\ (brought = {} \/ \E m, o \in brought : m # o)
        \/ \E m \in brought :
             /\ brought = {m}
             /\ \/ answer = Module(m.owner)
                \/ /\ answer = Module(Main)
                   /\ \E s \in Statement : s.op = "fn" /\ m \in Brought(engine, Statement, s.name)
\* A message two modules define is an error to send, and never the one that
\* was imported first or last; a definition of the module's own answers: in
\* the walker if it comes before the imports, in the VM always.
MessagesLayered ==
    \A e \in Engines, h \in UNION {MessagesOf(m) : m \in DOMAIN Modules} :
       (IF e = "vm" THEN VmDone ELSE WalkerDone) =>
          /\ Define(h) \notin Statement => AnsweredByImport(e, h, Sends(e, h))
          /\ (IF e = "vm" THEN Define(h) \in Statement ELSE FirstDefined(h)) => Sends(e, h) = Module(Main)

\* A name once filled is only ever taken over by a stronger layer, and an
\* ambiguous one stays so until it is.
OnlyStronger ==
    [][phase # "walk" /\ phase # "failed" =>
         \A slot \in DOMAIN layer :
            \/ layer'[slot].layer < layer[slot].layer
            \/ /\ layer'[slot] = layer[slot]
               /\ globals'[slot] \in {globals[slot], Ambiguous}]_vars
============================================================================

------------------------------ MODULE Imports ------------------------------
(***************************************************************************)
(* Importing modules at run time: import_module and eval_import of the     *)
(* evaluator and import_path of the bytecode VM, over the module cache and *)
(* the import stack they share.  A module's body imports the modules it    *)
(* depends on; it may fail, and so may any import in it, and a coroutine   *)
(* or the main program (a script, or a REPL that goes on) may survive that.*)
(* Source is cached and stacked under the path it was imported by, but an  *)
(* image under its own name, the stem of the file it was compiled from:    *)
(* the image of p::q is called q, as is the module q.                      *)
(*                                                                         *)
(* `calls` is the stack of pending imports.  Each is at                    *)
(*    "find"   import_module or import_path has been called,               *)
(*    "load"   the parent package is there; file and cache entry come next,*)
(*    "run"    the body runs.                                              *)
(***************************************************************************)
EXTENDS Naturals, Sequences, SequencesExt, FiniteSets

CONSTANTS
  Mod,         \* module paths
  Parent,      \* Parent[m]: the package a path is in, or NoMod
  Packages,    \* Packages[m]: the packages on the way to it
  NoMod,
  Name,        \* what an image may be called: a path or another name
  Wants,       \* Wants[m]: the paths its body may import
  Finds,       \* Finds[m]: what the search may find for m
  MaxCalls     \* Python's recursion limit, in imports under way

\* For a path, whether there is source and the name of the image, or NoMod.
Files == [source : BOOLEAN, image : Name \cup {NoMod}]

\* A file's stem is no path into a package.
ASSUME ImportsAssumption ==
  /\ Mod \subseteq Name /\ NoMod \notin Name
  /\ Parent \in [Mod -> Mod \cup {NoMod}] /\ Packages \in [Mod -> SUBSET Mod]
  /\ \A m \in Mod : Parent[m] # NoMod => Parent[m] \in Packages[m]
  /\ \A m \in Mod : \A n \in Packages[m] : Packages[n] \subseteq Packages[m]
  /\ Wants \in [Mod -> SUBSET Mod] /\ Finds \in [Mod -> SUBSET Files]
  /\ \A m \in Mod : \A f \in Finds[m] : f.image \in Mod => Parent[f.image] = NoMod
  /\ MaxCalls \in Nat

VARIABLES
  deps,        \* the program: the paths each body imports ...
  file,        \* ... and what the search finds for each path
  cache,       \* _module_cache: the module that each key names
  importStack, \* _import_stack: keys
  calls,       \* the import calls under way, innermost last
  raised,      \* the exception being propagated, or "nothing"
  submodules,  \* the modules registered on their parent's .submodules
  status,      \* of each module's last body: "new", "running", "done", "failed"
  got          \* (no code) the modules each body's finished imports gave it

vars == <<deps, file, cache, importStack, calls, raised, submodules, status, got>>
program == <<deps, file>>

\* Who makes a call: an interpreted `import path` or one of the other forms
\* (`path::*`, `path::(x)`), import_module for the package of a path, the second
\* try of a plain statement (path[:-1], with path[-1] as a member of it), an
\* import instruction of compiled code, and the second try of that.
Compiled == {"image", "imageMember"}
By == {"statement", "items", "parent", "member"} \cup Compiled
Call == [mod : Mod, by : By, at : {"find", "load", "run"}, todo : SUBSET Mod]
ImportErrors == {"missing", "cycle"}

NewCall(m, by) == [mod |-> m, by |-> by, at |-> "find", todo |-> {}]
Top == calls[Len(calls)]
Below == calls[Len(calls) - 1]
Running == calls # <<>> /\ raised = "nothing"
AtTop(at) == Running /\ Top.at = at
SetTop(call) == Front(calls) \o <<call>>

\* The evaluator prefers source to an image, the VM an image to source.
LoadsImage(call) == /\ file[call.mod].image # NoMod
                    /\ call.by \in Compiled \/ ~file[call.mod].source
\* The VM loads an image itself; for source it calls import_module.
Direct(call) == call.by \in Compiled /\ LoadsImage(call)

\* The key a module is published and stacked under.
Key(call) == IF LoadsImage(call) THEN file[call.mod].image ELSE call.mod

Init ==
  /\ deps \in [Mod -> SUBSET Mod] /\ \A m \in Mod : deps[m] \subseteq Wants[m]
  /\ file \in [Mod -> Files] /\ \A m \in Mod : file[m] \in Finds[m]
  /\ cache = <<>> /\ importStack = <<>> /\ calls = <<>> /\ raised = "nothing"
  /\ submodules = {}
  /\ status = [m \in Mod |-> "new"]
  /\ got = [m \in Mod |-> {}]

-----------------------------------------------------------------------------

\* The main program imports what it likes, when it likes.
MainImports(m) ==
  /\ calls = <<>>
  /\ \E by \in {"statement", "items"} : calls' = <<NewCall(m, by)>>
  /\ UNCHANGED <<program, cache, importStack, raised, submodules, status, got>>

\* Compiled code imports every package on the way before the path itself.
BodyImports(m) ==
  /\ AtTop("run") /\ m \in Top.todo
  /\ \E by \in {"statement", "items", "image"} :
       /\ by = "image" <=> LoadsImage(Top)
       /\ by = "image" => Packages[m] \cap Top.todo = {}
       /\ calls' = Append(SetTop([Top EXCEPT !.todo = @ \ {m}]), NewCall(m, by))
  /\ UNCHANGED <<program, cache, importStack, raised, submodules, status, got>>

\* What a finished import hands to the body that asked for it, if one did.
Hand(m) == got' = IF Len(calls) > 1 /\ Below.at = "run"
                    THEN [got EXCEPT ![Below.mod] = @ \cup {m}]
                    ELSE got

\* A statement may fail after its import: the module of a second try lacks the
\* name; a plain import of a path in a package binds the root of the path to the
\* root's entry in the cache, unless the root names a module already.
MayLack(call) ==
  \/ call.by \in {"member", "imageMember"}
  \/ /\ call.by = "statement"
     /\ \E root \in Packages[call.mod] : Parent[root] = NoMod /\ root \notin DOMAIN cache

\* check_import_cycle: the path is on the stack, not just in the cache.
Cycle(m) == m \in Range(importStack)

\* A call at the recursion limit.
TooDeep ==
  /\ AtTop("find") /\ Len(calls) >= MaxCalls
  /\ raised' = "other"
  /\ UNCHANGED <<program, cache, importStack, calls, submodules, status, got>>

\* Mutant: a module still running its body is handed back half-built.
BadFindCached ==
  /\ AtTop("find") /\ Len(calls) < MaxCalls /\ Top.mod \in DOMAIN cache
  /\ calls' = Front(calls) /\ raised' = "nothing" /\ Hand(cache[Top.mod])
  /\ UNCHANGED <<program, cache, importStack, submodules, status>>

\* A path in the cache: a cycle if it is on the stack, else the module.
FindCached ==
  /\ AtTop("find") /\ Len(calls) < MaxCalls /\ Top.mod \in DOMAIN cache
  /\ IF Cycle(Top.mod)
       THEN raised' = "cycle" /\ UNCHANGED <<calls, got>>
       ELSE \/ calls' = Front(calls) /\ raised' = "nothing" /\ Hand(cache[Top.mod])
            \/ MayLack(Top) /\ raised' = "other" /\ UNCHANGED <<calls, got>>
  /\ UNCHANGED <<program, cache, importStack, submodules, status>>

\* Parent packages first, but for the image that the VM loads.
FindNew ==
  /\ AtTop("find") /\ Len(calls) < MaxCalls /\ Top.mod \notin DOMAIN cache
  /\ LET parent == Parent[Top.mod]
         found  == SetTop([Top EXCEPT !.at = "load"])
     IN calls' = IF parent = NoMod \/ Direct(Top)
                   THEN found ELSE Append(found, NewCall(parent, "parent"))
  /\ UNCHANGED <<program, cache, importStack, raised, submodules, status, got>>

\* Mutant: a file that is not found is searched for again.
BadLoadMissing ==
  /\ AtTop("load") /\ ~file[Top.mod].source /\ file[Top.mod].image = NoMod
  /\ calls' = SetTop([Top EXCEPT !.at = "find"])
  /\ UNCHANGED <<program, cache, importStack, raised, submodules, status, got>>

LoadMissing ==
  /\ AtTop("load") /\ ~file[Top.mod].source /\ file[Top.mod].image = NoMod
  /\ raised' = "missing"
  /\ UNCHANGED <<program, cache, importStack, calls, submodules, status, got>>

\* What a body imports, with the packages on the way.
Imported(m) == deps[m] \cup UNION {Packages[d] : d \in deps[m]}

\* Mutant: the module is entered in the cache only once its body has run.
BadLoad ==
  /\ AtTop("load") /\ (file[Top.mod].source \/ file[Top.mod].image # NoMod)
  /\ importStack' = Append(importStack, Key(Top))
  /\ status' = [status EXCEPT ![Top.mod] = "running"]
  /\ got' = [got EXCEPT ![Top.mod] = {}]
  /\ calls' = SetTop([Top EXCEPT !.at = "run", !.todo = deps[Top.mod]])
  /\ UNCHANGED <<program, cache, raised, submodules>>

\* Published and put on the stack before its body runs, in a new namespace.
Load ==
  /\ AtTop("load") /\ (file[Top.mod].source \/ file[Top.mod].image # NoMod)
  /\ cache' = [key \in DOMAIN cache \cup {Key(Top)} |->
                 IF key = Key(Top) THEN Top.mod ELSE cache[key]]
  /\ importStack' = Append(importStack, Key(Top))
  /\ status' = [status EXCEPT ![Top.mod] = "running"]
  /\ got' = [got EXCEPT ![Top.mod] = {}]
  /\ calls' = SetTop([Top EXCEPT !.at = "run",
                        !.todo = IF LoadsImage(Top) THEN Imported(Top.mod) ELSE deps[Top.mod]])
  /\ UNCHANGED <<program, raised, submodules>>

\* Mutant: a module registers with its parent only if it was asked for itself.
BadComplete ==
  /\ AtTop("run") /\ Top.todo = {}
  /\ importStack' = Front(importStack)
  /\ status' = [status EXCEPT ![Top.mod] = "done"]
  /\ submodules' = IF Len(calls) = 1 /\ Parent[Top.mod] # NoMod
                     THEN submodules \cup {Top.mod} ELSE submodules
  /\ calls' = Front(calls) /\ raised' = "nothing" /\ Hand(Top.mod)
  /\ UNCHANGED <<program, cache>>

\* The body ends: an interpreted module registers with its parent, an image
\* has returned before that.
Complete ==
  /\ AtTop("run") /\ Top.todo = {}
  /\ importStack' = Front(importStack)
  /\ status' = [status EXCEPT ![Top.mod] = "done"]
  /\ submodules' = IF ~LoadsImage(Top) /\ Parent[Top.mod] # NoMod
                     THEN submodules \cup {Top.mod} ELSE submodules
  /\ \/ calls' = Front(calls) /\ raised' = "nothing" /\ Hand(Top.mod)
     \/ /\ MayLack(Top) /\ raised' = "other"
        /\ calls' = SetTop([Top EXCEPT !.at = "find"]) /\ UNCHANGED got
  /\ UNCHANGED <<program, cache>>

\* The body raises something of its own.
Fail ==
  /\ AtTop("run")
  /\ raised' = "other"
  /\ UNCHANGED <<program, cache, importStack, calls, submodules, status, got>>

\* Mutant: a body that raises stays on the import stack.
BadLeave == /\ status' = IF Top.at = "run" THEN [status EXCEPT ![Top.mod] = "failed"] ELSE status
            /\ UNCHANGED importStack

\* An exception leaves a call: the finally around a body pops the stack.
Leave == IF Top.at = "run"
           THEN /\ importStack' = Front(importStack)
                /\ status' = [status EXCEPT ![Top.mod] = "failed"]
           ELSE UNCHANGED <<importStack, status>>

\* An ImportError of a plain statement's path; of an import instruction's, if it
\* comes out of import_module.
Retriable ==
  /\ raised \in ImportErrors
  /\ \/ Top.by = "statement"
     \/ Top.by \in Compiled /\ Top.at # "find" /\ ~Direct(Top)

\* A path in a package is tried again, as path[:-1] with a member path[-1].
TriesMember == Retriable /\ Parent[Top.mod] # NoMod

Unwind ==
  /\ raised # "nothing" /\ calls # <<>>
  /\ Leave
  /\ IF TriesMember
       THEN /\ calls' = SetTop(NewCall(Parent[Top.mod],
                                 IF Top.by = "statement" THEN "member" ELSE "imageMember"))
            /\ raised' = "nothing"
       ELSE /\ calls' = Front(calls)
            /\ raised' = IF Len(calls) = 1 THEN "nothing"
                         ELSE IF Retriable /\ Top.by \in Compiled THEN "other" \* LinkError
                         ELSE raised
  /\ UNCHANGED <<program, cache, submodules, got>>

\* The import was made by a coroutine that ends with the error as its result;
\* compiled code imports at its top level only.
Survive ==
  /\ raised # "nothing" /\ Len(calls) > 1 /\ Below.at = "run" /\ ~LoadsImage(Below)
  /\ ~TriesMember
  /\ Leave
  /\ calls' = Front(calls) /\ raised' = "nothing"
  /\ UNCHANGED <<program, cache, submodules, got>>

Next == \/ \E m \in Mod : MainImports(m) \/ BodyImports(m)
        \/ TooDeep \/ FindCached \/ FindNew \/ LoadMissing \/ Load \/ Complete \/ Fail
        \/ Unwind \/ Survive

Spec == Init /\ [][Next]_vars

\* An import that is under way goes on: bodies do finitely many things.
FairSpec == Spec /\ WF_vars(calls # <<>> /\ Next)

-----------------------------------------------------------------------------
(* Properties. *)

\* A path that is the key of its module, whoever loads it: source always has its
\* path for key, an image if it is called by it.  In packages that have so too.
ByPath(m) == file[m].image \in {m, NoMod}
Steady(m) == \A n \in Packages[m] \cup {m} : ByPath(n)

\* The calls that run a body, and the position of one on the import stack.
Bodies == {i \in 1 .. Len(calls) : calls[i].at = "run"}
Depth(i) == Cardinality({j \in Bodies : j <= i})

\* Every variable keeps its type.
TypeOK ==
  /\ deps \in [Mod -> SUBSET Mod] /\ \A m \in Mod : file[m] \in Finds[m]
  /\ DOMAIN cache \subseteq Name /\ \A key \in DOMAIN cache : cache[key] \in Mod
  /\ importStack \in Seq(Name) /\ calls \in Seq(Call) /\ submodules \subseteq Mod
  /\ raised \in {"nothing", "other"} \cup ImportErrors
  /\ status \in [Mod -> {"new", "running", "done", "failed"}]
  /\ got \in [Mod -> SUBSET Mod]

\* However bodies fail and whoever survives it, the import stack lists, in the
\* order of the calls, the keys of the bodies that run and no others; a module
\* that has its path for a key runs in one of them at most, so that a cycle
\* through it has been refused and not followed.
StackIsRunning ==
  /\ TypeOK
  /\ Len(importStack) = Cardinality(Bodies)
  /\ \A i \in Bodies : importStack[Depth(i)] = Key(calls[i])
  /\ \A i, j \in Bodies : calls[i].mod = calls[j].mod /\ Steady(calls[i].mod) => i = j

\* vm/imports.py: "A module runs once per process", whatever is imported again
\* after whatever failure, if the path is the key.  (An image in a package is
\* published under a name it is not looked up by, and runs again.)
RunOnce ==
  [][\A m \in Mod : Steady(m) /\ Len(importStack') > Len(importStack) /\ Top.mod = m
                      => status[m] = "new"]_vars

\* A path whose module is published under one key, whatever that is: there are not
\* an image of another name and source of which the VM and the evaluator may each
\* load one.
OneKey(m) == file[m].source => ByPath(m)

\* addendum.md: "A module's body runs after every module it imports has
\* finished its own", whatever the imports of a program.  No module is handed
\* to an importer while its body is still running, be it an image that is not
\* looked up by its key.  (It may be handed out once its body has failed: it
\* stays in the cache.)
NeverHalfRun ==
  [][\A m, n \in Mod : n \in got'[m] \ got[m] /\ OneKey(n) => status'[n] # "running"]_vars

\* A graph has no cycle if its nodes can be ranked.
Ranked(edges(_)) ==
  \E rank \in [Mod -> 1 .. Cardinality(Mod)] :
    \A m \in Mod : \A n \in edges(m) \cap Mod : rank[n] < rank[m]

\* What a body imports, and what must be there first.
Needed(m) == Imported(m) \cup Packages[m]

\* No image has the path of another module for its name.
NoClash == \A m \in Mod : file[m].image \in Mod => file[m].image = m

\* An import graph that has no cycle once the packages of its paths are counted
\* in is never refused for one, whatever failed before, unless an image is
\* called by another module's path.
NoFalseCycle == raised = "cycle" /\ NoClash => ~Ranked(Needed)

\* import_module: parent packages "register the child on their .submodules":
\* an imported module is registered with the package it was loaded with,
\* but not a compiled one.
Registered ==
  \A m \in Mod : status[m] = "done" /\ file[m].image = NoMod /\ Parent[m] # NoMod => m \in submodules

\* Whatever the import graph, an import comes to an end, be it at the recursion
\* limit when images hide a cycle.
ImportEnds == (calls # <<>>) ~> (calls = <<>>)
=============================================================================

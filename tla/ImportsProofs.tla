--------------------------- MODULE ImportsProofs ---------------------------
(***************************************************************************)
(* Proofs about Imports: for any module paths, packages, import graph and  *)
(* files, and any failures, the import stack lists the keys of the bodies  *)
(* that run (StackIsRunning); one that has its path for a key does not run *)
(* twice (RunOnce), one with any one key is not handed out half-run        *)
(* (NeverHalfRun); if no image has another's name, only a cyclic graph is  *)
(* refused for a cycle (NoFalseCycle); and an interpreted module is        *)
(* registered with its package (Registered).                               *)
(***************************************************************************)
EXTENDS Imports, FiniteSetTheorems, SequenceTheorems, TLAPS

-----------------------------------------------------------------------------
(* The inductive invariant. *)

\* The steady paths.
Firm == {m \in Mod : Steady(m)}

\* The paths that have one key, and the key.
Lone == {m \in Mod : OneKey(m)}
LoneKey == [m \in Mod |-> IF file[m].source \/ file[m].image = NoMod THEN m ELSE file[m].image]

\* What a body that imports D imports.
Closure(D) == D \cup UNION {Packages[d] : d \in D}

\* TypeOK, and the files.
Types ==
  /\ deps \in [Mod -> SUBSET Mod]
  /\ file \in [Mod -> Files] /\ \A m \in Mod : file[m] \in Finds[m]
  /\ DOMAIN cache \subseteq Name /\ \A key \in DOMAIN cache : cache[key] \in Mod
  /\ importStack \in Seq(Name) /\ calls \in Seq(Call) /\ submodules \subseteq Mod
  /\ raised \in {"nothing", "other"} \cup ImportErrors
  /\ status \in [Mod -> {"new", "running", "done", "failed"}]
  /\ got \in [Mod -> SUBSET Mod]

\* The calls under way: only the innermost looks for its module; one that has
\* found it waits for its package alone, and a steady one has not been loaded
\* meanwhile.
Shape ==
  /\ \A i \in 1 .. Len(calls) - 1 : calls[i].at # "find"
  /\ \A i \in 1 .. Len(calls) - 1 : calls[i].at = "load" =>
       calls[i + 1].by = "parent" /\ calls[i + 1].mod = Parent[calls[i].mod]
  /\ \A i \in 1 .. Len(calls) - 1 : calls[i + 1].by # "parent" =>
       calls[i + 1].mod \in Closure(deps[calls[i].mod])
  /\ \A i \in 1 .. Len(calls) : calls[i].at = "run" =>
       calls[i].todo \subseteq Closure(deps[calls[i].mod])
  /\ \A i \in 1 .. Len(calls) : calls[i].at = "load" /\ calls[i].mod \in Firm =>
       calls[i].mod \notin DOMAIN cache

\* When the file of a steady module is about to be loaded, its package is there
\* and its body has ended.
Waits(m) == /\ Parent[m] \in DOMAIN cache
            /\ \A k \in 1 .. Len(importStack) : importStack[k] # Parent[m]
Ready == AtTop("load") /\ Top.mod \in Firm /\ Parent[Top.mod] # NoMod => Waits(Top.mod)

\* A steady module's body has been started only if it is in the cache; a module
\* that has one key is in the cache under no other.
Cached == /\ \A m \in Firm : status[m] # "new" => m \in DOMAIN cache
          /\ \A key \in DOMAIN cache : cache[key] \in Lone => key = LoneKey[cache[key]]

\* A sequence lists the values of f over a set of numbers in their order.
Place(S, i) == Cardinality({j \in S : j <= i})
Listed(S, f, s) ==
  /\ Len(s) = Cardinality(S)
  /\ \A i \in S : Place(S, i) \in 1 .. Len(s) /\ s[Place(S, i)] = f[i]
  /\ \A k \in 1 .. Len(s) : \E i \in S : Place(S, i) = k

\* The import stack lists the keys of the bodies, a steady one's not twice.
Keys == [i \in Bodies |-> Key(calls[i])]
Stacked ==
  /\ Listed(Bodies, Keys, importStack)
  /\ \A i \in Bodies : Keys[i] \in DOMAIN cache
  /\ \A i, j \in Bodies : i < j /\ calls[j].mod \in Firm => Keys[i] # Keys[j]
  /\ \A m \in Mod : status[m] = "running" => \E i \in Bodies : calls[i].mod = m

\* In an import graph without a cycle the ranks of the calls under way descend.
Ranks == {rank \in [Mod -> 1 .. Cardinality(Mod)] :
            \A m \in Mod : \A n \in (Closure(deps[m]) \cup Packages[m]) \cap Mod : rank[n] < rank[m]}
Descends ==
  \A rank \in Ranks : \A i, j \in 1 .. Len(calls) :
    i < j => rank[calls[j].mod] < rank[calls[i].mod]

ImportsInv ==
  Types /\ Shape /\ Ready /\ Cached /\ Stacked /\ Descends /\ NoFalseCycle /\ Registered
-----------------------------------------------------------------------------
(* The stack of calls. *)

LEMMA FrontIs == ASSUME NEW S, NEW s \in Seq(S), s # <<>>
                 PROVE  /\ Front(s) \in Seq(S) /\ Len(Front(s)) = Len(s) - 1
                        /\ \A i \in 1 .. Len(s) - 1 : Front(s)[i] = s[i]
                        /\ Len(s) \in Nat \ {0} /\ s[Len(s)] \in S
<1>1. Len(s) \in Nat \ {0} /\ s[Len(s)] \in S OBVIOUS
<1>2. Front(s) = SubSeq(s, 1, Len(s) - 1) BY DEF Front
<1>3. /\ Front(s) \in Seq(S) /\ Len(Front(s)) = Len(s) - 1
      /\ \A i \in 1 .. Len(s) - 1 : Front(s)[i] = s[i]
  <2>1. \A i \in 1 .. Len(s) - 1 : s[i] \in S BY <1>1
  <2> DEFINE m == Len(s) - 1
  <2>2. m \in Int /\ m >= 0 BY <1>1
  <2> HIDE DEF m
  <2>3. \A i \in 1 .. m : s[i] \in S BY <2>1 DEF m
  <2>4. /\ SubSeq(s, 1, m) \in Seq(S) /\ Len(SubSeq(s, 1, m)) = IF 1 <= m THEN m - 1 + 1 ELSE 0
        /\ \A i \in 1 .. m - 1 + 1 : SubSeq(s, 1, m)[i] = s[1 + i - 1]
    BY <2>2, <2>3, SubSeqProperties
  <2>5. Len(SubSeq(s, 1, m)) = m /\ \A i \in 1 .. m : SubSeq(s, 1, m)[i] = s[i] BY <2>2, <2>4
  <2> QED BY <1>2, <2>4, <2>5 DEF m
<1> QED BY <1>1, <1>3

LEMMA SetTopIs == ASSUME calls \in Seq(Call), calls # <<>>, NEW c \in Call
                  PROVE  /\ SetTop(c) \in Seq(Call) /\ Len(SetTop(c)) = Len(calls)
                         /\ SetTop(c)[Len(calls)] = c
                         /\ \A i \in 1 .. Len(calls) - 1 : SetTop(c)[i] = calls[i]
                         /\ Len(calls) \in Nat \ {0} /\ Top \in Call
<1> DEFINE below == Front(calls)
<1>1. /\ below \in Seq(Call) /\ Len(below) = Len(calls) - 1
      /\ \A i \in 1 .. Len(calls) - 1 : below[i] = calls[i]
      /\ Len(calls) \in Nat \ {0} /\ Top \in Call
  BY FrontIs DEF Top
<1>2. SetTop(c) = below \o <<c>> BY DEF SetTop
<1> HIDE DEF below
<1>3. <<c>> \in Seq(Call) /\ Len(<<c>>) = 1 /\ <<c>>[1] = c OBVIOUS
<1>4. /\ below \o <<c>> \in Seq(Call) /\ Len(below \o <<c>>) = Len(below) + 1
      /\ \A i \in 1 .. Len(below) + 1 :
           (below \o <<c>>)[i] = IF i <= Len(below) THEN below[i] ELSE <<c>>[i - Len(below)]
  BY <1>1, <1>3, ConcatProperties
<1>5. /\ Len(below) + 1 = Len(calls) /\ ~(Len(calls) <= Len(below)) /\ Len(calls) - Len(below) = 1
      /\ Len(calls) \in 1 .. Len(below) + 1
      /\ \A i \in 1 .. Len(calls) - 1 : i <= Len(below) /\ i \in 1 .. Len(below) + 1
  BY <1>1
<1>6. (below \o <<c>>)[Len(calls)] = c BY <1>3, <1>4, <1>5
<1>7. \A i \in 1 .. Len(calls) - 1 : (below \o <<c>>)[i] = calls[i] BY <1>1, <1>4, <1>5
<1> QED BY <1>1, <1>2, <1>4, <1>5, <1>6, <1>7

\* The parts of a call.
LEMMA CallParts == ASSUME NEW c \in Call
                   PROVE  /\ c.mod \in Mod /\ c.by \in By /\ c.at \in {"find", "load", "run"}
                          /\ c.todo \subseteq Mod
  BY DEF Call

LEMMA NewCallIs == ASSUME NEW m \in Mod, NEW by \in By
                   PROVE  /\ NewCall(m, by) \in Call /\ NewCall(m, by).mod = m
                          /\ NewCall(m, by).by = by /\ NewCall(m, by).at = "find"
  BY DEF NewCall, Call

-----------------------------------------------------------------------------
(* Paths, files and keys. *)

\* What a body imports, it imports with the packages on the way.
LEMMA ClosureIs == ASSUME NEW D \in SUBSET Mod
                   PROVE  /\ D \subseteq Closure(D) /\ Closure(D) \subseteq Mod
                          /\ \A m \in Closure(D) : Parent[m] # NoMod => Parent[m] \in Closure(D)
<1>1. \A m : m \in Closure(D) <=> m \in D \/ \E d \in D : m \in Packages[d] BY DEF Closure
<1>2. \A d \in D : d \in Mod /\ Packages[d] \subseteq Mod BY ImportsAssumption
<1>3. \A d \in D : \A m \in Packages[d] : Packages[m] \subseteq Packages[d]
  BY <1>2, ImportsAssumption
<1>4. \A m \in Mod : Parent[m] # NoMod => Parent[m] \in Packages[m] BY ImportsAssumption
<1>5. D \subseteq Closure(D) /\ Closure(D) \subseteq Mod BY <1>1, <1>2
<1>6. ASSUME NEW m \in Closure(D), Parent[m] # NoMod PROVE Parent[m] \in Closure(D)
  <2>1. Parent[m] \in Packages[m] BY <1>4, <1>5, <1>6
  <2>2. CASE m \in D BY <1>1, <2>1, <2>2
  <2>3. ASSUME NEW d \in D, m \in Packages[d] PROVE Parent[m] \in Closure(D)
    BY <1>1, <1>3, <2>1, <2>3
  <2> QED BY <1>1, <1>6, <2>2, <2>3
<1> QED BY <1>5, <1>6

\* The definitions of the model in these terms.
LEMMA GraphIs == /\ \A m \in Mod : Imported(m) = Closure(deps[m])
                 /\ Ranked(Needed) <=> \E rank : rank \in Ranks
<1>1. \A m \in Mod : Imported(m) = Closure(deps[m]) BY DEF Imported, Closure
<1>2. \A m \in Mod : Needed(m) = Closure(deps[m]) \cup Packages[m] BY <1>1 DEF Needed
<1>3. Ranked(Needed) <=> \E rank : rank \in Ranks BY <1>2 DEF Ranked, Ranks
<1> QED BY <1>1, <1>3

LEMMA SameGraph == deps' = deps => Ranks' = Ranks /\ (Ranked(Needed)' <=> Ranked(Needed))
<1> SUFFICES ASSUME deps' = deps PROVE Ranks' = Ranks /\ (Ranked(Needed)' <=> Ranked(Needed))
  OBVIOUS
<1>1. Ranks' = Ranks BY DEF Ranks
<1>2. Ranked(Needed)' <=> (\E rank : rank \in Ranks)' BY GraphIs, PTL
<1> QED BY <1>1, <1>2, GraphIs

\* A steady path is its module's key; so are its packages; an image that has a
\* path for name has none.
LEMMA FirmIs == ASSUME NEW m \in Firm, Types
                PROVE  /\ m \in Mod /\ file[m].image \in {m, NoMod}
                       /\ Parent[m] # NoMod => Parent[m] \in Firm /\ file[m].image = NoMod
<1>1. m \in Mod /\ Steady(m) BY DEF Firm
<1>2. file[m].image \in {m, NoMod} BY <1>1 DEF Steady, ByPath
<1>3. ASSUME Parent[m] # NoMod PROVE Parent[m] \in Firm /\ file[m].image = NoMod
  <2>1. Parent[m] \in Mod /\ Parent[m] \in Packages[m] BY <1>1, <1>3, ImportsAssumption
  <2>2. Packages[Parent[m]] \subseteq Packages[m] BY <1>1, <2>1, ImportsAssumption
  <2>3. Steady(Parent[m]) BY <1>1, <2>1, <2>2 DEF Steady
  <2>4. file[m].image # m BY <1>1, <1>3, ImportsAssumption DEF Types
  <2> QED BY <1>2, <2>1, <2>3, <2>4 DEF Firm
<1> QED BY <1>1, <1>2, <1>3

LEMMA SameFirm == file' = file => Firm' = Firm /\ Lone' = Lone /\ LoneKey' = LoneKey
  BY DEF Firm, Lone, LoneKey, Steady, OneKey, ByPath

\* Whoever loads it, a module that has one key has that.
LEMMA LoneIs == ASSUME NEW c \in Call, c.mod \in Lone
                PROVE  Key(c) = LoneKey[c.mod]
  BY DEF Lone, LoneKey, OneKey, ByPath, Key, LoadsImage

LEMMA KeyIs == ASSUME Types, NEW c \in Call
               PROVE  /\ Key(c) \in Name /\ c.mod \in Mod
                      /\ c.mod \in Firm => Key(c) = c.mod
                      /\ Key(c) \in Mod /\ Key(c) # c.mod =>
                           Key(c) = file[c.mod].image /\ Parent[Key(c)] = NoMod
                      /\ c.mod \in Firm /\ Parent[c.mod] # NoMod => ~LoadsImage(c)
<1>1. c.mod \in Mod BY DEF Call
<1>2. file[c.mod] \in Files /\ file[c.mod] \in Finds[c.mod] BY <1>1 DEF Types
<1>3. file[c.mod].image \in Name \cup {NoMod} BY <1>2 DEF Files
<1>4. Key(c) \in Name BY <1>1, <1>3, ImportsAssumption DEF Key, LoadsImage
<1>5. c.mod \in Firm => Key(c) = c.mod BY FirmIs DEF Key, LoadsImage
<1>6. Key(c) \in Mod /\ Key(c) # c.mod => Key(c) = file[c.mod].image /\ Parent[Key(c)] = NoMod
  BY <1>1, <1>2, ImportsAssumption DEF Key
<1>7. c.mod \in Firm /\ Parent[c.mod] # NoMod => ~LoadsImage(c) BY FirmIs DEF LoadsImage
<1> QED BY <1>1, <1>4, <1>5, <1>6, <1>7

-----------------------------------------------------------------------------
(* Sequences that list a set of numbers. *)

\* Adding a number above all others leaves their places.
LEMMA PlaceAdd == ASSUME NEW S, IsFiniteSet(S), S \subseteq Nat, NEW n \in Nat, \A i \in S : i < n
                  PROVE  /\ \A i \in S : Place(S \cup {n}, i) = Place(S, i)
                         /\ Place(S \cup {n}, n) = Cardinality(S) + 1
                         /\ Cardinality(S \cup {n}) = Cardinality(S) + 1 /\ Cardinality(S) \in Nat
<1>1. ASSUME NEW i \in S PROVE Place(S \cup {n}, i) = Place(S, i)
  <2>1. i \in Nat /\ i < n /\ ~(n <= i) OBVIOUS
  <2>2. {j \in S \cup {n} : j <= i} = {j \in S : j <= i} BY <2>1
  <2> QED BY <2>2 DEF Place
<1>2. n \notin S OBVIOUS
<1>3. Cardinality(S \cup {n}) = Cardinality(S) + 1 /\ Cardinality(S) \in Nat
  BY <1>2, FS_AddElement, FS_CardinalityType
<1>4. {j \in S \cup {n} : j <= n} = S \cup {n}
  <2>1. \A j \in S \cup {n} : j <= n BY n \in Nat
  <2> QED BY <2>1
<1> QED BY <1>1, <1>3, <1>4 DEF Place

LEMMA ListedPush ==
  ASSUME NEW S, IsFiniteSet(S), S \subseteq Nat, NEW n \in Nat, \A i \in S : i < n,
         NEW T, NEW s \in Seq(T), NEW x \in T, NEW f, NEW g, Listed(S, f, s),
         \A i \in S : g[i] = f[i], g[n] = x
  PROVE  Listed(S \cup {n}, g, Append(s, x))
<1> DEFINE t == Append(s, x)
<1>1. Len(s) \in Nat /\ Len(t) = Len(s) + 1 /\ t[Len(s) + 1] = x /\ \A k \in 1 .. Len(s) : t[k] = s[k]
  OBVIOUS
<1>2. /\ \A i \in S : Place(S \cup {n}, i) = Place(S, i)
      /\ Place(S \cup {n}, n) = Cardinality(S) + 1
      /\ Cardinality(S \cup {n}) = Cardinality(S) + 1
  BY PlaceAdd
<1> HIDE DEF t
<1>3. /\ Len(s) = Cardinality(S)
      /\ \A i \in S : Place(S, i) \in 1 .. Len(s) /\ s[Place(S, i)] = f[i]
      /\ \A k \in 1 .. Len(s) : \E i \in S : Place(S, i) = k
  BY DEF Listed
<1>4. ASSUME NEW i \in S \cup {n}
      PROVE  Place(S \cup {n}, i) \in 1 .. Len(t) /\ t[Place(S \cup {n}, i)] = g[i]
  <2>1. CASE i \in S
    <3> DEFINE k == Place(S, i)
    <3>1. k \in 1 .. Len(s) /\ s[k] = f[i] /\ Place(S \cup {n}, i) = k BY <1>2, <1>3, <2>1
    <3> HIDE DEF k
    <3>2. k \in 1 .. Len(t) BY <1>1, <3>1
    <3>3. t[k] = s[k] BY <1>1, <3>1
    <3>4. g[i] = f[i] BY <2>1
    <3> QED BY <3>1, <3>2, <3>3, <3>4
  <2>2. CASE i = n BY <1>1, <1>2, <1>3, <2>2
  <2> QED BY <2>1, <2>2
<1>5. ASSUME NEW k \in 1 .. Len(t) PROVE \E i \in S \cup {n} : Place(S \cup {n}, i) = k
  <2>1. k \in 1 .. Len(s) \/ k = Len(s) + 1 BY <1>1
  <2> QED BY <1>2, <1>3, <2>1
<1>6. Len(t) = Cardinality(S \cup {n}) BY <1>1, <1>2, <1>3
<1> QED BY <1>4, <1>5, <1>6 DEF Listed, t

LEMMA ListedPop ==
  ASSUME NEW S, IsFiniteSet(S), S \subseteq Nat, NEW n \in Nat, n \notin S, \A i \in S : i < n,
         NEW T, NEW s \in Seq(T), NEW f, Listed(S \cup {n}, f, s)
  PROVE  s # <<>> /\ s[Len(s)] = f[n] /\ Listed(S, f, Front(s))
<1>1. /\ \A i \in S : Place(S \cup {n}, i) = Place(S, i)
      /\ Place(S \cup {n}, n) = Cardinality(S) + 1
      /\ Cardinality(S \cup {n}) = Cardinality(S) + 1 /\ Cardinality(S) \in Nat
  BY PlaceAdd
<1>2. /\ Len(s) = Cardinality(S \cup {n})
      /\ \A i \in S \cup {n} : Place(S \cup {n}, i) \in 1 .. Len(s) /\ s[Place(S \cup {n}, i)] = f[i]
      /\ \A k \in 1 .. Len(s) : \E i \in S \cup {n} : Place(S \cup {n}, i) = k
  BY DEF Listed
<1>3. s # <<>> /\ s[Len(s)] = f[n]
  <2>1. n \in S \cup {n} OBVIOUS
  <2>2. Len(s) \in 1 .. Len(s) /\ Place(S \cup {n}, n) = Len(s) BY <1>1, <1>2, <2>1
  <2>3. s[Len(s)] = f[n] BY <1>2, <2>1, <2>2
  <2> QED BY <2>2, <2>3
<1> DEFINE t == Front(s)
<1>4. Len(t) = Len(s) - 1 /\ \A k \in 1 .. Len(s) - 1 : t[k] = s[k] BY <1>3, FrontIs
<1> HIDE DEF t
<1>5. Len(t) = Cardinality(S) BY <1>1, <1>2, <1>4
<1>6. ASSUME NEW k \in 1 .. Len(t) PROVE \E i \in S : Place(S, i) = k
  <2>1. k \in 1 .. Len(s) /\ k # Cardinality(S) + 1 BY <1>1, <1>2, <1>5
  <2> QED BY <1>1, <1>2, <2>1
<1>7. ASSUME NEW i \in S PROVE Place(S, i) \in 1 .. Len(t) /\ t[Place(S, i)] = f[i]
  <2>1. Place(S, i) \in 1 .. Len(s) /\ s[Place(S, i)] = f[i] BY <1>1, <1>2
  <2>2. Place(S, i) # Len(s)
    <3>1. Place(S, i) <= Cardinality(S)
      <4>1. {j \in S : j <= i} \subseteq S OBVIOUS
      <4> QED BY <4>1, FS_Subset DEF Place
    <3> QED BY <1>1, <1>2, <3>1
  <2>3. Place(S, i) \in 1 .. Len(s) - 1 BY <1>1, <1>2, <2>1, <2>2
  <2> QED BY <1>4, <2>1, <2>3
<1> QED BY <1>3, <1>5, <1>6, <1>7 DEF Listed, t

LEMMA ListedSame ==
  ASSUME NEW S, NEW s, NEW f, NEW g, Listed(S, f, s), \A i \in S : g[i] = f[i]
  PROVE  Listed(S, g, s)
  BY DEF Listed

-----------------------------------------------------------------------------
(* The shape of the calls. *)

LEMMA Tops == ASSUME Types, calls # <<>>
              PROVE  /\ Len(calls) \in Nat \ {0} /\ Top = calls[Len(calls)] /\ Top \in Call
                     /\ Top.mod \in Mod /\ Top.by \in By /\ Top.at \in {"find", "load", "run"}
                     /\ Top.todo \subseteq Mod
                     /\ Len(calls) > 1 =>
                          /\ Below \in Call /\ Below.mod \in Mod
                          /\ Below.at \in {"find", "load", "run"} /\ Below.todo \subseteq Mod
                          /\ Below = calls[Len(calls) - 1] /\ Len(calls) - 1 \in 1 .. Len(calls) - 1
<1>1. Len(calls) \in Nat \ {0} /\ Top = calls[Len(calls)] /\ Top \in Call
  BY DEF Types, Top
<1>2. /\ Top.mod \in Mod /\ Top.by \in By /\ Top.at \in {"find", "load", "run"}
      /\ Top.todo \subseteq Mod
  BY <1>1, CallParts
<1>3. ASSUME Len(calls) > 1
      PROVE  /\ Below \in Call /\ Below.mod \in Mod
             /\ Below.at \in {"find", "load", "run"} /\ Below.todo \subseteq Mod
             /\ Below = calls[Len(calls) - 1] /\ Len(calls) - 1 \in 1 .. Len(calls) - 1
  <2>1. Below = calls[Len(calls) - 1] /\ Len(calls) - 1 \in 1 .. Len(calls) BY <1>1, <1>3 DEF Below
  <2>2. Below \in Call BY <2>1 DEF Types
  <2> QED BY <1>1, <1>3, <2>1, <2>2, CallParts
<1> QED BY <1>1, <1>2, <1>3

\* What the shape says of the call below the innermost one.
LEMMA Belows == ASSUME Types, Shape, calls # <<>>, Len(calls) > 1
                PROVE  /\ Below.at = "load" => Top.by = "parent" /\ Top.mod = Parent[Below.mod]
                       /\ Top.by # "parent" => Top.mod \in Closure(deps[Below.mod])
                       /\ Below.at \in {"load", "run"} /\ deps[Below.mod] \in SUBSET Mod
<1>1. /\ Len(calls) - 1 \in 1 .. Len(calls) - 1 /\ (Len(calls) - 1) + 1 = Len(calls)
      /\ Below = calls[Len(calls) - 1] /\ Top = calls[Len(calls)]
      /\ Below.at \in {"find", "load", "run"} /\ Below.mod \in Mod
  BY Tops
<1>2. deps[Below.mod] \in SUBSET Mod BY <1>1 DEF Types
<1> QED BY <1>1, <1>2 DEF Shape

\* Taking the innermost call away keeps the shape of the others.
LEMMA ShapePop ==
  ASSUME Types, Shape, calls # <<>>, calls' = Front(calls), UNCHANGED <<cache, deps, file>>
  PROVE  Shape'
<1>1. /\ Len(calls') = Len(calls) - 1 /\ \A i \in 1 .. Len(calls) - 1 : calls'[i] = calls[i]
      /\ Len(calls) \in Nat \ {0}
  BY FrontIs DEF Types
<1>2. ASSUME NEW i \in 1 .. Len(calls') - 1
      PROVE  /\ calls'[i].at # "find"
             /\ calls'[i].at = "load" =>
                  calls'[i + 1].by = "parent" /\ calls'[i + 1].mod = Parent[calls'[i].mod]
             /\ calls'[i + 1].by # "parent" => calls'[i + 1].mod \in Closure(deps[calls'[i].mod])
  <2>1. i \in 1 .. Len(calls) - 1 /\ i + 1 \in 1 .. Len(calls) - 1 BY <1>1
  <2>2. calls'[i] = calls[i] /\ calls'[i + 1] = calls[i + 1] BY <1>1, <2>1
  <2> QED BY <2>1, <2>2 DEF Shape
<1>3. ASSUME NEW i \in 1 .. Len(calls')
      PROVE  /\ calls'[i].at = "run" => calls'[i].todo \subseteq Closure(deps[calls'[i].mod])
             /\ calls'[i].at = "load" /\ calls'[i].mod \in Firm => calls'[i].mod \notin DOMAIN cache
  <2>1. i \in 1 .. Len(calls) /\ calls'[i] = calls[i] BY <1>1
  <2> QED BY <2>1 DEF Shape
<1>4. Firm' = Firm BY SameFirm
<1> QED BY <1>2, <1>3, <1>4 DEF Shape

\* Replacing it keeps the shape if the new one fits the call below.
LEMMA ShapeSetTop ==
  ASSUME Types, Shape, calls # <<>>, NEW c \in Call, calls' = SetTop(c),
         UNCHANGED <<deps, file>>,
         Len(calls) > 1 /\ Below.at = "load" => c.by = "parent" /\ c.mod = Parent[Below.mod],
         Len(calls) > 1 /\ c.by # "parent" => c.mod \in Closure(deps[Below.mod]),
         c.at = "run" => c.todo \subseteq Closure(deps[c.mod]),
         c.at = "load" /\ c.mod \in Firm => c.mod \notin DOMAIN cache',
         \A i \in 1 .. Len(calls) - 1 :
           calls[i].at = "load" /\ calls[i].mod \in Firm => calls[i].mod \notin DOMAIN cache'
  PROVE  Shape'
<1>1. /\ Len(calls') = Len(calls) /\ calls'[Len(calls)] = c
      /\ \A i \in 1 .. Len(calls) - 1 : calls'[i] = calls[i]
      /\ Len(calls) \in Nat \ {0}
  BY SetTopIs DEF Types
<1>2. ASSUME NEW i \in 1 .. Len(calls') - 1
      PROVE  /\ calls'[i].at # "find"
             /\ calls'[i].at = "load" =>
                  calls'[i + 1].by = "parent" /\ calls'[i + 1].mod = Parent[calls'[i].mod]
             /\ calls'[i + 1].by # "parent" => calls'[i + 1].mod \in Closure(deps[calls'[i].mod])
  <2>1. i \in 1 .. Len(calls) - 1 /\ calls'[i] = calls[i] BY <1>1
  <2>2. CASE i + 1 = Len(calls)
    <3>1. Below = calls[i] /\ Len(calls) > 1 BY <1>1, <2>1, <2>2 DEF Below
    <3> QED BY <1>1, <2>1, <2>2, <3>1 DEF Shape
  <2>3. CASE i + 1 # Len(calls)
    <3>1. i + 1 \in 1 .. Len(calls) - 1 BY <1>1, <2>1, <2>3
    <3>2. calls'[i + 1] = calls[i + 1] BY <1>1, <3>1
    <3> QED BY <2>1, <3>2 DEF Shape
  <2> QED BY <2>2, <2>3
<1>3. ASSUME NEW i \in 1 .. Len(calls')
      PROVE  /\ calls'[i].at = "run" => calls'[i].todo \subseteq Closure(deps[calls'[i].mod])
             /\ calls'[i].at = "load" /\ calls'[i].mod \in Firm => calls'[i].mod \notin DOMAIN cache'
  <2>1. CASE i = Len(calls) BY <1>1, <2>1
  <2>2. CASE i # Len(calls)
    <3>1. i \in 1 .. Len(calls) - 1 /\ i \in 1 .. Len(calls) BY <1>1, <2>2
    <3> QED BY <1>1, <3>1 DEF Shape
  <2> QED BY <2>1, <2>2
<1>4. Firm' = Firm BY SameFirm
<1> QED BY <1>2, <1>3, <1>4 DEF Shape

-----------------------------------------------------------------------------
(* The import stack. *)

LEMMA BodiesAre == ASSUME Types
                   PROVE  /\ IsFiniteSet(Bodies) /\ Bodies \subseteq Nat /\ Len(calls) \in Nat
                          /\ \A i \in Bodies : /\ i \in 1 .. Len(calls) /\ i <= Len(calls)
                                               /\ calls[i] \in Call /\ calls[i].mod \in Mod
                                               /\ Keys[i] = Key(calls[i])
<1>1. Len(calls) \in Nat /\ Bodies \subseteq 1 .. Len(calls) BY DEF Types, Bodies
<1>2. IsFiniteSet(1 .. Len(calls)) BY <1>1, FS_Interval
<1>3. IsFiniteSet(Bodies) /\ Bodies \subseteq Nat
  <2>1. IsFiniteSet(Bodies) BY <1>1, <1>2, FS_Subset
  <2> QED BY <1>1, <2>1
<1>4. ASSUME NEW i \in Bodies
      PROVE  /\ i \in 1 .. Len(calls) /\ i <= Len(calls) /\ calls[i] \in Call
             /\ calls[i].mod \in Mod
  <2>1. i \in 1 .. Len(calls) /\ i <= Len(calls) BY <1>1
  <2>2. calls[i] \in Call BY <2>1 DEF Types
  <2> QED BY <2>1, <2>2, CallParts
<1>5. \A i \in Bodies : Keys[i] = Key(calls[i]) BY DEF Keys
<1> QED BY <1>1, <1>3, <1>4, <1>5

\* What is on the stack is the key of a body, and conversely.
LEMMA OnStack == ASSUME Stacked
                 PROVE  /\ \A k \in 1 .. Len(importStack) : \E i \in Bodies : importStack[k] = Keys[i]
                        /\ \A i \in Bodies : \E k \in 1 .. Len(importStack) : importStack[k] = Keys[i]
  BY DEF Stacked, Listed

\* A call keeps its key.
SameCall(i) == calls'[i].mod = calls[i].mod /\ calls'[i].by = calls[i].by
LEMMA SameKeys == ASSUME file' = file, NEW i \in Bodies, i \in Bodies', SameCall(i)
                  PROVE  Keys'[i] = Keys[i]
  BY DEF Keys, Key, LoadsImage, SameCall

\* Steps that start and end no body.
LEMMA StackedKept ==
  ASSUME Stacked, Bodies' = Bodies, \A i \in Bodies : SameCall(i),
         UNCHANGED <<file, cache, importStack>>,
         \A m \in Mod : status'[m] = "running" => status[m] = "running"
  PROVE  Stacked'
<1>1. Firm' = Firm BY SameFirm
<1>2. \A i \in Bodies : Keys'[i] = Keys[i] BY SameKeys
<1>3. \A i \in Bodies : calls'[i].mod = calls[i].mod BY DEF SameCall
<1>4. Listed(Bodies', Keys', importStack') BY <1>2, ListedSame DEF Stacked
<1> QED BY <1>1, <1>2, <1>3, <1>4 DEF Stacked

\* The last of the list is taken away with the last body.
LEMMA StackPop ==
  ASSUME NEW n \in Nat, IsFiniteSet(Bodies'), Bodies' \subseteq Nat, n \notin Bodies',
         \A i \in Bodies' : i < n, importStack \in Seq(Name),
         Listed(Bodies' \cup {n}, Keys, importStack)
  PROVE  importStack # <<>> /\ Listed(Bodies', Keys, Front(importStack))
  BY ListedPop

\* A body ends, by an exception or not: the last of the stack is its key.
LEMMA StackedEnds ==
  ASSUME Types, Stacked, calls # <<>>, Top.at = "run", NEW end \in {"done", "failed"},
         Bodies' = Bodies \ {Len(calls)}, \A i \in Bodies' : SameCall(i),
         UNCHANGED <<file, cache>>,
         importStack' = Front(importStack), status' = [status EXCEPT ![Top.mod] = end]
  PROVE  /\ Stacked' /\ importStack # <<>>
         /\ Top.mod \in Firm => /\ Top.mod \in DOMAIN cache
                                /\ \A k \in 1 .. Len(importStack') : importStack'[k] # Top.mod
<1> DEFINE n == Len(calls)
           S == Bodies'
<1>1. /\ IsFiniteSet(Bodies) /\ Bodies \subseteq Nat
      /\ \A i \in Bodies : i <= n /\ calls[i].mod \in Mod /\ Keys[i] = Key(calls[i])
  BY BodiesAre
<1>2. n \in Nat /\ n \in Bodies /\ calls[n] = Top /\ Top \in Call /\ Top.mod \in Mod
  BY Tops DEF Bodies
<1>3. Keys[n] = Key(Top) /\ Key(Top) \in DOMAIN cache BY <1>1, <1>2 DEF Stacked
<1>4. \A i \in S : i \in Bodies /\ i # n /\ calls'[i].mod = calls[i].mod /\ Keys'[i] = Keys[i]
  BY SameKeys DEF SameCall
<1>5. /\ IsFiniteSet(S) /\ S \subseteq Nat /\ n \notin S /\ \A i \in S : i < n
      /\ S \cup {n} = Bodies
  <2>1. IsFiniteSet(S) BY <1>1, FS_Subset
  <2>2. \A i \in S : i \in Nat /\ i <= n /\ i # n BY <1>1, <1>4
  <2>3. \A i \in S : i < n BY <1>2, <2>2
  <2>4. S \cup {n} = Bodies BY <1>2
  <2> QED BY <2>1, <2>2, <2>3, <2>4
<1>6. importStack \in Seq(Name) BY DEF Types
<1>7. Listed(Bodies, Keys, importStack) BY DEF Stacked
<1>8. importStack # <<>> /\ Listed(S, Keys', importStack')
  <2>1. Listed(S \cup {n}, Keys, importStack) BY <1>5, <1>7
  <2>2. \A i \in S : Keys'[i] = Keys[i] BY <1>4
  <2>3. importStack # <<>> /\ Listed(S, Keys, Front(importStack))
    <3> DEFINE x == Len(calls)
    <3>1. x \in Nat /\ IsFiniteSet(Bodies') /\ Bodies' \subseteq Nat BY <1>2, <1>5
    <3>2. x \notin Bodies' /\ \A i \in Bodies' : i < x BY <1>5
    <3>3. Listed(Bodies' \cup {x}, Keys, importStack) BY <2>1
    <3> HIDE DEF x
    <3> QED BY <1>6, <3>1, <3>2, <3>3, StackPop
  <2> HIDE DEF S
  <2>4. Listed(S, Keys', Front(importStack)) BY <2>2, <2>3, ListedSame
  <2> QED BY <2>3, <2>4
<1>9. Firm' = Firm BY SameFirm
<1>10. Stacked'
  <2>1. ASSUME NEW m \in Mod, status'[m] = "running" PROVE \E i \in S : calls'[i].mod = m
    <3>1. m # Top.mod /\ status[m] = "running" BY <1>2, <2>1 DEF Types
    <3>2. PICK i \in Bodies : calls[i].mod = m BY <3>1 DEF Stacked
    <3>3. i \in S BY <1>2, <3>1, <3>2
    <3> QED BY <1>4, <3>2, <3>3
  <2>2. \A i \in S : Keys'[i] \in DOMAIN cache' BY <1>4 DEF Stacked
  <2>3. \A i, j \in S : i < j /\ calls'[j].mod \in Firm' => Keys'[i] # Keys'[j]
    BY <1>4, <1>9 DEF Stacked
  <2> QED BY <1>8, <2>1, <2>2, <2>3 DEF Stacked
<1>11. ASSUME Top.mod \in Firm
       PROVE  /\ Top.mod \in DOMAIN cache
              /\ \A k \in 1 .. Len(importStack') : importStack'[k] # Top.mod
  <2>1. Key(Top) = Top.mod BY <1>2, <1>11, KeyIs
  <2>2. ASSUME NEW k \in 1 .. Len(importStack') PROVE importStack'[k] # Top.mod
    <3>1. PICK i \in S : importStack'[k] = Keys'[i]
      <4>1. \A l \in 1 .. Len(importStack') : \E i \in S : importStack'[l] = Keys'[i]
        BY <1>8 DEF Listed
      <4> QED BY <4>1, <2>2
    <3>2. i \in Bodies /\ i < n /\ Keys'[i] = Keys[i] BY <1>4, <1>5
    <3>3. Keys[i] # Keys[n] BY <1>2, <1>11, <3>2 DEF Stacked
    <3> QED BY <1>3, <2>1, <3>1, <3>2, <3>3
  <2> QED BY <1>3, <2>1, <2>2
<1> QED BY <1>8, <1>10, <1>11

\* A body starts, for the first time if its module is steady: its key goes to the
\* end of the stack.
LEMMA StackedStarts ==
  ASSUME Types, Stacked, calls # <<>>, Top.at # "run",
         Top.mod \in Firm => Top.mod \notin DOMAIN cache,
         Bodies' = Bodies \cup {Len(calls)}, \A i \in Bodies' : SameCall(i), file' = file,
         DOMAIN cache' = DOMAIN cache \cup {Key(Top)},
         importStack' = Append(importStack, Key(Top)),
         status' = [status EXCEPT ![Top.mod] = "running"]
  PROVE  Stacked'
<1> DEFINE n == Len(calls)
<1>1. /\ IsFiniteSet(Bodies) /\ Bodies \subseteq Nat
      /\ \A i \in Bodies : i <= n /\ calls[i].mod \in Mod /\ Keys[i] = Key(calls[i])
  BY BodiesAre
<1>2. /\ n \in Nat /\ calls[n] = Top /\ Top \in Call /\ Top.mod \in Mod
      /\ n \notin Bodies /\ \A i \in Bodies : i < n
  <2>1. n \in Nat /\ calls[n] = Top /\ Top \in Call /\ Top.mod \in Mod BY Tops
  <2>2. n \notin Bodies BY <2>1 DEF Bodies
  <2>3. \A i \in Bodies : i \in Nat /\ i <= n /\ i # n BY <1>1, <2>2
  <2> QED BY <2>1, <2>2, <2>3
<1>3. /\ \A i \in Bodies' : calls'[i].mod = calls[i].mod
      /\ \A i \in Bodies : i \in Bodies' /\ Keys'[i] = Keys[i]
      /\ Keys'[n] = Key(Top)
  <2>1. n \in Bodies' /\ SameCall(n) OBVIOUS
  <2>2. Keys'[n] = Key(Top) BY <1>2, <2>1 DEF Keys, Key, LoadsImage, SameCall
  <2>3. \A i \in Bodies' : calls'[i].mod = calls[i].mod BY DEF SameCall
  <2>4. \A i \in Bodies : i \in Bodies' /\ Keys'[i] = Keys[i] BY SameKeys
  <2> QED BY <2>2, <2>3, <2>4
<1>4. Firm' = Firm BY SameFirm
<1>5. Listed(Bodies', Keys', importStack')
  <2>1. importStack \in Seq(Name) /\ Key(Top) \in Name BY <1>2, KeyIs DEF Types
  <2>2. Listed(Bodies, Keys, importStack) BY DEF Stacked
  <2> DEFINE B == Bodies
             x == Key(Top)
  <2>3. Listed(B \cup {n}, Keys', Append(importStack, x))
    <3>1. /\ IsFiniteSet(B) /\ B \subseteq Nat /\ n \in Nat /\ \A i \in B : i < n BY <1>1, <1>2
    <3>2. (\A i \in B : Keys'[i] = Keys[i]) /\ Keys'[n] = x BY <1>3
    <3>3. importStack \in Seq(Name) /\ x \in Name /\ Listed(B, Keys, importStack) BY <2>1, <2>2
    <3> HIDE DEF B, n, x
    <3> QED BY <3>1, <3>2, <3>3, ListedPush
  <2> QED BY <2>3
<1>6. \A i \in Bodies' : Keys'[i] \in DOMAIN cache' BY <1>3 DEF Stacked
<1>7. ASSUME NEW i \in Bodies', NEW j \in Bodies', i < j, calls'[j].mod \in Firm'
      PROVE  Keys'[i] # Keys'[j]
  <2>1. i \in Bodies
    <3>1. j \in Nat /\ j <= n BY <1>1, <1>2
    <3>2. i # n BY <1>2, <1>7, <3>1
    <3> QED BY <3>2
  <2>2. CASE j \in Bodies BY <1>3, <1>4, <1>7, <2>1, <2>2 DEF Stacked
  <2>3. CASE j = n
    <3>1. Top.mod \in Firm BY <1>2, <1>3, <1>4, <1>7, <2>3
    <3>2. Key(Top) = Top.mod BY <1>2, <3>1, KeyIs
    <3>3. Keys[i] \in DOMAIN cache BY <2>1 DEF Stacked
    <3> QED BY <1>3, <2>1, <2>3, <3>1, <3>2, <3>3
  <2> QED BY <2>2, <2>3
<1>8. ASSUME NEW m \in Mod, status'[m] = "running" PROVE \E i \in Bodies' : calls'[i].mod = m
  <2>1. CASE m = Top.mod BY <1>2, <1>3, <2>1
  <2>2. CASE m # Top.mod
    <3>1. status[m] = "running" BY <1>2, <1>8, <2>2 DEF Types
    <3>2. PICK i \in Bodies : calls[i].mod = m BY <3>1 DEF Stacked
    <3> QED BY <1>3, <3>2
  <2> QED BY <2>1, <2>2
<1> QED BY <1>5, <1>6, <1>7, <1>8 DEF Stacked

-----------------------------------------------------------------------------
(* The ranks. *)

\* A rank is a number, and lower for what a module needs.
LEMMA RankIs == ASSUME NEW rank \in Ranks, NEW m \in Mod
                PROVE  /\ rank[m] \in Nat
                       /\ \A n \in Closure(deps[m]) \cup Packages[m] :
                            n \in Mod => rank[n] < rank[m]
  BY DEF Ranks

LEMMA DescendsFewer ==
  ASSUME Types, Descends, deps' = deps, Len(calls') \in Nat, Len(calls') <= Len(calls),
         \A i \in 1 .. Len(calls') : calls'[i].mod = calls[i].mod
  PROVE  Descends'
<1>1. Ranks' = Ranks BY DEF Ranks
<1>2. Len(calls) \in Nat BY DEF Types
<1>3. \A i \in 1 .. Len(calls') : i \in 1 .. Len(calls) BY <1>2
<1> QED BY <1>1, <1>3 DEF Descends

\* One more call, or another in place of the innermost, for a module that the
\* one below needs.
LEMMA DescendsMore ==
  ASSUME Types, Descends, deps' = deps, NEW n \in Nat, n + 1 \in 1 .. Len(calls) + 1,
         calls' \in Seq(Call), Len(calls') = n + 1,
         \A i \in 1 .. n : calls'[i].mod = calls[i].mod,
         n > 0 => calls'[n + 1].mod \in Closure(deps[calls[n].mod]) \cup Packages[calls[n].mod]
  PROVE  Descends'
<1>1. Ranks' = Ranks BY DEF Ranks
<1>2. Len(calls) \in Nat /\ calls \in Seq(Call) BY DEF Types
<1>3. \A i \in 1 .. n : i \in 1 .. Len(calls) /\ calls[i].mod \in Mod
  BY <1>2, CallParts
<1>4. n + 1 \in 1 .. Len(calls') /\ calls'[n + 1].mod \in Mod
  <2>1. n + 1 \in 1 .. Len(calls') OBVIOUS
  <2>2. calls'[n + 1] \in Call BY <2>1
  <2> QED BY <2>1, <2>2, CallParts
<1>5. ASSUME NEW rank \in Ranks, NEW i \in 1 .. Len(calls'), NEW j \in 1 .. Len(calls'), i < j
      PROVE  rank[calls'[j].mod] < rank[calls'[i].mod]
  <2>1. i \in 1 .. n /\ calls'[i].mod = calls[i].mod BY <1>5
  <2>2. CASE j \in 1 .. n BY <1>3, <1>5, <2>1, <2>2 DEF Descends
  <2>3. CASE j = n + 1
    <3>1. n > 0 /\ n \in 1 .. n BY <2>1
    <3>2. rank[calls'[n + 1].mod] < rank[calls[n].mod]
      BY <1>3, <1>4, <3>1, RankIs
    <3>3. i = n \/ rank[calls[n].mod] < rank[calls[i].mod]
      BY <1>3, <2>1, <3>1 DEF Descends
    <3>4. /\ rank[calls'[n + 1].mod] \in Nat /\ rank[calls[n].mod] \in Nat
          /\ rank[calls[i].mod] \in Nat
      BY <1>3, <1>4, <2>1, <3>1, RankIs
    <3> QED BY <2>1, <2>3, <3>2, <3>3, <3>4
  <2> QED BY <2>2, <2>3
<1> QED BY <1>1, <1>5 DEF Descends

-----------------------------------------------------------------------------
(* The steps. *)

\* Raising an exception disturbs nothing else.
LEMMA RaiseKeeps ==
  ASSUME ImportsInv, UNCHANGED <<deps, file, cache, importStack, calls, submodules, status, got>>,
         raised' \in {"other"} \cup ImportErrors, raised' = "cycle" /\ NoClash => ~Ranked(Needed)
  PROVE  ImportsInv'
<1>1. Types' BY DEF ImportsInv, Types
<1>2. Ready' BY DEF Ready, AtTop, Running, ImportErrors
<1>3. Firm' = Firm /\ (NoClash' <=> NoClash) BY SameFirm DEF NoClash
<1>4. Shape' BY <1>3 DEF ImportsInv, Shape
<1>5. Cached' BY <1>3, SameFirm DEF ImportsInv, Cached
<1>6. Bodies' = Bodies /\ \A i \in Bodies : SameCall(i) BY DEF Bodies, SameCall
<1>7. Stacked' BY <1>6, StackedKept DEF ImportsInv
<1>8. Descends' BY SameGraph DEF ImportsInv, Descends
<1>9. NoFalseCycle' BY <1>3, SameGraph DEF NoFalseCycle
<1>10. Registered' BY DEF ImportsInv, Registered
<1> QED BY <1>1, <1>2, <1>4, <1>5, <1>7, <1>8, <1>9, <1>10 DEF ImportsInv

\* What the end of the innermost call's body, if it runs one, leaves.
Ended(end) == IF Top.at = "run"
                THEN importStack' = Front(importStack) /\ status' = [status EXCEPT ![Top.mod] = end]
                ELSE UNCHANGED <<importStack, status>>

LEMMA EndKeeps ==
  ASSUME ImportsInv, calls # <<>>, UNCHANGED <<file, cache>>, NEW end \in {"done", "failed"},
         Ended(end), Bodies' = Bodies \ {Len(calls)}, \A i \in Bodies' : SameCall(i)
  PROVE  /\ importStack' \in Seq(Name) /\ status' \in [Mod -> {"new", "running", "done", "failed"}]
         /\ Stacked' /\ Cached'
         /\ Top.at = "run" /\ Top.mod \in Firm =>
              /\ Top.mod \in DOMAIN cache
              /\ \A k \in 1 .. Len(importStack') : importStack'[k] # Top.mod
<1>1. Types /\ Stacked /\ Cached BY DEF ImportsInv
<1>2. Top.mod \in Mod /\ Len(calls) \in Nat \ {0} /\ Top = calls[Len(calls)] BY <1>1, Tops
<1>3. Firm' = Firm BY SameFirm
<1>4. CASE Top.at = "run"
  <2>1. importStack' = Front(importStack) /\ status' = [status EXCEPT ![Top.mod] = end]
    BY <1>4 DEF Ended
  <2>2. /\ Stacked' /\ importStack # <<>>
        /\ Top.mod \in Firm => /\ Top.mod \in DOMAIN cache
                               /\ \A k \in 1 .. Len(importStack') : importStack'[k] # Top.mod
    BY <1>1, <1>4, <2>1, StackedEnds
  <2>3. importStack \in Seq(Name) BY <1>1 DEF Types
  <2>4. importStack' \in Seq(Name) BY <2>1, <2>2, <2>3, FrontIs
  <2>5. status' \in [Mod -> {"new", "running", "done", "failed"}] BY <1>1, <1>2, <2>1 DEF Types
  <2>6. \A m \in Firm : status'[m] # "new" => m \in DOMAIN cache
    <3> SUFFICES ASSUME NEW m \in Firm, status'[m] # "new" PROVE m \in DOMAIN cache
      OBVIOUS
    <3>1. m \in Mod BY DEF Firm
    <3>2. CASE m = Top.mod BY <2>2, <3>2
    <3>3. CASE m # Top.mod BY <1>1, <1>2, <2>1, <3>1, <3>3 DEF Types, Cached
    <3> QED BY <3>2, <3>3
  <2>7. Cached' BY <1>1, <1>3, <2>6, SameFirm DEF Cached
  <2> QED BY <2>2, <2>4, <2>5, <2>7
<1>5. CASE Top.at # "run"
  <2>1. UNCHANGED <<importStack, status>> BY <1>5 DEF Ended
  <2>2. Len(calls) \notin Bodies BY <1>2, <1>5 DEF Bodies
  <2>3. Bodies' = Bodies BY <2>2
  <2>4. Stacked' BY <1>1, <2>1, <2>3, StackedKept
  <2> QED BY <1>1, <1>3, <1>5, <2>1, <2>4, SameFirm DEF Types, Cached
<1> QED BY <1>4, <1>5

\* The innermost call is taken away, its body, if it ran one, having ended.
LEMMA PopKeeps ==
  ASSUME ImportsInv, calls # <<>>, calls' = Front(calls), UNCHANGED <<deps, file, cache>>,
         raised' \in {"nothing", "other", raised}, submodules' \in SUBSET Mod,
         got' \in [Mod -> SUBSET Mod], NEW end \in {"done", "failed"}, Ended(end),
         raised' = "nothing" /\ Len(calls) > 1 /\ Below.at = "load" /\ Top.mod \in Firm =>
           /\ Top.mod \in DOMAIN cache
           /\ \A k \in 1 .. Len(importStack') : importStack'[k] # Top.mod,
         Registered'
  PROVE  ImportsInv'
<1>1. Types /\ Shape /\ Cached /\ Stacked /\ Descends /\ NoFalseCycle BY DEF ImportsInv
<1>2. /\ calls' \in Seq(Call) /\ Len(calls') = Len(calls) - 1 /\ Len(calls) \in Nat \ {0}
      /\ \A i \in 1 .. Len(calls) - 1 : calls'[i] = calls[i]
  BY <1>1, FrontIs DEF Types
<1>3. Firm' = Firm /\ (NoClash' <=> NoClash) BY SameFirm DEF NoClash
<1>4. Bodies' = Bodies \ {Len(calls)} /\ \A i \in Bodies' : SameCall(i)
  <2>1. \A i : i \in 1 .. Len(calls') <=> i \in 1 .. Len(calls) /\ i # Len(calls) BY <1>2
  <2>2. \A i \in 1 .. Len(calls') : calls'[i] = calls[i] BY <1>2
  <2> QED BY <2>1, <2>2 DEF Bodies, SameCall
<1>5. /\ importStack' \in Seq(Name) /\ status' \in [Mod -> {"new", "running", "done", "failed"}]
      /\ Stacked' /\ Cached'
  BY <1>4, EndKeeps
<1>6. Types' BY <1>1, <1>2, <1>5 DEF Types
<1>7. Shape' BY <1>1, ShapePop
<1>8. Ready'
  <2> SUFFICES ASSUME AtTop("load")', Top'.mod \in Firm', Parent[Top'.mod] # NoMod
               PROVE  /\ Parent[Top'.mod] \in DOMAIN cache'
                      /\ \A k \in 1 .. Len(importStack') : importStack'[k] # Parent[Top'.mod]
    BY DEF Ready, Waits
  <2>1. raised' = "nothing" /\ calls' # <<>> /\ Top'.at = "load" BY DEF AtTop, Running
  <2>2. Len(calls) > 1 BY <1>2, <2>1
  <2>3. Top' = Below BY <1>1, <1>2, <2>2, Tops DEF Top
  <2>4. Top.mod = Parent[Below.mod] /\ Below.mod \in Firm BY <1>1, <1>3, <2>1, <2>2, <2>3, Belows
  <2>5. Top.mod \in Firm BY <1>1, <2>3, <2>4, FirmIs
  <2> QED BY <2>1, <2>2, <2>3, <2>4, <2>5
<1>9. Descends'
  <2>1. Len(calls') \in Nat /\ Len(calls') <= Len(calls) BY <1>2
  <2>2. \A i \in 1 .. Len(calls') : calls'[i].mod = calls[i].mod BY <1>2
  <2> QED BY <1>1, <2>1, <2>2, DescendsFewer
<1>10. NoFalseCycle' BY <1>1, <1>3, SameGraph DEF NoFalseCycle
<1> QED BY <1>5, <1>6, <1>7, <1>8, <1>9, <1>10 DEF ImportsInv

\* The innermost call becomes one that has yet to find its module: its own
\* again, or one for the package of it.
LEMMA ReplaceKeeps ==
  ASSUME ImportsInv, calls # <<>>, NEW c \in Call, c.at = "find", c.by # "parent",
         calls' = SetTop(c), UNCHANGED <<deps, file, cache, got>>,
         raised' \in {"nothing", "other"}, submodules' \in SUBSET Mod,
         NEW end \in {"done", "failed"}, Ended(end), Top.by # "parent",
         c.mod = Top.mod \/ (Parent[Top.mod] # NoMod /\ c.mod = Parent[Top.mod]),
         Registered'
  PROVE  ImportsInv'
<1>1. Types /\ Shape /\ Cached /\ Stacked /\ Descends /\ NoFalseCycle BY DEF ImportsInv
<1>2. /\ calls' \in Seq(Call) /\ Len(calls') = Len(calls) /\ Len(calls) \in Nat \ {0}
      /\ calls'[Len(calls)] = c /\ \A i \in 1 .. Len(calls) - 1 : calls'[i] = calls[i]
  BY <1>1, SetTopIs DEF Types
<1>3. ASSUME Len(calls) > 1 PROVE Below.at # "load" /\ c.mod \in Closure(deps[Below.mod])
  <2>1. /\ Top.mod \in Closure(deps[Below.mod]) /\ Below.at # "load"
        /\ deps[Below.mod] \in SUBSET Mod
    BY <1>1, <1>3, Belows
  <2> QED BY <2>1, ClosureIs
<1>4. Bodies' = Bodies \ {Len(calls)} /\ \A i \in Bodies' : SameCall(i)
  <2>1. \A i \in 1 .. Len(calls) : i # Len(calls) => calls'[i] = calls[i] BY <1>2
  <2>2. calls'[Len(calls)].at # "run" BY <1>2
  <2>3. Bodies' = Bodies \ {Len(calls)} BY <1>2, <2>1, <2>2 DEF Bodies
  <2>4. \A i \in Bodies' : i \in 1 .. Len(calls) /\ i # Len(calls) BY <2>3 DEF Bodies
  <2> QED BY <2>1, <2>3, <2>4 DEF SameCall
<1>5. /\ importStack' \in Seq(Name) /\ status' \in [Mod -> {"new", "running", "done", "failed"}]
      /\ Stacked' /\ Cached'
  BY <1>4, EndKeeps
<1>6. Types' BY <1>1, <1>2, <1>5 DEF Types
<1>7. Shape'
  <2>1. \A i \in 1 .. Len(calls) - 1 :
          calls[i].at = "load" /\ calls[i].mod \in Firm => calls[i].mod \notin DOMAIN cache'
    <3>1. \A i \in 1 .. Len(calls) - 1 : i \in 1 .. Len(calls) BY <1>2
    <3> QED BY <1>1, <3>1 DEF Shape
  <2> QED BY <1>1, <1>3, <2>1, ShapeSetTop
<1>8. Ready' BY <1>2 DEF Ready, AtTop, Top
<1>9. Descends'
  <2>1. CASE Len(calls) = 1
    <3>1. \A i, j \in 1 .. Len(calls') : ~(i < j) BY <1>2, <2>1
    <3> QED BY <3>1 DEF Descends
  <2>2. CASE Len(calls) # 1
    <3> DEFINE n == Len(calls) - 1
    <3>1. n \in Nat /\ n + 1 \in 1 .. Len(calls) + 1 /\ n + 1 = Len(calls) /\ Len(calls) > 1
      BY <1>2, <2>2
    <3>2. \A i \in 1 .. n : calls'[i].mod = calls[i].mod BY <1>2
    <3>3. calls'[n + 1].mod \in Closure(deps[calls[n].mod])
      <4>1. Below = calls[n] BY <1>1, <3>1, Tops
      <4> QED BY <1>2, <1>3, <3>1, <4>1
    <3> HIDE DEF n
    <3> QED BY <1>1, <1>2, <3>1, <3>2, <3>3, DescendsMore
  <2> QED BY <2>1, <2>2
<1>10. NoFalseCycle' BY DEF NoFalseCycle
<1> QED BY <1>5, <1>6, <1>7, <1>8, <1>9, <1>10 DEF ImportsInv

LEMMA MainImportsStep == ASSUME ImportsInv, NEW m \in Mod, MainImports(m) PROVE ImportsInv'
<1>1. PICK by \in {"statement", "items"} : calls' = <<NewCall(m, by)>> BY DEF MainImports
<1>2. calls = <<>> /\ UNCHANGED <<deps, file, cache, importStack, raised, submodules, status, got>>
  BY DEF MainImports, program
<1>3. Types /\ Shape /\ Cached /\ Stacked /\ Descends /\ NoFalseCycle /\ Registered
  BY DEF ImportsInv
<1>4. NewCall(m, by) \in Call /\ NewCall(m, by).at = "find"
  BY NewCallIs DEF By
<1>5. /\ calls' \in Seq(Call) /\ Len(calls') = 1 /\ Len(calls) = 0
      /\ calls'[1].at = "find"
  BY <1>1, <1>2, <1>4
<1>6. Types' BY <1>2, <1>3, <1>5 DEF Types
<1>7. Ready' BY <1>5 DEF Ready, AtTop, Top
<1>8. Shape'
  <2>1. \A i \in 1 .. Len(calls') - 1 : FALSE BY <1>5
  <2>2. \A i \in 1 .. Len(calls') : calls'[i].at = "find" BY <1>5
  <2> QED BY <2>1, <2>2 DEF Shape
<1>9. Bodies = {} /\ Bodies' = {}
  <2>1. \A i \in 1 .. Len(calls') : calls'[i].at = "find" BY <1>5
  <2> QED BY <1>5, <2>1 DEF Bodies
<1>10. Firm' = Firm /\ (NoClash' <=> NoClash) BY <1>2, SameFirm DEF NoClash
<1>11. Stacked' BY <1>2, <1>3, <1>9, StackedKept
<1>12. Cached' BY <1>2, <1>3, <1>10, SameFirm DEF Cached
<1>13. Descends' BY <1>5 DEF Descends
<1>14. NoFalseCycle' BY <1>2, <1>3, <1>10, SameGraph DEF NoFalseCycle
<1>15. Registered' BY <1>2, <1>3 DEF Registered
<1> QED BY <1>6, <1>7, <1>8, <1>11, <1>12, <1>13, <1>14, <1>15 DEF ImportsInv

LEMMA FailStep == ImportsInv /\ Fail => ImportsInv'
  BY RaiseKeeps DEF Fail, program

LEMMA TooDeepStep == ImportsInv /\ TooDeep => ImportsInv'
  BY RaiseKeeps DEF TooDeep, program

LEMMA LoadMissingStep == ImportsInv /\ LoadMissing => ImportsInv'
  BY RaiseKeeps DEF LoadMissing, program, ImportErrors

\* What a finished import hands out is a module.
LEMMA HandIs == ASSUME Types, calls # <<>>, NEW m \in Mod, Hand(m)
                PROVE  /\ got' \in [Mod -> SUBSET Mod]
                       /\ \A k, n \in Mod : n \in got'[k] \ got[k] => n = m
<1>1. got \in [Mod -> SUBSET Mod] BY DEF Types
<1>2. Len(calls) > 1 => Below.mod \in Mod BY Tops
<1> QED BY <1>1, <1>2 DEF Hand

\* A path on the stack that is refused is that of a body, unless an image is
\* called by it, and the ranks descend from one import of it to the next.
LEMMA FindCachedStep == ImportsInv /\ FindCached => ImportsInv'
<1> SUFFICES ASSUME ImportsInv, FindCached PROVE ImportsInv'
  OBVIOUS
<1>1. /\ calls # <<>> /\ raised = "nothing" /\ Top.at = "find" /\ Top.mod \in DOMAIN cache
      /\ UNCHANGED <<deps, file, cache, importStack, submodules, status>>
  BY DEF FindCached, AtTop, Running, program
<1>2. Types /\ Shape /\ Stacked /\ Descends /\ Registered BY DEF ImportsInv
<1>3. Top \in Call /\ Top.mod \in Mod /\ importStack \in Seq(Name) BY <1>1, <1>2, Tops DEF Types
<1>4. Cycle(Top.mod) <=> \E k \in 1 .. Len(importStack) : importStack[k] = Top.mod
  BY <1>3 DEF Cycle, Range
<1>5. CASE Cycle(Top.mod)
  <2>1. raised' = "cycle" /\ UNCHANGED <<calls, got>> BY <1>5 DEF FindCached
  <2>2. ASSUME NoClash PROVE ~Ranked(Needed)
    <3>1. PICK i \in Bodies : Keys[i] = Top.mod BY <1>2, <1>4, <1>5, OnStack
    <3>2. calls[i] \in Call /\ Keys[i] = Key(calls[i]) /\ i \in 1 .. Len(calls) /\ i <= Len(calls)
      BY <1>2, <3>1, BodiesAre
    <3>3. calls[i].mod = Top.mod
      BY <1>2, <1>3, <2>2, <3>1, <3>2, KeyIs DEF NoClash
    <3>4. /\ Len(calls) \in 1 .. Len(calls) /\ i < Len(calls) /\ Top = calls[Len(calls)]
      <4>1. Len(calls) \in Nat \ {0} /\ Top = calls[Len(calls)] BY <1>1, <1>2, Tops
      <4>2. i # Len(calls) BY <1>1, <3>1, <4>1 DEF Bodies
      <4> QED BY <3>2, <4>1, <4>2
    <3>5. ASSUME NEW rank \in Ranks PROVE FALSE
      <4>1. rank[Top.mod] < rank[Top.mod] BY <1>2, <3>2, <3>3, <3>4 DEF Descends
      <4> QED BY <1>3, <4>1, RankIs
    <3> QED BY <3>5, GraphIs
  <2> QED BY <1>1, <2>1, <2>2, RaiseKeeps DEF ImportErrors
<1>6. CASE ~Cycle(Top.mod) /\ raised' = "other" /\ UNCHANGED <<calls, got>>
  BY <1>1, <1>6, RaiseKeeps
<1>7. CASE ~Cycle(Top.mod) /\ calls' = Front(calls) /\ raised' = "nothing" /\ Hand(cache[Top.mod])
  <2>1. got' \in [Mod -> SUBSET Mod]
    <3>1. cache[Top.mod] \in Mod BY <1>1, <1>2 DEF Types
    <3> QED BY <1>1, <1>2, <1>7, <3>1, HandIs
  <2>2. /\ Top.mod \in DOMAIN cache
        /\ \A k \in 1 .. Len(importStack') : importStack'[k] # Top.mod
    BY <1>1, <1>4, <1>7
  <2>3. submodules' \in SUBSET Mod BY <1>1, <1>2 DEF Types
  <2>4. Registered' BY <1>1, <1>2 DEF Registered
  <2>5. Ended("done") BY <1>1 DEF Ended
  <2> QED BY <1>1, <1>7, <2>1, <2>2, <2>3, <2>4, <2>5, PopKeeps
<1> QED BY <1>5, <1>6, <1>7 DEF FindCached

\* The innermost call, having found its module or running it, makes a call.
LEMMA PushKeeps ==
  ASSUME ImportsInv, calls # <<>>,
         UNCHANGED <<deps, file, cache, importStack, raised, submodules, status, got>>,
         NEW d \in Call, d.mod = Top.mod, d.by = Top.by, d.at \in {"load", "run"},
         d.at = "run" <=> Top.at = "run",
         d.at = "run" => d.todo \subseteq Closure(deps[Top.mod]),
         d.at = "load" => Top.mod \notin DOMAIN cache,
         NEW c \in Call, c.at = "find",
         c.mod \in Closure(deps[Top.mod]) \cup Packages[Top.mod],
         d.at = "load" => c.by = "parent" /\ c.mod = Parent[Top.mod],
         c.by # "parent" => c.mod \in Closure(deps[Top.mod]),
         calls' = Append(SetTop(d), c)
  PROVE  ImportsInv'
<1> DEFINE n == Len(calls)
<1>1. Types /\ Shape /\ Cached /\ Stacked /\ Descends /\ NoFalseCycle /\ Registered
  BY DEF ImportsInv
<1>2. /\ SetTop(d) \in Seq(Call) /\ Len(SetTop(d)) = n /\ SetTop(d)[n] = d
      /\ \A i \in 1 .. n - 1 : SetTop(d)[i] = calls[i]
      /\ n \in Nat \ {0} /\ Top = calls[n] /\ Top.mod \in Mod
  BY <1>1, SetTopIs, Tops DEF Types
<1>3. /\ calls' \in Seq(Call) /\ Len(calls') = n + 1 /\ calls'[n + 1] = c /\ calls'[n] = d
      /\ \A i \in 1 .. n - 1 : calls'[i] = calls[i]
  <2>1. \A i \in 1 .. Len(SetTop(d)) : calls'[i] = SetTop(d)[i] BY <1>2
  <2>2. calls' \in Seq(Call) /\ Len(calls') = Len(SetTop(d)) + 1 /\ calls'[Len(SetTop(d)) + 1] = c
    BY <1>2
  <2>3. n \in 1 .. n /\ \A i \in 1 .. n - 1 : i \in 1 .. n BY <1>2
  <2> HIDE DEF n
  <2> QED BY <1>2, <2>1, <2>2, <2>3
<1> HIDE DEF n
<1>4. \A i \in 1 .. n : calls'[i].mod = calls[i].mod /\ calls'[i].by = calls[i].by
  <2>1. \A i \in 1 .. n : i = n \/ i \in 1 .. n - 1 BY <1>2
  <2> QED BY <1>2, <1>3, <2>1
<1>5. Types' BY <1>1, <1>3 DEF Types
<1>6. Firm' = Firm /\ (NoClash' <=> NoClash) BY SameFirm DEF NoClash
<1>7. Shape'
  <2>1. ASSUME NEW i \in 1 .. Len(calls') - 1
        PROVE  /\ calls'[i].at # "find"
               /\ calls'[i].at = "load" =>
                    calls'[i + 1].by = "parent" /\ calls'[i + 1].mod = Parent[calls'[i].mod]
               /\ calls'[i + 1].by # "parent" =>
                    calls'[i + 1].mod \in Closure(deps[calls'[i].mod])
    <3>1. CASE i = n BY <1>3, <3>1
    <3>2. CASE i # n
      <4>1. i \in 1 .. n - 1 /\ i + 1 \in 1 .. n BY <1>2, <1>3, <2>1, <3>2
      <4> QED BY <1>1, <1>3, <1>4, <4>1 DEF Shape, n
    <3> QED BY <3>1, <3>2
  <2>2. ASSUME NEW i \in 1 .. Len(calls')
        PROVE  /\ calls'[i].at = "run" => calls'[i].todo \subseteq Closure(deps[calls'[i].mod])
               /\ calls'[i].at = "load" /\ calls'[i].mod \in Firm =>
                    calls'[i].mod \notin DOMAIN cache
    <3>1. CASE i = n BY <1>3, <3>1
    <3>2. CASE i = n + 1 BY <1>3, <3>2
    <3>3. CASE i # n /\ i # n + 1
      <4>1. i \in 1 .. n - 1 /\ i \in 1 .. n BY <1>2, <1>3, <2>2, <3>3
      <4> QED BY <1>1, <1>3, <4>1 DEF Shape, n
    <3> QED BY <3>1, <3>2, <3>3
  <2> QED BY <1>6, <2>1, <2>2 DEF Shape
<1>8. Ready' BY <1>3 DEF Ready, AtTop, Top
<1>9. Bodies' = Bodies
  <2>1. \A i : i \in 1 .. Len(calls') <=> i \in 1 .. n - 1 \/ i = n \/ i = n + 1 BY <1>2, <1>3
  <2>2. \A i : i \in 1 .. n <=> i \in 1 .. n - 1 \/ i = n BY <1>2
  <2> QED BY <1>2, <1>3, <2>1, <2>2 DEF Bodies, n
<1>10. Stacked'
  <2>1. \A i \in Bodies : SameCall(i) BY <1>4 DEF Bodies, SameCall, n
  <2> QED BY <1>1, <1>9, <2>1, StackedKept
<1>11. Cached' BY <1>1, <1>6, SameFirm DEF Cached
<1>12. Descends'
  <2>1. n + 1 \in 1 .. Len(calls) + 1 BY <1>2 DEF n
  <2>2. calls'[n + 1].mod \in Closure(deps[calls[n].mod]) \cup Packages[calls[n].mod]
    BY <1>2, <1>3
  <2> QED BY <1>1, <1>2, <1>3, <1>4, <2>1, <2>2, DescendsMore
<1>13. NoFalseCycle' BY <1>1, <1>6, SameGraph DEF NoFalseCycle
<1>14. Registered' BY <1>1 DEF Registered
<1> QED BY <1>5, <1>7, <1>8, <1>10, <1>11, <1>12, <1>13, <1>14 DEF ImportsInv

LEMMA BodyImportsStep == ASSUME ImportsInv, NEW m \in Mod, BodyImports(m) PROVE ImportsInv'
<1> DEFINE d == [Top EXCEPT !.todo = @ \ {m}]
<1>1. PICK by \in {"statement", "items", "image"} : calls' = Append(SetTop(d), NewCall(m, by))
  BY DEF BodyImports
<1> DEFINE c == NewCall(m, by)
<1>2. /\ calls # <<>> /\ Top.at = "run" /\ m \in Top.todo /\ calls' = Append(SetTop(d), c)
      /\ UNCHANGED <<deps, file, cache, importStack, raised, submodules, status, got>>
  BY <1>1 DEF BodyImports, AtTop, Running, program
<1>3. Types /\ Shape BY DEF ImportsInv
<1>4. Top \in Call /\ Top.todo \subseteq Closure(deps[Top.mod])
  <2>1. Len(calls) \in 1 .. Len(calls) /\ Top = calls[Len(calls)] BY <1>2, <1>3, Tops
  <2> QED BY <1>2, <1>3, <2>1, Tops DEF Shape
<1>5. /\ d \in Call /\ d.mod = Top.mod /\ d.by = Top.by /\ d.at = "run"
      /\ d.todo = Top.todo \ {m}
  BY <1>2, <1>4 DEF Call
<1>6. c \in Call /\ c.at = "find" /\ c.mod = m /\ c.by # "parent" BY NewCallIs DEF By, Compiled
<1>7. m \in Closure(deps[Top.mod]) BY <1>2, <1>4
<1> HIDE DEF c, d
<1> QED BY <1>2, <1>4, <1>5, <1>6, <1>7, PushKeeps

\* A steady module waits for its package, if it has one.
LEMMA FindNewStep == ImportsInv /\ FindNew => ImportsInv'
<1> SUFFICES ASSUME ImportsInv, FindNew PROVE ImportsInv'
  OBVIOUS
<1> DEFINE parent == Parent[Top.mod]
           d == [Top EXCEPT !.at = "load"]
           c == NewCall(parent, "parent")
<1>1. /\ calls # <<>> /\ Top.at = "find" /\ Top.mod \notin DOMAIN cache
      /\ calls' = IF parent = NoMod \/ Direct(Top) THEN SetTop(d) ELSE Append(SetTop(d), c)
      /\ UNCHANGED <<deps, file, cache, importStack, raised, submodules, status, got>>
  BY DEF FindNew, AtTop, Running, program
<1>2. Types /\ Shape /\ Cached /\ Stacked /\ Descends /\ NoFalseCycle /\ Registered
  BY DEF ImportsInv
<1>3. Top \in Call /\ Top.mod \in Mod /\ parent \in Mod \cup {NoMod}
  BY <1>1, <1>2, Tops, ImportsAssumption
<1>4. d \in Call /\ d.mod = Top.mod /\ d.by = Top.by /\ d.at = "load"
  BY <1>3 DEF Call
<1>5. CASE ~(parent = NoMod \/ Direct(Top))
  <2>1. c \in Call /\ c.at = "find" /\ c.mod = parent /\ c.by = "parent"
    BY <1>3, <1>5, NewCallIs DEF By
  <2>2. parent \in Packages[Top.mod] BY <1>3, <1>5, ImportsAssumption
  <2>3. calls' = Append(SetTop(d), c) BY <1>1, <1>5
  <2> HIDE DEF c, d
  <2> QED BY <1>1, <1>4, <2>1, <2>2, <2>3, PushKeeps
<1>6. CASE parent = NoMod \/ Direct(Top)
  <2>1. calls' = SetTop(d) BY <1>1, <1>6
  <2> HIDE DEF d
  <2>2. /\ calls' \in Seq(Call) /\ Len(calls') = Len(calls) /\ calls'[Len(calls)] = d
        /\ \A i \in 1 .. Len(calls) - 1 : calls'[i] = calls[i]
        /\ Len(calls) \in Nat \ {0} /\ Top = calls[Len(calls)]
    <3>1. calls \in Seq(Call) /\ calls # <<>> /\ d \in Call BY <1>1, <1>2, <1>4 DEF Types
    <3>2. /\ SetTop(d) \in Seq(Call) /\ Len(SetTop(d)) = Len(calls) /\ SetTop(d)[Len(calls)] = d
          /\ \A i \in 1 .. Len(calls) - 1 : SetTop(d)[i] = calls[i]
          /\ Len(calls) \in Nat \ {0}
      BY <3>1, SetTopIs
    <3> QED BY <2>1, <3>2 DEF Top
  <2>3. \A i \in 1 .. Len(calls) : i = Len(calls) \/ i \in 1 .. Len(calls) - 1 BY <2>2
  <2>4. Types' BY <1>1, <1>2, <2>2 DEF Types
  <2>5. Firm' = Firm /\ (NoClash' <=> NoClash) BY <1>1, SameFirm DEF NoClash
  <2>6. Ready'
    <3>1. Top' = d BY <2>2 DEF Top
    <3>2. Top.mod \in Firm => parent = NoMod BY <1>2, <1>3, <1>6, KeyIs DEF Direct
    <3> QED BY <1>4, <2>5, <3>1, <3>2 DEF Ready
  <2>7. Shape'
    <3>1. \A i \in 1 .. Len(calls) - 1 :
            calls[i].at = "load" /\ calls[i].mod \in Firm => calls[i].mod \notin DOMAIN cache'
      <4>1. \A i \in 1 .. Len(calls) - 1 : i \in 1 .. Len(calls) BY <2>2
      <4> QED BY <1>1, <1>2, <4>1 DEF Shape
    <3>2. /\ Len(calls) > 1 /\ Below.at = "load" => d.by = "parent" /\ d.mod = Parent[Below.mod]
          /\ Len(calls) > 1 /\ d.by # "parent" => d.mod \in Closure(deps[Below.mod])
      BY <1>1, <1>2, <1>4, Belows
    <3> QED BY <1>1, <1>2, <1>4, <2>1, <3>1, <3>2, ShapeSetTop
  <2>8. Bodies' = Bodies BY <1>1, <1>4, <2>2, <2>3 DEF Bodies
  <2>9. \A i \in 1 .. Len(calls) : SameCall(i) BY <1>4, <2>2, <2>3 DEF SameCall
  <2>10. Stacked'
    <3>1. \A i \in Bodies : SameCall(i) BY <2>9 DEF Bodies
    <3> QED BY <1>1, <1>2, <2>8, <3>1, StackedKept
  <2>11. Cached' BY <1>1, <1>2, <2>5, SameFirm DEF Cached
  <2>12. Descends'
    <3>1. Len(calls') \in Nat /\ Len(calls') <= Len(calls) BY <2>2
    <3>2. \A i \in 1 .. Len(calls') : calls'[i].mod = calls[i].mod BY <2>2, <2>9 DEF SameCall
    <3> QED BY <1>1, <1>2, <3>1, <3>2, DescendsFewer
  <2>13. NoFalseCycle' BY <1>1, <1>2, <2>5, SameGraph DEF NoFalseCycle
  <2>14. Registered' BY <1>1, <1>2 DEF Registered
  <2> QED BY <2>4, <2>6, <2>7, <2>10, <2>11, <2>12, <2>13, <2>14 DEF ImportsInv
<1> QED BY <1>5, <1>6

\* No other call has found the steady module to load: that call would wait for
\* its package, whose body would be running.
LEMMA LoadStep == ImportsInv /\ Load => ImportsInv'
<1> SUFFICES ASSUME ImportsInv, Load PROVE ImportsInv'
  OBVIOUS
<1> DEFINE todo == IF LoadsImage(Top) THEN Imported(Top.mod) ELSE deps[Top.mod]
           d == [Top EXCEPT !.at = "run", !.todo = todo]
           n == Len(calls)
<1>1. /\ AtTop("load") /\ calls # <<>> /\ Top.at = "load"
      /\ cache' = [key \in DOMAIN cache \cup {Key(Top)} |->
                     IF key = Key(Top) THEN Top.mod ELSE cache[key]]
      /\ importStack' = Append(importStack, Key(Top)) /\ calls' = SetTop(d)
      /\ status' = [status EXCEPT ![Top.mod] = "running"]
      /\ got' = [got EXCEPT ![Top.mod] = {}]
      /\ UNCHANGED <<deps, file, raised, submodules>>
  BY DEF Load, AtTop, Running, program
<1>2. Types /\ Shape /\ Ready /\ Cached /\ Stacked /\ Descends /\ NoFalseCycle /\ Registered
  BY DEF ImportsInv
<1>3. /\ Top \in Call /\ Top.mod \in Mod /\ n \in Nat \ {0} /\ Top = calls[n]
      /\ deps[Top.mod] \in SUBSET Mod
  BY <1>1, <1>2, Tops DEF Types
<1>4. todo \subseteq Closure(deps[Top.mod]) /\ todo \subseteq Mod
  BY <1>3, ClosureIs, GraphIs
<1> HIDE DEF todo
<1>5. d \in Call /\ d.mod = Top.mod /\ d.by = Top.by /\ d.at = "run" /\ d.todo = todo
  BY <1>3, <1>4 DEF Call
<1> HIDE DEF d
<1>6. /\ calls' \in Seq(Call) /\ Len(calls') = n /\ calls'[n] = d
      /\ \A i \in 1 .. n - 1 : calls'[i] = calls[i]
  BY <1>1, <1>2, <1>5, SetTopIs DEF Types
<1>7. \A i \in 1 .. n : i = n \/ i \in 1 .. n - 1 BY <1>3
<1>8. Top.mod \in Firm => Top.mod \notin DOMAIN cache
  <2>1. n \in 1 .. Len(calls) BY <1>3
  <2> QED BY <1>1, <1>2, <1>3, <2>1 DEF Shape
<1>9. /\ Key(Top) \in Name
      /\ Top.mod \in Firm => Key(Top) = Top.mod
      /\ Key(Top) \in Mod /\ Key(Top) # Top.mod => Parent[Key(Top)] = NoMod
  BY <1>2, <1>3, KeyIs
<1>10. ASSUME NEW i \in 1 .. n - 1, calls[i].at = "load", calls[i].mod \in Firm
       PROVE  calls[i].mod # Key(Top)
  <2> SUFFICES ASSUME calls[i].mod = Key(Top) PROVE FALSE
    OBVIOUS
  <2> DEFINE m == calls[i].mod
  <2>1. i \in 1 .. Len(calls) - 1 /\ i + 1 \in 1 .. n BY <1>3, <1>10
  <2>2. calls[i + 1].mod = Parent[m] BY <1>2, <1>10, <2>1 DEF Shape
  <2>3. calls[i + 1] \in Call /\ calls[i + 1].mod \in Mod BY <1>2, <2>1, CallParts DEF Types
  <2>4. m \in Mod /\ Parent[m] # NoMod BY <1>10, <2>2, <2>3, ImportsAssumption DEF Firm
  <2>5. Top.mod = m BY <1>9, <2>4
  <2>6. Waits(m) BY <1>1, <1>2, <1>10, <2>4, <2>5 DEF Ready
  <2>7. Parent[m] \in Firm BY <1>2, <1>10, <2>4, FirmIs
  <2> HIDE DEF m
  <2>8. calls[i + 1].at # "run"
    <3> SUFFICES ASSUME calls[i + 1].at = "run" PROVE FALSE
      OBVIOUS
    <3>1. i + 1 \in Bodies BY <2>1 DEF Bodies
    <3>2. Keys[i + 1] = Parent[m] BY <1>2, <2>2, <2>3, <2>7, <3>1, BodiesAre, KeyIs
    <3> QED BY <1>2, <2>6, <3>1, <3>2, OnStack DEF Waits
  <2>9. calls[i + 1].at # "load" BY <1>2, <2>1, <2>2, <2>6, <2>7 DEF Shape, Waits
  <2>10. CASE i + 1 = n BY <1>1, <1>3, <2>9, <2>10
  <2>11. CASE i + 1 # n
    <3>1. i + 1 \in 1 .. Len(calls) - 1 BY <1>3, <2>1, <2>11
    <3>2. calls[i + 1].at # "find" BY <1>2, <3>1 DEF Shape
    <3> QED BY <2>3, <2>8, <2>9, <3>2, CallParts
  <2> QED BY <2>10, <2>11
<1>11. DOMAIN cache' = DOMAIN cache \cup {Key(Top)} BY <1>1
<1>12. \A key \in DOMAIN cache' : cache'[key] = IF key = Key(Top) THEN Top.mod ELSE cache[key]
  BY <1>1
<1>13. Types'
  <2>1. importStack' \in Seq(Name) BY <1>1, <1>2, <1>9 DEF Types
  <2>2. DOMAIN cache' \subseteq Name /\ \A key \in DOMAIN cache' : cache'[key] \in Mod
    BY <1>2, <1>3, <1>9, <1>11, <1>12 DEF Types
  <2>3. /\ status' \in [Mod -> {"new", "running", "done", "failed"}]
        /\ got' \in [Mod -> SUBSET Mod]
    BY <1>1, <1>2, <1>3 DEF Types
  <2> QED BY <1>1, <1>2, <1>6, <2>1, <2>2, <2>3 DEF Types
<1>14. Firm' = Firm /\ (NoClash' <=> NoClash) BY <1>1, SameFirm DEF NoClash
<1>15. Ready' BY <1>5, <1>6 DEF Ready, AtTop, Top
<1>16. Shape'
  <2>1. \A i \in 1 .. Len(calls) - 1 :
          calls[i].at = "load" /\ calls[i].mod \in Firm => calls[i].mod \notin DOMAIN cache'
    <3>1. \A i \in 1 .. Len(calls) - 1 : i \in 1 .. Len(calls) BY <1>3
    <3> QED BY <1>2, <1>10, <1>11, <3>1 DEF Shape
  <2>2. /\ Len(calls) > 1 /\ Below.at = "load" => d.by = "parent" /\ d.mod = Parent[Below.mod]
        /\ Len(calls) > 1 /\ d.by # "parent" => d.mod \in Closure(deps[Below.mod])
    BY <1>1, <1>2, <1>5, Belows
  <2> HIDE DEF n
  <2> QED BY <1>1, <1>2, <1>4, <1>5, <2>1, <2>2, ShapeSetTop
<1>17. Cached'
  <2>1. \A m \in Firm : status'[m] # "new" => m \in DOMAIN cache'
    <3> SUFFICES ASSUME NEW m \in Firm, status'[m] # "new" PROVE m \in DOMAIN cache'
      OBVIOUS
    <3>1. m \in Mod BY DEF Firm
    <3>2. CASE m = Top.mod BY <1>9, <1>11, <3>2
    <3>3. CASE m # Top.mod
      <4>1. status'[m] = status[m] BY <1>1, <1>2, <1>3, <3>1, <3>3 DEF Types
      <4> QED BY <1>2, <1>11, <4>1 DEF Cached
    <3> QED BY <3>2, <3>3
  <2>2. Top.mod \in Lone => Key(Top) = LoneKey[Top.mod] BY <1>3, LoneIs
  <2>3. \A key \in DOMAIN cache' : cache'[key] \in Lone => key = LoneKey[cache'[key]]
    BY <1>2, <1>11, <1>12, <2>2 DEF Cached
  <2>4. Lone' = Lone /\ LoneKey' = LoneKey BY <1>1, SameFirm
  <2> QED BY <1>14, <2>1, <2>3, <2>4 DEF Cached
<1>18. Bodies' = Bodies \cup {n}
  <2>1. n \in 1 .. n BY <1>3
  <2> QED BY <1>5, <1>6, <1>7, <2>1 DEF Bodies
<1>19. \A i \in 1 .. n : SameCall(i) BY <1>3, <1>5, <1>6, <1>7 DEF SameCall
<1>20. Stacked'
  <2>1. \A i \in Bodies' : SameCall(i)
    <3>1. \A i \in Bodies' : i \in 1 .. n BY <1>6 DEF Bodies
    <3> QED BY <1>19, <3>1
  <2> QED BY <1>1, <1>2, <1>8, <1>11, <1>18, <2>1, StackedStarts
<1>21. Descends'
  <2>1. Len(calls') \in Nat /\ Len(calls') <= Len(calls) BY <1>3, <1>6
  <2>2. \A i \in 1 .. Len(calls') : calls'[i].mod = calls[i].mod BY <1>6, <1>19 DEF SameCall
  <2> QED BY <1>1, <1>2, <2>1, <2>2, DescendsFewer
<1>22. NoFalseCycle' BY <1>1, <1>2, <1>14, SameGraph DEF NoFalseCycle
<1>23. Registered'
  <2>1. \A m \in Mod : status'[m] = "done" => status[m] = "done"
    BY <1>1, <1>2, <1>3 DEF Types
  <2> QED BY <1>1, <1>2, <2>1 DEF Registered
<1> QED BY <1>13, <1>15, <1>16, <1>17, <1>20, <1>21, <1>22, <1>23 DEF ImportsInv

\* A call that may lack what it asks for is not one for a package.
LEMMA LackIs == ASSUME NEW c \in Call, MayLack(c) PROVE c.by # "parent"
  BY DEF MayLack

LEMMA CompleteStep == ImportsInv /\ Complete => ImportsInv'
<1> SUFFICES ASSUME ImportsInv, Complete PROVE ImportsInv'
  OBVIOUS
<1>1. /\ calls # <<>> /\ raised = "nothing" /\ Top.at = "run"
      /\ importStack' = Front(importStack) /\ status' = [status EXCEPT ![Top.mod] = "done"]
      /\ submodules' = IF ~LoadsImage(Top) /\ Parent[Top.mod] # NoMod
                         THEN submodules \cup {Top.mod} ELSE submodules
      /\ UNCHANGED <<deps, file, cache>>
  BY DEF Complete, AtTop, Running, program
<1>2. Types /\ Shape /\ Cached /\ Stacked /\ Registered BY DEF ImportsInv
<1>3. Top.mod \in Mod /\ Top \in Call BY <1>1, <1>2, Tops
<1>4. \A m \in Mod : status'[m] = IF m = Top.mod THEN "done" ELSE status[m]
  BY <1>1, <1>2, <1>3 DEF Types
<1>5. submodules' \in SUBSET Mod BY <1>1, <1>2, <1>3 DEF Types
<1>6. Registered' BY <1>1, <1>2, <1>4 DEF Registered, LoadsImage
<1>7. Ended("done") BY <1>1 DEF Ended
<1>8. CASE calls' = Front(calls) /\ raised' = "nothing" /\ Hand(Top.mod)
  <2>1. got' \in [Mod -> SUBSET Mod] BY <1>1, <1>2, <1>3, <1>8, HandIs
  <2>2. Bodies' = Bodies \ {Len(calls)} /\ \A i \in Bodies' : SameCall(i)
    <3>1. /\ Len(calls') = Len(calls) - 1 /\ Len(calls) \in Nat \ {0}
          /\ \A i \in 1 .. Len(calls) - 1 : calls'[i] = calls[i]
      BY <1>1, <1>2, <1>8, FrontIs DEF Types
    <3>2. \A i : i \in 1 .. Len(calls') <=> i \in 1 .. Len(calls) /\ i # Len(calls) BY <3>1
    <3>3. \A i \in 1 .. Len(calls') : calls'[i] = calls[i] BY <3>1
    <3> QED BY <3>2, <3>3 DEF Bodies, SameCall
  <2>3. Top.mod \in Firm => /\ Top.mod \in DOMAIN cache
                            /\ \A k \in 1 .. Len(importStack') : importStack'[k] # Top.mod
    BY <1>1, <1>7, <2>2, EndKeeps
  <2> QED BY <1>1, <1>5, <1>6, <1>7, <1>8, <2>1, <2>3, PopKeeps
<1>9. CASE /\ MayLack(Top) /\ raised' = "other"
           /\ calls' = SetTop([Top EXCEPT !.at = "find"]) /\ UNCHANGED got
  <2> DEFINE c == [Top EXCEPT !.at = "find"]
  <2>1. c \in Call /\ c.at = "find" /\ c.by = Top.by /\ c.mod = Top.mod BY <1>3, <1>9 DEF Call
  <2>2. calls' = SetTop(c) BY <1>9
  <2>3. Top.by # "parent" BY <1>3, <1>9, LackIs
  <2> HIDE DEF c
  <2> QED BY <1>1, <1>5, <1>6, <1>7, <1>9, <2>1, <2>2, <2>3, ReplaceKeeps
<1> QED BY <1>8, <1>9 DEF Complete

\* What an exception leaving a call does to the rest, whoever catches it.
LEMMA Leaves == ASSUME Types, Registered, calls # <<>>, Leave, UNCHANGED <<file, submodules>>
                PROVE  Ended("failed") /\ Registered'
<1>1. Ended("failed") BY DEF Leave, Ended
<1>2. Top.mod \in Mod BY Tops
<1>3. \A m \in Mod : status'[m] = "done" => status[m] = "done" BY <1>1, <1>2 DEF Ended, Types
<1> QED BY <1>1, <1>3 DEF Registered

LEMMA UnwindStep == ImportsInv /\ Unwind => ImportsInv'
<1> SUFFICES ASSUME ImportsInv, Unwind PROVE ImportsInv'
  OBVIOUS
<1>1. /\ raised # "nothing" /\ calls # <<>> /\ Leave
      /\ UNCHANGED <<deps, file, cache, submodules, got>>
  BY DEF Unwind, program
<1>2. Types /\ Shape /\ Registered BY DEF ImportsInv
<1>3. Ended("failed") /\ Registered' BY <1>1, <1>2, Leaves
<1>4. submodules' \in SUBSET Mod /\ got' \in [Mod -> SUBSET Mod] BY <1>1, <1>2 DEF Types
<1>5. Top.mod \in Mod /\ Len(calls) \in Nat \ {0} BY <1>1, <1>2, Tops
<1>6. CASE TriesMember
  <2> DEFINE by == IF Top.by = "statement" THEN "member" ELSE "imageMember"
             c == NewCall(Parent[Top.mod], by)
  <2>1. calls' = SetTop(c) /\ raised' = "nothing" BY <1>6 DEF Unwind
  <2>2. Top.by # "parent" /\ Parent[Top.mod] # NoMod /\ Parent[Top.mod] \in Mod
    BY <1>5, <1>6, ImportsAssumption DEF TriesMember, Retriable, Compiled
  <2>3. by \in By /\ by # "parent" BY DEF By, Compiled
  <2>4. c \in Call /\ c.mod = Parent[Top.mod] /\ c.by # "parent" /\ c.at = "find"
    BY <2>2, <2>3, NewCallIs
  <2> HIDE DEF c
  <2> QED BY <1>1, <1>3, <1>4, <2>1, <2>2, <2>4, ReplaceKeeps
<1>7. CASE ~TriesMember
  <2>1. /\ calls' = Front(calls)
        /\ raised' = IF Len(calls) = 1 THEN "nothing"
                     ELSE IF Retriable /\ Top.by \in Compiled THEN "other" ELSE raised
    BY <1>7 DEF Unwind
  <2>2. raised' \in {"nothing", "other", raised} /\ ~(raised' = "nothing" /\ Len(calls) > 1)
    BY <1>1, <1>5, <2>1
  <2> QED BY <1>1, <1>3, <1>4, <2>1, <2>2, PopKeeps
<1> QED BY <1>6, <1>7

LEMMA SurviveStep == ImportsInv /\ Survive => ImportsInv'
<1> SUFFICES ASSUME ImportsInv, Survive PROVE ImportsInv'
  OBVIOUS
<1>1. /\ raised # "nothing" /\ Len(calls) > 1 /\ Below.at = "run" /\ Leave
      /\ calls' = Front(calls) /\ raised' = "nothing"
      /\ UNCHANGED <<deps, file, cache, submodules, got>>
  BY DEF Survive, program
<1>2. Types /\ Shape /\ Registered BY DEF ImportsInv
<1>3. calls # <<>> BY <1>1
<1>4. Ended("failed") /\ Registered' BY <1>1, <1>2, <1>3, Leaves
<1>5. submodules' \in SUBSET Mod /\ got' \in [Mod -> SUBSET Mod] BY <1>1, <1>2 DEF Types
<1> QED BY <1>1, <1>3, <1>4, <1>5, PopKeeps

-----------------------------------------------------------------------------
(* The invariant. *)

LEMMA ImportsInit == Init => ImportsInv
<1> SUFFICES ASSUME Init PROVE ImportsInv
  OBVIOUS
<1>1. /\ calls = <<>> /\ importStack = <<>> /\ Len(calls) = 0 /\ Len(importStack) = 0
      /\ cache = <<>> /\ DOMAIN cache = {}
  BY DEF Init
<1>2. Types
  <2>1. importStack \in Seq(Name) /\ calls \in Seq(Call) BY <1>1
  <2> QED BY <1>1, <2>1 DEF Init, Types
<1>3. Shape BY <1>1 DEF Shape
<1>4. Ready BY <1>1 DEF Ready, AtTop, Running
<1>5. Cached BY <1>1 DEF Init, Cached, Firm
<1>6. Bodies = {} BY <1>1 DEF Bodies
<1>7. Stacked
  <2>1. Listed(Bodies, Keys, importStack) BY <1>1, <1>6, FS_EmptySet DEF Listed
  <2>2. \A m \in Mod : status[m] # "running" BY DEF Init
  <2> QED BY <1>6, <2>1, <2>2 DEF Stacked
<1>8. Descends BY <1>1 DEF Descends
<1>9. NoFalseCycle BY DEF Init, NoFalseCycle
<1>10. Registered BY DEF Init, Registered
<1> QED BY <1>2, <1>3, <1>4, <1>5, <1>7, <1>8, <1>9, <1>10 DEF ImportsInv

LEMMA ImportsNext == ImportsInv /\ [Next]_vars => ImportsInv'
<1> SUFFICES ASSUME ImportsInv, [Next]_vars PROVE ImportsInv'
  OBVIOUS
<1>1. ASSUME NEW m \in Mod, MainImports(m) PROVE ImportsInv' BY <1>1, MainImportsStep
<1>2. ASSUME NEW m \in Mod, BodyImports(m) PROVE ImportsInv' BY <1>2, BodyImportsStep
<1>3. CASE FindCached BY <1>3, FindCachedStep
<1>4. CASE FindNew BY <1>4, FindNewStep
<1>5. CASE LoadMissing BY <1>5, LoadMissingStep
<1>6. CASE Load BY <1>6, LoadStep
<1>7. CASE Complete BY <1>7, CompleteStep
<1>8. CASE Fail BY <1>8, FailStep
<1>9. CASE TooDeep BY <1>9, TooDeepStep
<1>10. CASE Unwind BY <1>10, UnwindStep
<1>11. CASE Survive BY <1>11, SurviveStep
<1>12. CASE UNCHANGED vars
  <2>1. UNCHANGED <<deps, file, cache, importStack, calls, raised, submodules, status, got>>
    BY <1>12 DEF vars
  <2>2. Firm' = Firm /\ (NoClash' <=> NoClash) BY <2>1, SameFirm DEF NoClash
  <2>3. Types' /\ Cached' /\ Registered'
    BY <2>1, <2>2, SameFirm DEF ImportsInv, Types, Cached, Registered
  <2>4. Shape' BY <2>1, <2>2 DEF ImportsInv, Shape
  <2>5. Ready' BY <2>1, <2>2 DEF ImportsInv, Ready, Waits, AtTop, Running, Top
  <2>6. Stacked'
    <3>1. Bodies' = Bodies /\ \A i \in Bodies : SameCall(i) BY <2>1 DEF Bodies, SameCall
    <3> QED BY <2>1, <3>1, StackedKept DEF ImportsInv
  <2>7. Descends' BY <2>1, SameGraph DEF ImportsInv, Descends
  <2>8. NoFalseCycle' BY <2>1, <2>2, SameGraph DEF ImportsInv, NoFalseCycle
  <2> QED BY <2>3, <2>4, <2>5, <2>6, <2>7, <2>8 DEF ImportsInv
<1> QED BY <1>1, <1>2, <1>3, <1>4, <1>5, <1>6, <1>7, <1>8, <1>9, <1>10, <1>11, <1>12 DEF Next

\* The inductive invariant of the import calls holds throughout every run.
THEOREM ImportsAlways == Spec => []ImportsInv
  BY ImportsInit, ImportsNext, PTL DEF Spec

-----------------------------------------------------------------------------
(* What it gives. *)

\* However bodies fail and whoever survives it, the import stack lists the keys
\* of the bodies that run and no others, and the body of a module that has its
\* path for a key does not run within itself (StackIsRunning), so that
\* check_import_cycle refuses every cycle through it.
THEOREM StackIsRunningAlways == Spec => []StackIsRunning
<1>1. ImportsInv => StackIsRunning
  <2> SUFFICES ASSUME ImportsInv PROVE StackIsRunning
    OBVIOUS
  <2>1. Types /\ Stacked BY DEF ImportsInv
  <2>2. TypeOK BY <2>1 DEF Types, TypeOK
  <2>3. /\ Len(importStack) = Cardinality(Bodies)
        /\ \A i \in Bodies : importStack[Depth(i)] = Key(calls[i])
    BY <2>1, BodiesAre DEF Stacked, Listed, Place, Depth
  <2>4. ASSUME NEW i \in Bodies, NEW j \in Bodies, calls[i].mod = calls[j].mod,
               Steady(calls[i].mod)
        PROVE  i = j
    <3>1. /\ i \in Nat /\ j \in Nat /\ calls[i].mod \in Firm
          /\ Keys[i] = calls[i].mod /\ Keys[j] = calls[i].mod
      BY <2>1, <2>4, BodiesAre, KeyIs DEF Firm
    <3>2. ~(i < j) /\ ~(j < i) BY <2>1, <2>4, <3>1 DEF Stacked
    <3> QED BY <3>1, <3>2
  <2> QED BY <2>2, <2>3, <2>4 DEF StackIsRunning
<1> QED BY <1>1, ImportsAlways, PTL

\* An import graph without a cycle, the packages of its paths counted in, is
\* never refused for one, whatever failed before, unless an image has the path
\* of another module for its name.
THEOREM NoFalseCycleAlways == Spec => []NoFalseCycle
<1>1. ImportsInv => NoFalseCycle BY DEF ImportsInv
<1> QED BY <1>1, ImportsAlways, PTL

\* An interpreted module whose body has ended is registered with its package.
THEOREM RegisteredAlways == Spec => []Registered
<1>1. ImportsInv => Registered BY DEF ImportsInv
<1> QED BY <1>1, ImportsAlways, PTL

\* The body of a module that has its path for a key is not started twice,
\* whatever is imported again after whatever failure.
THEOREM RunOnceAlways == Spec => RunOnce
<1> DEFINE Once == \A m \in Mod : Steady(m) /\ Len(importStack') > Len(importStack) /\ Top.mod = m
                                    => status[m] = "new"
<1>1. ASSUME ImportsInv, [Next]_vars PROVE [Once]_vars
  <2>1. Types /\ Shape /\ Cached /\ Stacked BY <1>1 DEF ImportsInv
  <2>2. CASE importStack' = importStack
    <3>1. ~(Len(importStack') > Len(importStack)) BY <2>1, <2>2 DEF Types
    <3> QED BY <3>1
  <2>3. ASSUME NEW m \in Mod, MainImports(m) \/ BodyImports(m) PROVE Once
    BY <2>2, <2>3 DEF MainImports, BodyImports
  <2>4. CASE TooDeep \/ FindCached \/ FindNew \/ LoadMissing \/ Fail
    BY <2>2, <2>4 DEF TooDeep, FindCached, FindNew, LoadMissing, Fail
  <2>5. CASE Load
    <3>1. calls # <<>> /\ Top.at = "load" BY <2>5 DEF Load, AtTop, Running
    <3>2. Len(calls) \in 1 .. Len(calls) /\ Top = calls[Len(calls)] /\ Top.mod \in Mod
      BY <2>1, <3>1, Tops
    <3>3. Steady(Top.mod) => status[Top.mod] = "new"
      BY <2>1, <3>1, <3>2 DEF Shape, Cached, Firm
    <3> QED BY <3>3
  <2>6. CASE calls # <<>> /\ Top.at = "run" /\ importStack' = Front(importStack)
    <3>1. Len(calls) \in Bodies BY <2>1, <2>6, Tops DEF Bodies
    <3>2. importStack \in Seq(Name) BY <2>1 DEF Types
    <3>3. importStack # <<>> BY <2>1, <3>1, <3>2, OnStack
    <3>4. Len(importStack') = Len(importStack) - 1 /\ Len(importStack) \in Nat
      BY <2>6, <3>2, <3>3, FrontIs
    <3>5. ~(Len(importStack') > Len(importStack)) BY <3>4
    <3> QED BY <3>5
  <2>7. CASE Complete BY <2>6, <2>7 DEF Complete, AtTop, Running
  <2>8. CASE Unwind \/ Survive
    <3>1. calls # <<>> /\ Leave
      <4>1. calls = <<>> => Len(calls) = 0 OBVIOUS
      <4> QED BY <2>8, <4>1 DEF Unwind, Survive
    <3> QED BY <2>2, <2>6, <3>1 DEF Leave
  <2>9. CASE UNCHANGED vars BY <2>9
  <2> QED BY <1>1, <2>3, <2>4, <2>5, <2>7, <2>8, <2>9 DEF Next
<1>2. RunOnce <=> [][Once]_vars BY DEF RunOnce
<1> QED BY <1>1, <1>2, ImportsAlways, PTL DEF Spec

\* No module that has one key, whatever that is, is handed to an importer while
\* its body is still running.
THEOREM NeverHalfRunAlways == Spec => NeverHalfRun
<1> DEFINE Whole == \A m, n \in Mod : n \in got'[m] \ got[m] /\ OneKey(n) => status'[n] # "running"
<1>1. ASSUME ImportsInv, [Next]_vars PROVE [Whole]_vars
  <2>1. Types /\ Cached /\ Stacked BY <1>1 DEF ImportsInv
  <2>2. ASSUME NEW m \in Mod, MainImports(m) \/ BodyImports(m) PROVE Whole
    BY <2>2 DEF MainImports, BodyImports
  <2>3. CASE FindCached
    <3>1. calls # <<>> /\ status' = status /\ Top.mod \in DOMAIN cache
      BY <2>3 DEF FindCached, AtTop, Running
    <3>2. cache[Top.mod] \in Mod /\ importStack \in Seq(Name) BY <2>1, <3>1 DEF Types
    <3>3. CASE got' = got BY <3>3
    <3>4. CASE ~Cycle(Top.mod) /\ Hand(cache[Top.mod])
      <4>1. \A k \in 1 .. Len(importStack) : importStack[k] # Top.mod
        BY <3>2, <3>4 DEF Cycle, Range
      <4>2. ASSUME NEW n \in Mod, n = cache[Top.mod], OneKey(n) PROVE status[n] # "running"
        <5>1. n \in Lone /\ Top.mod = LoneKey[n] BY <2>1, <3>1, <4>2 DEF Lone, Cached
        <5>2. ASSUME status[n] = "running" PROVE FALSE
          <6>1. PICK i \in Bodies : calls[i].mod = n BY <2>1, <5>2 DEF Stacked
          <6>2. calls[i] \in Call /\ Keys[i] = Key(calls[i]) BY <2>1, <6>1, BodiesAre, KeyIs
          <6>3. Keys[i] = Top.mod BY <5>1, <6>1, <6>2, LoneIs
          <6> QED BY <2>1, <4>1, <6>1, <6>3, OnStack
        <5> QED BY <5>2
      <4>3. \A m, n \in Mod : n \in got'[m] \ got[m] => n = cache[Top.mod]
        BY <2>1, <3>1, <3>2, <3>4, HandIs
      <4> QED BY <3>1, <4>2, <4>3
    <3> QED BY <2>3, <3>3, <3>4 DEF FindCached
  <2>4. CASE Complete
    <3>1. calls # <<>> /\ status' = [status EXCEPT ![Top.mod] = "done"]
      BY <2>4 DEF Complete, AtTop, Running
    <3>2. Top.mod \in Mod /\ status'[Top.mod] = "done" BY <2>1, <3>1, Tops DEF Types
    <3>3. CASE got' = got BY <3>3
    <3>4. CASE Hand(Top.mod)
      <4>1. \A m, n \in Mod : n \in got'[m] \ got[m] => n = Top.mod
        BY <2>1, <3>1, <3>2, <3>4, HandIs
      <4> QED BY <3>2, <4>1
    <3> QED BY <2>4, <3>3, <3>4 DEF Complete
  <2>5. CASE Load
    <3>1. got' = [got EXCEPT ![Top.mod] = {}] BY <2>5 DEF Load
    <3>2. \A m \in Mod : got'[m] \subseteq got[m] BY <2>1, <3>1 DEF Types
    <3> QED BY <3>2
  <2>6. CASE TooDeep \/ FindNew \/ LoadMissing \/ Fail \/ Unwind \/ Survive
    BY <2>6 DEF TooDeep, FindNew, LoadMissing, Fail, Unwind, Survive
  <2>7. CASE UNCHANGED vars BY <2>7
  <2> QED BY <1>1, <2>2, <2>3, <2>4, <2>5, <2>6, <2>7 DEF Next
<1>2. NeverHalfRun <=> [][Whole]_vars BY DEF NeverHalfRun
<1> QED BY <1>1, <1>2, ImportsAlways, PTL DEF Spec
=============================================================================

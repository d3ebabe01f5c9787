---------------------------- MODULE CachesProofs ----------------------------
(***************************************************************************)
(* Theorems about Caches for any set of runs in any modes, any texts and   *)
(* any number of versions of the file.                                     *)
(***************************************************************************)
EXTENDS Caches, SequenceTheorems, TLAPS

Step == {"idle", "read", "fresh", "open", "load", "stat", "parse", "save", "replace",
         "compile", "replace image", "running"}

\* What may be in the caches: whole, from no later time, and of a text that
\* parses.
Kept == [mtime : 0 .. Now, text : (Texts \ Broken) \cup {""}, whole : {TRUE}]

\* The file has the newest version unless an old one was put back, and whoever
\* reads it sees what it holds.
FileInv ==
  /\ written \in Seq(Texts) /\ disk \in 1 .. Now /\ Now <= MaxVersions
  /\ raced \in BOOLEAN /\ restored \in BOOLEAN
  /\ ~restored => disk = Now
  /\ seen \in [Readers -> SUBSET Texts]
  /\ \A r \in Readers : Reading(r) => Text \in seen[r]

\* What a run has read it has seen; images are the business of --vm runs.
RunTyped(r) ==
  /\ pc[r] \in {"fresh", "open", "compile", "replace image"} => Mode[r] = "image"
  /\ Holding(r) => src[r] \in seen[r]
  /\ pc[r] = "save" => tree[r].text = src[r]

RunInv ==
  /\ pc \in [Runs -> Step] /\ src \in [Runs -> Texts \cup {""}]
  /\ tree \in [Runs -> Kept] /\ entry \in [Runs -> Kept]
  /\ ast \in Kept /\ image \in Kept
  /\ \A r \in Runs : RunTyped(r)

\* A tree or image of the text that the file had at the time it is stamped with.
Faithful(kept) ==
  kept # None => kept.mtime \in 1 .. Now /\ kept.text = written[kept.mtime]

\* As long as nothing was raced, what the caches hold is what the file held.
TreeFaithful(r) ==
  /\ Holding(r) => src[r] = Text
  /\ Mode[r] = "image" /\ pc[r] \in {"replace", "compile"} => tree[r].text = Text
  /\ pc[r] \in {"stat", "replace"} => Faithful(entry[r])
  /\ pc[r] \in {"save", "replace", "compile", "replace image"} => tree[r].text \in seen[r]

TreesFaithful == ~raced => Faithful(ast) /\ \A r \in Runs : TreeFaithful(r)

\* The same of images, whose time is only compared with the file's.
ImageFaithful(r) ==
  /\ pc[r] = "replace image" => Faithful(entry[r])
  /\ pc[r] = "open" => image.text \in seen[r]

ImagesFaithful ==
  ~raced /\ ~restored => Faithful(image) /\ \A r \in Runs : ImageFaithful(r)

\* What the server keeps: the table of the buffer's text, the table of the
\* file at a time, and the last table of this session.
ServerInv ==
  /\ document \in Texts \cup {Closed}
  /\ request \in {"none", "read", "look", "complete"}
  /\ stat \in 0 .. Now /\ diskCache.mtime \in 0 .. Now
  /\ docCache.text # Closed => docCache.table = Table(docCache.text)
  /\ ~restored /\ diskCache.mtime = Now => diskCache.table = Table(written[Now])
  /\ lastGood \in session \cup {NoTable}
  /\ IF document = Closed THEN lastGood = NoTable /\ request # "complete"
     ELSE document \in session /\ request # "read"

CachesInv ==
  /\ FileInv /\ RunInv /\ TreesFaithful /\ ImagesFaithful /\ RunsSource
  /\ ServerInv /\ AnswerIsCurrent

-----------------------------------------------------------------------------
(* What a step of a run leaves alone. *)

LEMMA RunFrame ==
  ASSUME RunInv, FileInv, NEW r \in Runs, Run(r)
  PROVE  /\ UNCHANGED <<written, disk, restored, user, server>>
         /\ raced' \in BOOLEAN /\ (raced => raced')
         /\ \A q \in Runs \ {r} : /\ pc'[q] = pc[q] /\ src'[q] = src[q]
                                  /\ tree'[q] = tree[q] /\ entry'[q] = entry[q]
         /\ seen' \in [Readers -> SUBSET Texts]
         /\ \A q \in Readers \ {r} : seen'[q] = seen[q]
<1> USE DEF RunInv, FileInv, To, server
<1>0. r \in Readers /\ Text \in Texts
  <2>1. Text \in Texts BY ElementOfSeq DEF Text, Now
  <2> QED BY <2>1 DEF Readers
<1>1. CASE Start(r) BY <1>0, <1>1 DEF Start
<1>2. CASE Read(r) BY <1>2 DEF Read, file
<1>3. CASE FreshImageFor(r) BY <1>3 DEF FreshImageFor, file
<1>4. CASE RunImageFile(r) BY <1>4 DEF RunImageFile, file
<1>5. CASE OpenEntry(r) BY <1>5 DEF OpenEntry, file
<1>6. CASE Load(r) BY <1>6 DEF Load, file
<1>7. CASE Parse(r) BY <1>7 DEF Parse, file
<1>8. CASE Save(r) BY <1>8 DEF Save, file
<1>9. CASE Replace(r) BY <1>9 DEF Replace, file
<1>10. CASE SaveImage(r) BY <1>10 DEF SaveImage, file
<1>11. CASE ReplaceImage(r) BY <1>11 DEF ReplaceImage
<1>12. CASE End(r) BY <1>0, <1>12 DEF End
<1> QED
  BY <1>1, <1>2, <1>3, <1>4, <1>5, <1>6, <1>7, <1>8, <1>9, <1>10, <1>11, <1>12 DEF Run

\* A run that stands still keeps its part of the invariant, if the file stays
\* as it is or the run holds nothing of it.
LEMMA OtherRun ==
  ASSUME NEW q \in Runs, UNCHANGED <<written, disk>>,
         pc'[q] = pc[q], src'[q] = src[q], tree'[q] = tree[q], entry'[q] = entry[q],
         seen'[q] = seen[q]
  PROVE  /\ RunTyped(q) => RunTyped(q)'
         /\ TreeFaithful(q) => TreeFaithful(q)'
         /\ (pc[q] = "replace image" => Faithful(entry[q])) =>
              (pc[q] = "replace image" => Faithful(entry[q]))'
BY DEF RunTyped, TreeFaithful, Faithful, Holding, Text, Now

-----------------------------------------------------------------------------
(* The file. *)

LEMMA FileStep ==
  ASSUME CachesInv, NEW text \in Texts,
         UNCHANGED <<runs, user, server>>, Changed(text),
         written' \in Seq(Texts), disk' \in 1 .. Len(written'), Len(written') <= MaxVersions,
         written'[disk'] = text,
         Len(written') >= Len(written),
         \A i \in 1 .. Len(written) : written'[i] = written[i],
         restored' \in BOOLEAN, restored => restored',
         ~restored' => disk' = Len(written') /\ Len(written') > Len(written)
  PROVE  CachesInv'
<1>0. written \in Seq(Texts) /\ Len(written) \in Nat /\ Len(written') \in Nat
  BY LenProperties DEF CachesInv, FileInv
<1>1. Text' = text BY DEF Text
<1>2. /\ \A r \in Readers : Reading(r) => seen'[r] = seen[r] \cup {text}
      /\ \A r \in Readers : Reading(r)' <=> Reading(r)
      /\ seen' \in [Readers -> SUBSET Texts]
      /\ raced' \in BOOLEAN /\ (raced => raced')
      /\ ~raced' => ~raced /\ \A r \in Runs : ~Holding(r)
  BY DEF Changed, CachesInv, FileInv, Reading, runs, server
<1>3. FileInv'
  <2>1. \A r \in Readers : Reading(r)' => text \in seen'[r] BY <1>2
  <2>2. ~restored' => disk' = Len(written') OBVIOUS
  <2>3. \A r \in Readers : Reading(r)' => Text' \in seen'[r] BY <1>1, <2>1
  <2>4. disk' \in 1 .. Now' /\ Now' <= MaxVersions /\ (~restored' => disk' = Now')
    BY <2>2 DEF Now
  <2>5. raced' \in BOOLEAN BY <1>2, Zenon
  <2>6. seen' \in [Readers -> SUBSET Texts] BY <1>2
  <2> QED BY <2>3, <2>4, <2>5, <2>6, Zenon DEF FileInv
<1>4. \A r \in Runs : r \in Readers /\ (Reading(r) <=> pc[r] # "idle")
  BY DEF Readers, Reading
<1>5. UNCHANGED <<pc, src, tree, entry, ast, image>> BY DEF runs
<1>6. Kept \subseteq Kept'
  <2>1. 0 .. Len(written) \subseteq 0 .. Len(written') BY <1>0
  <2> QED BY <2>1 DEF Kept, Now
<1>7. \A r \in Runs : Holding(r)' <=> Holding(r) BY <1>5 DEF Holding
<1>8. \A r \in Runs : Holding(r) => pc[r] # "idle" BY DEF Holding
<1>9. RunInv'
  <2>1. \A r \in Runs : RunTyped(r)'
    BY <1>2, <1>4, <1>5, <1>7, <1>8 DEF RunTyped, CachesInv, RunInv
  <2> QED BY <1>5, <1>6, <2>1 DEF CachesInv, RunInv
<1>10. \A kept : Faithful(kept) => Faithful(kept)'
  <2> TAKE kept
  <2>1. 1 .. Len(written) \subseteq 1 .. Len(written') BY <1>0
  <2> QED BY <2>1 DEF Faithful, Now
<1>11. TreesFaithful'
  <2> SUFFICES ASSUME ~raced' PROVE Faithful(ast)' /\ \A r \in Runs : TreeFaithful(r)'
    BY <1>5 DEF TreesFaithful
  <2>1. TreesFaithful /\ ~raced BY <1>2 DEF CachesInv
  <2>2. \A r \in Runs : TreeFaithful(r)'
    <3> SUFFICES ASSUME NEW r \in Runs PROVE TreeFaithful(r)'
      OBVIOUS
    <3>1. TreeFaithful(r) BY <2>1 DEF TreesFaithful
    <3>2. ~Holding(r) /\ ~Holding(r)' BY <1>2, <1>7
    <3>3. ~(Mode[r] = "image" /\ pc[r] \in {"replace", "compile"})
      BY <3>2 DEF Holding
    <3>4. pc[r] # "idle" => seen[r] \subseteq seen'[r] BY <1>2, <1>4
    <3>5. pc[r] \in {"stat", "replace"} => Faithful(entry[r])'
      BY <1>5, <1>10, <3>1 DEF TreeFaithful, Faithful
    <3> QED BY <1>5, <3>1, <3>2, <3>3, <3>4, <3>5 DEF TreeFaithful
  <2>3. Faithful(ast)' BY <1>5, <1>10, <2>1 DEF TreesFaithful, Faithful
  <2> QED BY <2>2, <2>3
<1>12. ImagesFaithful'
  <2> SUFFICES ASSUME ~raced', ~restored'
               PROVE  Faithful(image)' /\ \A r \in Runs : ImageFaithful(r)'
    BY DEF ImagesFaithful
  <2>1. Faithful(image) /\ \A r \in Runs : ImageFaithful(r)
    BY <1>2 DEF CachesInv, ImagesFaithful
  <2>2. Faithful(image)' BY <1>5, <1>10, <2>1 DEF Faithful
  <2>3. \A r \in Runs : pc[r] # "idle" => seen[r] \subseteq seen'[r] BY <1>2, <1>4
  <2>4. \A r \in Runs : pc[r] = "replace image" => Faithful(entry[r])'
    BY <1>5, <1>10, <2>1 DEF ImageFaithful, Faithful
  <2> QED BY <1>5, <2>1, <2>2, <2>3, <2>4 DEF ImageFaithful
<1>13. RunsSource'
  <2>1. \A r \in Runs : pc[r] # "idle" => seen[r] \subseteq seen'[r] BY <1>2, <1>4
  <2> QED BY <1>2, <1>5, <2>1 DEF CachesInv, RunsSource
<1>14. "server" \in Readers /\ (Reading("server") <=> request # "none")
  BY CachesAssumption DEF Readers, Reading
<1>15. ServerInv'
  <2>1. UNCHANGED server OBVIOUS
  <2>2. ~(~restored' /\ diskCache'.mtime = Len(written'))
    BY <1>0, <2>1 DEF server, CachesInv, ServerInv, Now
  <2> QED BY <1>0, <2>1, <2>2 DEF server, CachesInv, ServerInv, Now
<1>16. AnswerIsCurrent'
  <2>1. request # "none" => seen["server"] \subseteq seen'["server"] BY <1>2, <1>14
  <2>2. LastGoodTable' = LastGoodTable BY DEF LastGoodTable, server
  <2> QED BY <2>1, <2>2 DEF CachesInv, AnswerIsCurrent, server
<1> QED BY <1>3, <1>9, <1>11, <1>12, <1>13, <1>15, <1>16 DEF CachesInv

LEMMA EditStep == ASSUME CachesInv, NEW text \in Texts, Edit(text) PROVE CachesInv'
<1>1. /\ Now < MaxVersions /\ written' = Append(written, text) /\ disk' = Now + 1
      /\ Changed(text) /\ UNCHANGED <<restored, runs, user, server>>
  BY DEF Edit
<1>2. /\ written \in Seq(Texts) /\ Len(written) \in Nat /\ restored \in BOOLEAN
  BY LenProperties DEF CachesInv, FileInv
<1>3. /\ written' \in Seq(Texts) /\ Len(written') = Len(written) + 1
      /\ \A i \in 1 .. Len(written) : written'[i] = written[i]
      /\ written'[Len(written) + 1] = text
  BY <1>1, <1>2, AppendProperties
<1>4. /\ Len(written') <= MaxVersions /\ Len(written') >= Len(written)
      /\ Len(written') > Len(written)
      /\ disk' = Len(written') /\ disk' \in 1 .. Len(written') /\ written'[disk'] = text
  <2>1. MaxVersions \in Nat BY CachesAssumption
  <2>2. disk' = Len(written) + 1 /\ Len(written) < MaxVersions BY <1>1 DEF Now
  <2> QED BY <1>2, <1>3, <2>1, <2>2
<1> QED BY <1>1, <1>2, <1>3, <1>4, FileStep

LEMMA RestoreStep ==
  ASSUME CachesInv, NEW version \in 1 .. Now, Restore(version) PROVE CachesInv'
<1>1. /\ disk' = version /\ restored' = TRUE /\ Changed(written[version])
      /\ UNCHANGED <<written, runs, user, server>>
  BY DEF Restore
<1>2. /\ written \in Seq(Texts) /\ Len(written) \in Nat /\ restored \in BOOLEAN
      /\ Len(written) <= MaxVersions
  BY LenProperties DEF CachesInv, FileInv, Now
<1>3. written[version] \in Texts BY <1>2, ElementOfSeq DEF Now
<1> QED BY <1>1, <1>2, <1>3, FileStep DEF Now

-----------------------------------------------------------------------------
(* A run. *)

\* The rest of the invariant once the acting run's own part is known.
LEMMA RunStep ==
  ASSUME CachesInv, NEW r \in Runs, Run(r),
         pc'[r] \in Step, pc' = [pc EXCEPT ![r] = pc'[r]],
         src' \in [Runs -> Texts \cup {""}],
         tree' \in [Runs -> Kept], entry' \in [Runs -> Kept],
         ast' \in {ast, entry[r]}, image' \in {image, entry[r]},
         pc'[r] # "idle" => Text \in seen'[r],
         RunTyped(r)',
         ~raced' => Faithful(ast') /\ TreeFaithful(r)',
         ~raced' /\ ~restored =>
           /\ Faithful(image') /\ ImageFaithful(r)'
           /\ \A q \in Runs \ {r} : pc[q] = "open" => image'.text \in seen[q],
         ~raced' /\ pc'[r] = "running" /\ (Mode[r] = "image" => ~restored) =>
           tree'[r].text \in seen'[r]
  PROVE  CachesInv'
<1>1. /\ UNCHANGED <<written, disk, restored, user, server>>
      /\ raced' \in BOOLEAN /\ (raced => raced')
      /\ \A q \in Runs \ {r} : /\ pc'[q] = pc[q] /\ src'[q] = src[q]
                               /\ tree'[q] = tree[q] /\ entry'[q] = entry[q]
      /\ seen' \in [Readers -> SUBSET Texts]
      /\ \A q \in Readers \ {r} : seen'[q] = seen[q]
  BY RunFrame DEF CachesInv
<1>2. UNCHANGED <<document, docCache, diskCache, lastGood, request, stat, answer, session>>
  BY <1>1 DEF server
<1>3. Text' = Text /\ Now' = Now /\ Kept' = Kept /\ \A kept : Faithful(kept)' = Faithful(kept)
  BY <1>1 DEF Text, Now, Kept, Faithful
<1>4. \A q \in Runs : q \in Readers /\ q # "server"
  BY CachesAssumption DEF Readers
<1>5. \A q \in Readers : q = r \/ (seen'[q] = seen[q] /\ (Reading(q)' <=> Reading(q)))
  BY <1>1, <1>2, <1>4 DEF Reading
<1>6. FileInv'
  <2>1. \A q \in Readers : Reading(q)' => Text \in seen'[q]
    BY <1>5 DEF CachesInv, FileInv, Reading
  <2>2. raced' \in BOOLEAN BY <1>1, Zenon
  <2> QED BY <1>1, <1>3, <2>1, <2>2 DEF CachesInv, FileInv
<1>7. RunInv'
  <2>1. \A q \in Runs \ {r} : RunTyped(q)'
    BY <1>1, <1>4, OtherRun DEF CachesInv, RunInv
  <2>2. pc' \in [Runs -> Step] BY DEF CachesInv, RunInv
  <2>3. ast \in Kept /\ image \in Kept /\ entry[r] \in Kept BY DEF CachesInv, RunInv
  <2> QED BY <1>3, <2>1, <2>2, <2>3 DEF RunInv
<1>8. TreesFaithful'
  <2> SUFFICES ASSUME ~raced' PROVE Faithful(ast') /\ \A q \in Runs : TreeFaithful(q)'
    BY <1>3 DEF TreesFaithful, Faithful
  <2>1. \A q \in Runs \ {r} : TreeFaithful(q)'
    BY <1>1, <1>4, OtherRun DEF CachesInv, TreesFaithful
  <2> QED BY <2>1
<1>9. ImagesFaithful'
  <2> SUFFICES ASSUME ~raced', ~restored
               PROVE  Faithful(image') /\ \A q \in Runs : ImageFaithful(q)'
    BY <1>1, <1>3 DEF ImagesFaithful, Faithful
  <2>1. ASSUME NEW q \in Runs \ {r} PROVE ImageFaithful(q)'
    <3>1. ImageFaithful(q) BY <1>1 DEF CachesInv, ImagesFaithful
    <3>2. pc[q] = "replace image" => Faithful(entry[q])'
      BY <1>1, <1>4, <3>1, OtherRun DEF ImageFaithful
    <3> QED BY <1>1, <1>4, <3>2 DEF ImageFaithful
  <2> QED BY <2>1
<1>10. RunsSource'
  <2> SUFFICES ASSUME ~raced', NEW q \in Runs, pc'[q] = "running",
                      Mode[q] = "image" => ~restored
               PROVE  tree'[q].text \in seen'[q]
    BY <1>1 DEF RunsSource
  <2>1. CASE q # r
    <3>1. ~raced BY <1>1
    <3>2. pc[q] = "running" /\ tree'[q] = tree[q] /\ seen'[q] = seen[q]
      BY <1>1, <1>4, <2>1
    <3> QED BY <3>1, <3>2 DEF CachesInv, RunsSource
  <2> QED BY <2>1
<1>11. ServerInv' BY <1>1, <1>2, <1>3 DEF CachesInv, ServerInv, Now
<1>12. AnswerIsCurrent'
  <2>1. seen'["server"] = seen["server"]
    BY <1>1, <1>4 DEF Readers
  <2>2. LastGoodTable' = LastGoodTable BY <1>2 DEF LastGoodTable
  <2> QED BY <1>1, <1>2, <2>1, <2>2 DEF CachesInv, AnswerIsCurrent
<1> QED BY <1>6, <1>7, <1>8, <1>9, <1>10, <1>11, <1>12 DEF CachesInv

LEMMA KeptMembers ==
  ASSUME FileInv
  PROVE  /\ None \in Kept /\ None.text = "" /\ Now \in Nat /\ disk \in 0 .. Now
         /\ disk \in 1 .. Now /\ Text \in Texts /\ Text = written[disk]
         /\ \A m \in 0 .. Now, text \in (Texts \ Broken) \cup {""} :
              Entry(m, text) \in Kept /\ Entry(m, text).text = text /\ Entry(m, text).mtime = m
<1>1. Now \in Nat /\ disk \in 0 .. Now /\ disk \in 1 .. Now
  BY LenProperties DEF FileInv, Now
<1>2. Text \in Texts BY ElementOfSeq DEF FileInv, Text, Now
<1>3. "" \notin Broken BY CachesAssumption
<1>4. None \in Kept
  <2>1. 0 \in 0 .. Now BY <1>1
  <2> QED BY <1>3, <2>1 DEF None, Kept
<1>5. \A m \in 0 .. Now, text \in (Texts \ Broken) \cup {""} :
        Entry(m, text) \in Kept /\ Entry(m, text).text = text /\ Entry(m, text).mtime = m
  BY DEF Entry, Kept
<1> QED BY <1>1, <1>2, <1>4, <1>5 DEF None, Text

LEMMA ModeType == \A r \in Runs : Mode[r] \in {"script", "module", "image"}
BY CachesAssumption

\* A step that changes nothing in the caches.
LEMMA PlainStep ==
  ASSUME CachesInv, NEW r \in Runs, Run(r), UNCHANGED <<raced, ast, image>>,
         NEW step \in Step, pc' = [pc EXCEPT ![r] = step],
         src' \in [Runs -> Texts \cup {""}],
         tree' \in [Runs -> Kept], entry' \in [Runs -> Kept],
         pc'[r] # "idle" => Text \in seen'[r],
         RunTyped(r)',
         ~raced => TreeFaithful(r)',
         ~raced /\ ~restored => ImageFaithful(r)',
         ~raced /\ step = "running" /\ (Mode[r] = "image" => ~restored) =>
           tree'[r].text \in seen'[r]
  PROVE  CachesInv'
<1>1. ~raced => Faithful(ast) BY DEF CachesInv, TreesFaithful
<1>2. ~raced /\ ~restored =>
        Faithful(image) /\ \A q \in Runs : pc[q] = "open" => image.text \in seen[q]
  BY DEF CachesInv, ImagesFaithful, ImageFaithful
<1>3. pc'[r] = step BY DEF CachesInv, RunInv
<1>4. /\ ~raced' => Faithful(ast') /\ TreeFaithful(r)'
      /\ ~raced' /\ ~restored =>
           /\ Faithful(image') /\ ImageFaithful(r)'
           /\ \A q \in Runs \ {r} : pc[q] = "open" => image'.text \in seen[q]
  BY <1>1, <1>2
<1> QED BY <1>3, <1>4, RunStep

LEMMA StartStep == ASSUME CachesInv, NEW r \in Runs, Start(r) PROVE CachesInv'
<1> DEFINE step == IF Mode[r] = "module" THEN "load" ELSE "read"
<1>1. /\ pc' = [pc EXCEPT ![r] = step]
      /\ seen' = [seen EXCEPT ![r] = {Text}]
      /\ UNCHANGED <<written, disk, raced, restored, src, tree, entry, ast, image>>
  BY DEF Start, To
<1>2. RunInv /\ r \in Readers /\ FileInv BY DEF CachesInv, Readers
<1>3. /\ step \in Step \ {"running"} /\ pc'[r] \in {"load", "read"}
      /\ pc'[r] = "load" => Mode[r] = "module"
      /\ seen'[r] = {Text}
  BY <1>1, <1>2 DEF RunInv, FileInv, Step
<1>4. ~Holding(r)' BY <1>3 DEF Holding
<1>5. RunTyped(r)' BY <1>3, <1>4 DEF RunTyped
<1>6. TreeFaithful(r)' BY <1>3, <1>4 DEF TreeFaithful
<1>7. ImageFaithful(r)' BY <1>3 DEF ImageFaithful
<1>8. Run(r) BY DEF Run
<1> HIDE DEF step
<1> QED BY <1>1, <1>2, <1>3, <1>5, <1>6, <1>7, <1>8, PlainStep DEF RunInv

LEMMA ReadStep == ASSUME CachesInv, NEW r \in Runs, Read(r) PROVE CachesInv'
<1> DEFINE step == CASE Mode[r] = "script" -> "load" [] Mode[r] = "module" -> "parse"
                     [] OTHER -> "fresh"
<1>1. /\ pc[r] = "read" /\ pc' = [pc EXCEPT ![r] = step]
      /\ src' = [src EXCEPT ![r] = Text]
      /\ UNCHANGED <<written, disk, seen, raced, restored, tree, entry, ast, image>>
  BY DEF Read, At, To, file
<1>2. RunInv /\ r \in Readers /\ FileInv BY DEF CachesInv, Readers
<1>3. Text \in Texts /\ Text \in seen[r] /\ Text' = Text
  BY <1>1, <1>2, KeptMembers DEF FileInv, Reading, Text
<1>4. /\ step \in Step /\ pc'[r] = step
      /\ step \in {"load", "parse", "fresh"} /\ (step = "fresh" => Mode[r] = "image")
      /\ src'[r] = Text
  BY <1>1, <1>2, ModeType DEF RunInv, Step
<1> HIDE DEF step
<1>5. RunTyped(r)' BY <1>1, <1>3, <1>4 DEF RunTyped
<1>6. TreeFaithful(r)' BY <1>3, <1>4 DEF TreeFaithful
<1>7. ImageFaithful(r)' BY <1>4 DEF ImageFaithful
<1>8. src' \in [Runs -> Texts \cup {""}] BY <1>1, <1>2, <1>3 DEF RunInv
<1>9. Run(r) BY DEF Run
<1> QED BY <1>1, <1>2, <1>3, <1>4, <1>5, <1>6, <1>7, <1>8, <1>9, PlainStep DEF RunInv

LEMMA FreshImageForStep ==
  ASSUME CachesInv, NEW r \in Runs, FreshImageFor(r) PROVE CachesInv'
<1> DEFINE step == IF Fresh(image) THEN "open" ELSE "load"
<1>1. /\ pc[r] = "fresh" /\ pc' = [pc EXCEPT ![r] = step]
      /\ UNCHANGED <<written, disk, seen, raced, restored, src, tree, entry, ast, image>>
  BY DEF FreshImageFor, At, To, file
<1>2. RunInv /\ r \in Readers /\ FileInv /\ RunTyped(r) BY DEF CachesInv, Readers, RunInv
<1>3. Text \in seen[r] /\ Text' = Text BY <1>1, <1>2 DEF FileInv, Reading, Text
<1>4. /\ step \in Step /\ step \in {"open", "load"} /\ pc'[r] = step /\ Mode[r] = "image"
      /\ step = "open" => Fresh(image)
  BY <1>1, <1>2 DEF RunInv, RunTyped, Step
<1> HIDE DEF step
<1>5. Holding(r) BY <1>1, <1>4 DEF Holding
<1>6. RunTyped(r)' BY <1>1, <1>2, <1>4, <1>5 DEF RunTyped
<1>7. ~raced => TreeFaithful(r)'
  BY <1>1, <1>3, <1>4, <1>5 DEF CachesInv, TreesFaithful, TreeFaithful
<1>8. ~raced /\ ~restored => ImageFaithful(r)'
  <2> SUFFICES ASSUME ~raced, ~restored, step = "open" PROVE image.text \in seen[r]
    BY <1>1, <1>4 DEF ImageFaithful
  <2>1. image # None /\ image.mtime >= disk /\ disk = Now
    BY <1>2, <1>4 DEF Fresh, FileInv
  <2>2. image.mtime \in 1 .. Now /\ image.text = written[image.mtime]
    BY <2>1 DEF CachesInv, ImagesFaithful, Faithful
  <2>3. image.mtime = disk
    <3>1. Now \in Nat BY <1>2, KeptMembers
    <3> QED BY <2>1, <2>2, <3>1
  <2> QED BY <1>3, <2>2, <2>3 DEF Text
<1>9. Run(r) BY DEF Run
<1> QED BY <1>1, <1>2, <1>3, <1>4, <1>6, <1>7, <1>8, <1>9, PlainStep DEF RunInv

LEMMA RunImageFileStep ==
  ASSUME CachesInv, NEW r \in Runs, RunImageFile(r) PROVE CachesInv'
<1>1. /\ pc[r] = "open" /\ pc' = [pc EXCEPT ![r] = "running"]
      /\ tree' = [tree EXCEPT ![r] = image]
      /\ UNCHANGED <<written, disk, seen, raced, restored, src, entry, ast, image>>
  BY DEF RunImageFile, At, To, file
<1>2. RunInv /\ r \in Readers /\ FileInv /\ RunTyped(r) BY DEF CachesInv, Readers, RunInv
<1>3. Text \in seen[r] BY <1>1, <1>2 DEF FileInv, Reading
<1>4. /\ pc'[r] = "running" /\ Mode[r] = "image" /\ tree'[r] = image
      /\ tree' \in [Runs -> Kept] /\ "running" \in Step
  BY <1>1, <1>2 DEF RunInv, RunTyped, Step
<1>5. ~Holding(r)' BY <1>4 DEF Holding
<1>6. RunTyped(r)' BY <1>4, <1>5 DEF RunTyped
<1>7. TreeFaithful(r)' BY <1>4, <1>5 DEF TreeFaithful
<1>8. ImageFaithful(r)' BY <1>4 DEF ImageFaithful
<1>9. ~raced /\ ~restored => image.text \in seen[r]
  BY <1>1 DEF CachesInv, ImagesFaithful, ImageFaithful
<1>10. Run(r) BY DEF Run
<1> QED
  BY <1>1, <1>2, <1>3, <1>4, <1>6, <1>7, <1>8, <1>9, <1>10, PlainStep DEF RunInv

LEMMA OpenEntryStep ==
  ASSUME CachesInv, NEW r \in Runs, OpenEntry(r) PROVE CachesInv'
<1>1. /\ pc[r] = "load" /\ pc' = [pc EXCEPT ![r] = "stat"]
      /\ entry' = [entry EXCEPT ![r] = ast]
      /\ UNCHANGED <<written, disk, seen, raced, restored, src, tree, ast, image>>
  BY DEF OpenEntry, At, To, file
<1>2. RunInv /\ r \in Readers /\ FileInv /\ RunTyped(r) BY DEF CachesInv, Readers, RunInv
<1>3. Text \in seen[r] /\ Text' = Text BY <1>1, <1>2 DEF FileInv, Reading, Text
<1>4. /\ pc'[r] = "stat" /\ entry'[r] = ast
      /\ entry' \in [Runs -> Kept] /\ "stat" \in Step
  BY <1>1, <1>2 DEF RunInv, Step
<1>5. Holding(r)' => Holding(r) BY <1>1, <1>4, ModeType DEF Holding
<1>6. RunTyped(r)' BY <1>1, <1>2, <1>4, <1>5 DEF RunTyped
<1>7. ~raced => TreeFaithful(r)'
  <2>1. ~raced => Faithful(ast) /\ TreeFaithful(r) BY DEF CachesInv, TreesFaithful
  <2>2. ~raced => Faithful(entry[r])' BY <1>1, <1>4, <2>1 DEF Faithful, Now
  <2> QED BY <1>1, <1>3, <1>4, <1>5, <2>1, <2>2 DEF TreeFaithful
<1>8. ImageFaithful(r)' BY <1>4 DEF ImageFaithful
<1>9. Run(r) BY DEF Run
<1> QED
  BY <1>1, <1>2, <1>3, <1>4, <1>6, <1>7, <1>8, <1>9, PlainStep DEF RunInv

LEMMA LoadStep == ASSUME CachesInv, NEW r \in Runs, Load(r) PROVE CachesInv'
<1> DEFINE hit == Hit(entry[r]) /\ entry[r].whole
           step == IF hit THEN Parsed(r)
                   ELSE IF Mode[r] = "module" THEN "read" ELSE "parse"
<1>1. /\ pc[r] = "stat" /\ pc' = [pc EXCEPT ![r] = step]
      /\ tree' = IF hit THEN [tree EXCEPT ![r] = entry[r]] ELSE tree
      /\ entry' = [entry EXCEPT ![r] = None]
      /\ UNCHANGED <<written, disk, seen, raced, restored, src, ast, image>>
  BY DEF Load, At, To, file
<1>2. RunInv /\ r \in Readers /\ FileInv /\ RunTyped(r) BY DEF CachesInv, Readers, RunInv
<1>3. /\ Text \in seen[r] /\ Text' = Text /\ None \in Kept
      /\ disk \in 1 .. Now /\ Text = written[disk]
  BY <1>1, <1>2, KeptMembers DEF FileInv, Reading, Text
<1>4. /\ step \in Step /\ pc'[r] = step /\ step \in {"compile", "running", "read", "parse"}
      /\ step = "compile" => Mode[r] = "image"
      /\ step = "parse" => Mode[r] # "module"
      /\ step \in {"compile", "running"} <=> hit
  BY <1>1, <1>2 DEF RunInv, Parsed, Step
<1>5. hit => entry[r].mtime = disk /\ tree'[r] = entry[r] /\ entry[r] # None
  BY <1>1, <1>2 DEF Hit, RunInv
<1>6. tree' \in [Runs -> Kept] /\ entry' \in [Runs -> Kept] BY <1>1, <1>2, <1>3 DEF RunInv
<1> HIDE DEF hit, step
<1>7. Holding(r)' => Holding(r) BY <1>1, <1>4, ModeType DEF Holding
<1>8. RunTyped(r)' BY <1>1, <1>2, <1>4, <1>7 DEF RunTyped
<1>9. ~raced /\ hit => tree'[r].text = Text
  BY <1>1, <1>3, <1>5 DEF CachesInv, TreesFaithful, TreeFaithful, Faithful
<1>10. ~raced => TreeFaithful(r)'
  <2>1. ~raced => TreeFaithful(r) BY DEF CachesInv, TreesFaithful
  <2> QED BY <1>1, <1>3, <1>4, <1>7, <1>9, <2>1 DEF TreeFaithful
<1>11. ImageFaithful(r)' BY <1>4 DEF ImageFaithful
<1>12. Run(r) BY DEF Run
<1> QED
  BY <1>1, <1>2, <1>3, <1>4, <1>6, <1>8, <1>9, <1>10, <1>11, <1>12, PlainStep DEF RunInv

LEMMA ParseStep == ASSUME CachesInv, NEW r \in Runs, Parse(r) PROVE CachesInv'
<1>1. /\ pc[r] = "parse" /\ src[r] \notin Broken /\ pc' = [pc EXCEPT ![r] = "save"]
      /\ tree' = [tree EXCEPT ![r] = Entry(0, src[r])]
      /\ UNCHANGED <<written, disk, seen, raced, restored, src, entry, ast, image>>
  BY DEF Parse, At, To, file
<1>2. RunInv /\ r \in Readers /\ FileInv /\ RunTyped(r) BY DEF CachesInv, Readers, RunInv
<1>3. Text \in seen[r] /\ Text' = Text BY <1>1, <1>2 DEF FileInv, Reading, Text
<1>4. src[r] \in (Texts \ Broken) \cup {""} /\ 0 \in 0 .. Now
  <2>1. Now \in Nat BY <1>2, KeptMembers
  <2>2. src \in [Runs -> Texts \cup {""}] BY <1>2 DEF RunInv
  <2>3. r \in Runs OBVIOUS
  <2>4. src[r] \in Texts \cup {""} BY <2>2, <2>3
  <2>5. src[r] \in (Texts \ Broken) \cup {""} BY <1>1, <2>4
  <2>6. 0 \in 0 .. Now BY <2>1
  <2> QED BY <2>5, <2>6
<1>5. Entry(0, src[r]) \in Kept /\ Entry(0, src[r]).text = src[r]
  BY <1>2, <1>4, KeptMembers
<1>6. /\ pc'[r] = "save" /\ tree'[r].text = src[r]
      /\ tree' \in [Runs -> Kept] /\ "save" \in Step
  BY <1>1, <1>2, <1>5 DEF RunInv, Step
<1>7. Holding(r) /\ Holding(r)' BY <1>1, <1>6, ModeType DEF Holding
<1>8. RunTyped(r)' BY <1>1, <1>2, <1>6, <1>7 DEF RunTyped
<1>9. ~raced => TreeFaithful(r)'
  <2>1. ~raced => src[r] = Text BY <1>7 DEF CachesInv, TreesFaithful, TreeFaithful
  <2> QED BY <1>1, <1>3, <1>6, <1>7, <2>1 DEF TreeFaithful
<1>10. ImageFaithful(r)' BY <1>6 DEF ImageFaithful
<1>11. Run(r) BY DEF Run
<1> QED
  BY <1>1, <1>2, <1>3, <1>6, <1>8, <1>9, <1>10, <1>11, PlainStep DEF RunInv

LEMMA SaveStep == ASSUME CachesInv, NEW r \in Runs, Save(r) PROVE CachesInv'
<1>1. /\ pc[r] = "save" /\ pc' = [pc EXCEPT ![r] = "replace"]
      /\ entry' = [entry EXCEPT ![r] = Entry(disk, tree[r].text)]
      /\ UNCHANGED <<written, disk, seen, raced, restored, src, tree, ast, image>>
  BY DEF Save, At, To, file
<1>2. RunInv /\ r \in Readers /\ FileInv /\ RunTyped(r) BY DEF CachesInv, Readers, RunInv
<1>3. /\ Text \in seen[r] /\ Text' = Text /\ disk \in 0 .. Now
      /\ disk \in 1 .. Now /\ Text = written[disk]
  BY <1>1, <1>2, KeptMembers DEF FileInv, Reading, Text
<1>4. tree[r].text \in (Texts \ Broken) \cup {""} BY <1>2 DEF RunInv, Kept
<1>5. /\ Entry(disk, tree[r].text) \in Kept
      /\ Entry(disk, tree[r].text).text = tree[r].text /\ Entry(disk, tree[r].text).mtime = disk
  BY <1>2, <1>3, <1>4, KeptMembers
<1>6. /\ pc'[r] = "replace" /\ entry'[r] = Entry(disk, tree[r].text)
      /\ entry' \in [Runs -> Kept] /\ "replace" \in Step
  BY <1>1, <1>2, <1>5 DEF RunInv, Step
<1>7. Holding(r) BY <1>1, ModeType DEF Holding
<1>8. RunTyped(r)' BY <1>1, <1>2, <1>6, <1>7 DEF RunTyped
<1>9. ~raced => TreeFaithful(r)'
  <2>1. ~raced => src[r] = Text /\ tree[r].text = Text
    BY <1>1, <1>2, <1>7 DEF CachesInv, TreesFaithful, TreeFaithful, RunTyped
  <2>2. ~raced => Faithful(entry[r])'
    BY <1>1, <1>3, <1>5, <1>6, <2>1 DEF Faithful, Now
  <2> QED BY <1>1, <1>3, <1>6, <2>1, <2>2 DEF TreeFaithful
<1>10. ImageFaithful(r)' BY <1>6 DEF ImageFaithful
<1>11. Run(r) BY DEF Run
<1> QED
  BY <1>1, <1>2, <1>3, <1>6, <1>8, <1>9, <1>10, <1>11, PlainStep DEF RunInv

LEMMA ReplaceStep == ASSUME CachesInv, NEW r \in Runs, Replace(r) PROVE CachesInv'
<1>1. /\ pc[r] = "replace" /\ pc' = [pc EXCEPT ![r] = Parsed(r)]
      /\ ast' \in {entry[r], ast}
      /\ entry' = [entry EXCEPT ![r] = None]
      /\ UNCHANGED <<written, disk, seen, raced, restored, src, tree, image>>
  BY DEF Replace, At, To, file
<1>2. RunInv /\ r \in Readers /\ FileInv /\ RunTyped(r) BY DEF CachesInv, Readers, RunInv
<1>3. Text \in seen[r] /\ Text' = Text /\ None \in Kept
  BY <1>1, <1>2, KeptMembers DEF FileInv, Reading, Text
<1>4. /\ pc'[r] \in Step /\ pc' = [pc EXCEPT ![r] = pc'[r]]
      /\ pc'[r] = "running" \/ (pc'[r] = "compile" /\ Mode[r] = "image")
      /\ entry' \in [Runs -> Kept]
  BY <1>1, <1>2, <1>3 DEF RunInv, Parsed, Step
<1>5. Holding(r)' => Holding(r) BY <1>1, <1>4, ModeType DEF Holding
<1>6. RunTyped(r)' BY <1>1, <1>2, <1>4, <1>5 DEF RunTyped
<1>7. ~raced => TreeFaithful(r) /\ Faithful(ast) BY DEF CachesInv, TreesFaithful
<1>8. ~raced => Faithful(ast')
  <2>1. ~raced => Faithful(entry[r]) BY <1>1, <1>7 DEF TreeFaithful
  <2> QED BY <1>1, <1>7, <2>1
<1>9. ~raced => TreeFaithful(r)'
  BY <1>1, <1>3, <1>4, <1>5, <1>7 DEF TreeFaithful
<1>10. ImageFaithful(r)' BY <1>4 DEF ImageFaithful
<1>11. ~raced /\ ~restored =>
         /\ Faithful(image')
         /\ \A q \in Runs \ {r} : pc[q] = "open" => image'.text \in seen[q]
  BY <1>1 DEF CachesInv, ImagesFaithful, ImageFaithful
<1>12. ~raced => tree'[r].text \in seen'[r] BY <1>1, <1>7 DEF TreeFaithful
<1>13. Run(r) BY DEF Run
<1> QED
  BY <1>1, <1>2, <1>3, <1>4, <1>6, <1>8, <1>9, <1>10, <1>11, <1>12, <1>13, RunStep DEF RunInv

LEMMA SaveImageStep == ASSUME CachesInv, NEW r \in Runs, SaveImage(r) PROVE CachesInv'
<1>1. /\ pc[r] = "compile" /\ pc' = [pc EXCEPT ![r] = "replace image"]
      /\ entry' = [entry EXCEPT ![r] = Entry(Now, tree[r].text)]
      /\ UNCHANGED <<written, disk, seen, raced, restored, src, tree, ast, image>>
  BY DEF SaveImage, At, To, file
<1>2. RunInv /\ r \in Readers /\ FileInv /\ RunTyped(r) BY DEF CachesInv, Readers, RunInv
<1>3. /\ Text \in seen[r] /\ Text' = Text /\ disk \in 1 .. Now /\ Text = written[disk]
      /\ Now \in 0 .. Now
  <2>1. Now \in Nat BY <1>2, KeptMembers
  <2>2. Now \in 0 .. Now BY <2>1
  <2> QED BY <1>1, <1>2, <2>2, KeptMembers DEF FileInv, Reading, Text
<1>4. tree[r].text \in (Texts \ Broken) \cup {""} BY <1>2 DEF RunInv, Kept
<1>5. /\ Entry(Now, tree[r].text) \in Kept
      /\ Entry(Now, tree[r].text).text = tree[r].text /\ Entry(Now, tree[r].text).mtime = Now
  BY <1>2, <1>3, <1>4, KeptMembers
<1>6. /\ pc'[r] = "replace image" /\ entry'[r] = Entry(Now, tree[r].text)
      /\ entry' \in [Runs -> Kept] /\ "replace image" \in Step /\ Mode[r] = "image"
  BY <1>1, <1>2, <1>5 DEF RunInv, RunTyped, Step
<1>7. ~Holding(r)' BY <1>6 DEF Holding
<1>8. RunTyped(r)' BY <1>6, <1>7 DEF RunTyped
<1>9. ~raced => tree[r].text = Text
  BY <1>1, <1>6 DEF CachesInv, TreesFaithful, TreeFaithful
<1>10. ~raced => TreeFaithful(r)' BY <1>1, <1>3, <1>6, <1>7, <1>9 DEF TreeFaithful
<1>11. ~raced /\ ~restored => ImageFaithful(r)'
  <2>1. ~restored => disk = Now BY <1>2 DEF FileInv
  <2>2. ~raced /\ ~restored => Faithful(entry[r])'
    BY <1>1, <1>3, <1>5, <1>6, <1>9, <2>1 DEF Faithful, Now
  <2> QED BY <1>6, <2>2 DEF ImageFaithful
<1>12. Run(r) BY DEF Run
<1> QED
  BY <1>1, <1>2, <1>3, <1>6, <1>8, <1>10, <1>11, <1>12, PlainStep DEF RunInv

LEMMA ReplaceImageStep ==
  ASSUME CachesInv, NEW r \in Runs, ReplaceImage(r) PROVE CachesInv'
<1>1. /\ pc[r] = "replace image" /\ pc' = [pc EXCEPT ![r] = "running"]
      /\ image' \in {entry[r], image}
      /\ raced' = (raced \/ (image' # image /\ image'.mtime < disk
                               /\ \E q \in Runs : pc[q] = "open"))
      /\ entry' = [entry EXCEPT ![r] = None]
      /\ UNCHANGED <<written, disk, seen, restored, src, tree, ast>>
  BY DEF ReplaceImage, At, To
<1>2. RunInv /\ r \in Readers /\ FileInv /\ RunTyped(r) BY DEF CachesInv, Readers, RunInv
<1>3. /\ Text' = Text /\ None \in Kept /\ Text = written[disk] /\ Now \in Nat
      /\ \A q \in Runs : pc[q] # "idle" => Text \in seen[q]
  BY <1>1, <1>2, KeptMembers DEF FileInv, Reading, Readers, Text
<1>4. /\ pc'[r] = "running" /\ "running" \in Step /\ pc' = [pc EXCEPT ![r] = pc'[r]]
      /\ entry' \in [Runs -> Kept]
  BY <1>1, <1>2, <1>3 DEF RunInv, Step
<1>5. ~Holding(r)' BY <1>4 DEF Holding
<1>6. RunTyped(r)' BY <1>4, <1>5 DEF RunTyped
<1>7. TreeFaithful(r)' BY <1>4, <1>5 DEF TreeFaithful
<1>8. ImageFaithful(r)' BY <1>4 DEF ImageFaithful
<1>9. ~raced' => ~raced BY <1>1
<1>10. ~raced' => Faithful(ast') BY <1>1, <1>9 DEF CachesInv, TreesFaithful
<1>11. ~raced' => tree'[r].text \in seen'[r]
  BY <1>1, <1>9 DEF CachesInv, TreesFaithful, TreeFaithful
<1>12. ASSUME ~raced', ~restored
       PROVE  /\ Faithful(image')
              /\ \A q \in Runs \ {r} : pc[q] = "open" => image'.text \in seen[q]
  <2>1. Faithful(image) /\ \A q \in Runs : ImageFaithful(q)
    BY <1>9, <1>12 DEF CachesInv, ImagesFaithful
  <2>2. Faithful(image') BY <1>1, <2>1 DEF ImageFaithful
  <2>3. ASSUME NEW q \in Runs \ {r}, pc[q] = "open" PROVE image'.text \in seen[q]
    <3>1. CASE image' = image BY <2>1, <2>3, <3>1 DEF ImageFaithful
    <3>2. CASE image' # image
      <4>1. disk = Now /\ ~(image'.mtime < disk)
        BY <1>1, <1>2, <1>12, <2>3, <3>2 DEF FileInv
      <4>2. CASE image' = None
        <5>1. entry[r] = None /\ None.mtime = 0 BY <1>1, <3>2, <4>2 DEF None
        <5>2. disk \in 1 .. Now BY <1>2 DEF FileInv
        <5> QED BY <1>3, <4>1, <4>2, <5>1, <5>2
      <4>3. CASE image' # None
        <5>1. image'.mtime \in 1 .. Now /\ image'.text = written[image'.mtime]
          BY <2>2, <4>3 DEF Faithful
        <5>2. image'.mtime = disk BY <1>3, <4>1, <5>1
        <5> QED BY <1>3, <2>3, <5>1, <5>2
      <4> QED BY <4>2, <4>3
    <3> QED BY <3>1, <3>2
  <2> QED BY <2>2, <2>3
<1>13. Run(r) BY DEF Run
<1> QED
  BY <1>1, <1>2, <1>3, <1>4, <1>6, <1>7, <1>8, <1>10, <1>11, <1>12, <1>13, RunStep
  DEF RunInv

LEMMA EndStep == ASSUME CachesInv, NEW r \in Runs, End(r) PROVE CachesInv'
<1>1. /\ pc' = [pc EXCEPT ![r] = "idle"] /\ src' = [src EXCEPT ![r] = ""]
      /\ tree' = [tree EXCEPT ![r] = None] /\ entry' = [entry EXCEPT ![r] = None]
      /\ UNCHANGED <<written, disk, raced, restored, ast, image>>
  BY DEF End, To
<1>2. RunInv /\ FileInv BY DEF CachesInv
<1>3. /\ pc'[r] = "idle" /\ "idle" \in Step /\ None \in Kept
      /\ src' \in [Runs -> Texts \cup {""}]
      /\ tree' \in [Runs -> Kept] /\ entry' \in [Runs -> Kept]
  BY <1>1, <1>2, KeptMembers DEF RunInv, Step
<1>4. ~Holding(r)' BY <1>3 DEF Holding
<1>5. RunTyped(r)' BY <1>3, <1>4 DEF RunTyped
<1>6. TreeFaithful(r)' BY <1>3, <1>4 DEF TreeFaithful
<1>7. ImageFaithful(r)' BY <1>3 DEF ImageFaithful
<1>8. Run(r) BY DEF Run
<1> QED BY <1>1, <1>3, <1>5, <1>6, <1>7, <1>8, PlainStep

LEMMA RunsStep == ASSUME CachesInv, NEW r \in Runs, Run(r) PROVE CachesInv'
BY StartStep, ReadStep, FreshImageForStep, RunImageFileStep, OpenEntryStep, LoadStep,
   ParseStep, SaveStep, ReplaceStep, SaveImageStep, ReplaceImageStep, EndStep DEF Run

-----------------------------------------------------------------------------
(* The language server. *)

\* Nothing the server does concerns the runs.
LEMMA ServeKeepsRuns ==
  ASSUME CachesInv, UNCHANGED <<written, disk, raced, restored, runs>>,
         seen' = seen \/ \E texts \in SUBSET Texts : seen' = [seen EXCEPT !["server"] = texts],
         request' # "none" => Text \in seen'["server"]
  PROVE  FileInv' /\ RunInv' /\ TreesFaithful' /\ ImagesFaithful' /\ RunsSource'
<1>1. FileInv /\ RunInv /\ TreesFaithful /\ ImagesFaithful /\ RunsSource BY DEF CachesInv
<1>2. /\ "server" \in Readers /\ "server" \notin Runs
      /\ \A q \in Readers : q = "server" \/ q \in Runs
      /\ Runs \subseteq Readers
  BY CachesAssumption DEF Readers
<1>3. /\ seen' \in [Readers -> SUBSET Texts]
      /\ \A q \in Runs : seen'[q] = seen[q]
  BY <1>1, <1>2 DEF FileInv
<1>4. UNCHANGED <<pc, src, tree, entry, ast, image>> BY DEF runs
<1>5. Text' = Text /\ Now' = Now /\ Kept' = Kept /\ \A kept : Faithful(kept)' = Faithful(kept)
  BY DEF Text, Now, Kept, Faithful
<1>6. FileInv'
  <2>1. \A q \in Readers : Reading(q)' => Text \in seen'[q]
    BY <1>1, <1>2, <1>3, <1>4 DEF FileInv, Reading
  <2> QED BY <1>1, <1>3, <1>5, <2>1 DEF FileInv
<1>7. \A q \in Runs :
        /\ RunTyped(q) => RunTyped(q)'
        /\ TreeFaithful(q) => TreeFaithful(q)'
        /\ ImageFaithful(q) => ImageFaithful(q)'
  <2> TAKE q \in Runs
  <2>1. /\ RunTyped(q) => RunTyped(q)'
        /\ TreeFaithful(q) => TreeFaithful(q)'
        /\ (pc[q] = "replace image" => Faithful(entry[q])) =>
             (pc[q] = "replace image" => Faithful(entry[q]))'
    BY <1>3, <1>4, OtherRun
  <2> QED BY <1>3, <1>4, <2>1 DEF ImageFaithful
<1>8. RunInv' BY <1>1, <1>4, <1>5, <1>7 DEF RunInv
<1>9. TreesFaithful' BY <1>1, <1>4, <1>5, <1>7 DEF TreesFaithful, Faithful
<1>10. ImagesFaithful' BY <1>1, <1>4, <1>5, <1>7 DEF ImagesFaithful, Faithful
<1>11. RunsSource' BY <1>1, <1>3, <1>4 DEF RunsSource
<1> QED BY <1>6, <1>8, <1>9, <1>10, <1>11

LEMMA SetDocumentStep ==
  ASSUME CachesInv, NEW text \in Texts, SetDocument(text) PROVE CachesInv'
<1>1. /\ request = "none" /\ document' = text
      /\ session' = IF document = Closed THEN {text} ELSE session \cup {text}
      /\ UNCHANGED <<written, disk, seen, raced, restored, runs>>
      /\ UNCHANGED <<docCache, diskCache, lastGood, request, stat, answer>>
  BY DEF SetDocument, Idle, Handled, file
<1>2. FileInv' /\ RunInv' /\ TreesFaithful' /\ ImagesFaithful' /\ RunsSource'
  BY <1>1, ServeKeepsRuns
<1>3. ServerInv'
  <2>1. text # Closed BY CachesAssumption DEF Closed
  <2>2. ServerInv BY DEF CachesInv
  <2>3. lastGood \in session' \cup {NoTable} BY <1>1, <2>2 DEF ServerInv
  <2> QED BY <1>1, <2>1, <2>2, <2>3 DEF ServerInv, Now
<1>4. AnswerIsCurrent' BY <1>1 DEF AnswerIsCurrent
<1> QED BY <1>2, <1>3, <1>4 DEF CachesInv

LEMMA ForgetDocumentStep == CachesInv /\ ForgetDocument => CachesInv'
<1> SUFFICES ASSUME CachesInv, ForgetDocument PROVE CachesInv'
  OBVIOUS
<1>1. /\ request = "none" /\ document' = Closed /\ lastGood' = NoTable
      /\ docCache' = [text |-> Closed, table |-> NoTable]
      /\ UNCHANGED <<written, disk, seen, raced, restored, runs>>
      /\ UNCHANGED <<diskCache, request, stat, answer, session>>
  BY DEF ForgetDocument, Idle, Handled, file
<1>2. FileInv' /\ RunInv' /\ TreesFaithful' /\ ImagesFaithful' /\ RunsSource'
  BY <1>1, ServeKeepsRuns
<1>3. ServerInv' BY <1>1 DEF CachesInv, ServerInv, Now
<1>4. AnswerIsCurrent' BY <1>1 DEF AnswerIsCurrent
<1> QED BY <1>2, <1>3, <1>4 DEF CachesInv

LEMMA TableForPathStep ==
  ASSUME CachesInv, NEW kind \in {"look", "complete"}, TableForPath(kind)
  PROVE  CachesInv'
<1>1. /\ request = "none" /\ (kind = "complete" => document # Closed)
      /\ seen' = [seen EXCEPT !["server"] = {Text}]
      /\ UNCHANGED <<written, disk, raced, restored, runs, document, lastGood, session>>
  BY DEF TableForPath, Idle
<1>2. ServerInv /\ FileInv BY DEF CachesInv
<1>3. /\ Text \in Texts /\ Text = written[disk] /\ disk \in 0 .. Now /\ Now \in Nat
      /\ ~restored => disk = Now
  BY <1>2, KeptMembers DEF FileInv
<1>4. seen'["server"] = {Text} BY <1>1, <1>2, CachesAssumption DEF FileInv, Readers
<1>5. FileInv' /\ RunInv' /\ TreesFaithful' /\ ImagesFaithful' /\ RunsSource'
  BY <1>1, <1>3, <1>4, ServeKeepsRuns
<1>6. CASE document # Closed
  <2>1. /\ docCache' = [text |-> document, table |-> Table(document)]
        /\ request' = kind /\ answer' = Table(document) /\ UNCHANGED <<diskCache, stat>>
    BY <1>1, <1>2, <1>6 DEF TableForPath, ServerInv
  <2>2. ServerInv' BY <1>1, <1>2, <1>6, <2>1 DEF ServerInv, Now
  <2>3. document \in session /\ lastGood \in session \cup {NoTable}
    BY <1>2, <1>6 DEF ServerInv
  <2>4. Table(document) \in {document, NoTable} BY DEF Table
  <2>5. LastGoodTable' \in session \cup {NoTable}
    BY <1>1, <2>1, <2>3, <2>4 DEF LastGoodTable
  <2>6. AnswerIsCurrent' BY <1>1, <1>6, <2>1, <2>5 DEF AnswerIsCurrent
  <2> QED BY <1>5, <2>2, <2>6 DEF CachesInv
<1>7. CASE document = Closed
  <2>1. /\ stat' = disk /\ UNCHANGED <<docCache, diskCache>>
        /\ IF diskCache.mtime = disk
           THEN request' = kind /\ answer' = diskCache.table
           ELSE request' = "read" /\ UNCHANGED answer
        /\ kind = "look"
    BY <1>1, <1>7 DEF TableForPath
  <2>2. ServerInv' BY <1>1, <1>2, <1>3, <1>7, <2>1 DEF ServerInv, Now
  <2>3. ASSUME diskCache.mtime = disk, ~restored PROVE answer' = Table(Text)
    BY <1>2, <1>3, <2>1, <2>3 DEF ServerInv
  <2>4. AnswerIsCurrent' BY <1>1, <1>4, <1>7, <2>1, <2>3 DEF AnswerIsCurrent
  <2> QED BY <1>5, <2>2, <2>4 DEF CachesInv
<1> QED BY <1>6, <1>7

LEMMA ReadTableStep == CachesInv /\ ReadTable => CachesInv'
<1> SUFFICES ASSUME CachesInv, ReadTable PROVE CachesInv'
  OBVIOUS
<1>1. /\ request = "read" /\ diskCache' = [mtime |-> stat, table |-> Table(Text)]
      /\ answer' = Table(Text) /\ request' = "look"
      /\ UNCHANGED <<written, disk, seen, raced, restored, runs>>
      /\ UNCHANGED <<document, docCache, lastGood, stat, session>>
  BY DEF ReadTable, Handled, file
<1>2. ServerInv /\ FileInv BY DEF CachesInv
<1>3. /\ "server" \in Readers /\ Reading("server")
  BY <1>1, CachesAssumption DEF Readers, Reading
<1>4. Text \in seen["server"] /\ (~restored => Text = written[Now])
  BY <1>2, <1>3 DEF FileInv, Text
<1>5. FileInv' /\ RunInv' /\ TreesFaithful' /\ ImagesFaithful' /\ RunsSource'
  BY <1>1, <1>4, ServeKeepsRuns
<1>6. document = Closed BY <1>1, <1>2 DEF ServerInv
<1>7. ServerInv' BY <1>1, <1>2, <1>4 DEF ServerInv, Now
<1>8. AnswerIsCurrent' BY <1>1, <1>4, <1>6 DEF AnswerIsCurrent
<1> QED BY <1>5, <1>7, <1>8 DEF CachesInv

LEMMA AnswerStep == CachesInv /\ Answer => CachesInv'
<1> SUFFICES ASSUME CachesInv, Answer PROVE CachesInv'
  OBVIOUS
<1>1. /\ request \in {"look", "complete"} /\ request' = "none"
      /\ lastGood' = IF request = "complete" THEN LastGoodTable ELSE lastGood
      /\ seen' = [seen EXCEPT !["server"] = {}]
      /\ UNCHANGED <<written, disk, raced, restored, runs>>
      /\ UNCHANGED <<document, docCache, diskCache, stat, session>>
  BY DEF Answer
<1>2. ServerInv /\ AnswerIsCurrent BY DEF CachesInv
<1>3. FileInv' /\ RunInv' /\ TreesFaithful' /\ ImagesFaithful' /\ RunsSource'
  BY <1>1, ServeKeepsRuns
<1>4. lastGood' \in session \cup {NoTable} /\ (document = Closed => lastGood' = NoTable)
  BY <1>1, <1>2 DEF ServerInv, AnswerIsCurrent
<1>5. ServerInv' BY <1>1, <1>2, <1>4 DEF ServerInv, Now
<1>6. AnswerIsCurrent' BY <1>1 DEF AnswerIsCurrent
<1> QED BY <1>3, <1>5, <1>6 DEF CachesInv

-----------------------------------------------------------------------------
(* The theorems. *)

LEMMA CachesInit == Init => CachesInv
<1> SUFFICES ASSUME Init PROVE CachesInv
  OBVIOUS
<1>1. PICK text \in Texts : written = <<text>> /\ disk = 1 BY DEF Init
<1>2. Now = 1 /\ written \in Seq(Texts) /\ Text = text BY <1>1 DEF Now, Text
<1>3. FileInv
  <2>1. 1 <= MaxVersions
    <3>1. MaxVersions \in Nat \ {0} BY CachesAssumption
    <3> QED BY <3>1
  <2>2. \A r \in Readers : ~Reading(r) BY DEF Init, Readers, Reading
  <2>3. raced \in BOOLEAN /\ restored \in BOOLEAN BY DEF Init
  <2>4. seen \in [Readers -> SUBSET Texts] BY DEF Init
  <2> QED BY <1>1, <1>2, <2>1, <2>2, <2>3, <2>4 DEF FileInv
<1>4. None \in Kept BY <1>3, KeptMembers
<1>5. \A r \in Runs : pc[r] = "idle" /\ ~Holding(r) BY DEF Init, Holding
<1>6. RunInv
  <2>1. \A r \in Runs : RunTyped(r) BY <1>5 DEF RunTyped
  <2> QED BY <1>4, <2>1 DEF Init, RunInv, Step
<1>7. TreesFaithful BY <1>5 DEF Init, TreesFaithful, TreeFaithful, Faithful
<1>8. ImagesFaithful BY <1>5 DEF Init, ImagesFaithful, ImageFaithful, Faithful
<1>9. RunsSource BY <1>5 DEF RunsSource
<1>10. ServerInv
  <2>1. /\ document = Closed /\ docCache.text = Closed /\ lastGood = NoTable
        /\ diskCache.mtime = 0 /\ stat = 0 /\ request = "none"
    BY DEF Init
  <2>2. 0 \in 0 .. Now /\ 0 # Now BY <1>2
  <2> QED BY <2>1, <2>2 DEF ServerInv
<1>11. AnswerIsCurrent BY DEF Init, AnswerIsCurrent
<1> QED BY <1>3, <1>6, <1>7, <1>8, <1>9, <1>10, <1>11 DEF CachesInv

LEMMA CachesStep == CachesInv /\ [Next]_vars => CachesInv'
<1> SUFFICES ASSUME CachesInv, [Next]_vars PROVE CachesInv'
  OBVIOUS
<1>1. CASE UNCHANGED vars
  <2>1. /\ UNCHANGED <<written, disk, seen, raced, restored, runs>>
        /\ UNCHANGED <<document, docCache, diskCache, lastGood, request, stat, answer, session>>
    BY <1>1 DEF vars, file, server
  <2>2. request # "none" => Text \in seen["server"]
    BY CachesAssumption DEF CachesInv, FileInv, Readers, Reading
  <2>3. FileInv' /\ RunInv' /\ TreesFaithful' /\ ImagesFaithful' /\ RunsSource'
    BY <2>1, <2>2, ServeKeepsRuns
  <2>4. ServerInv' /\ AnswerIsCurrent'
    BY <2>1 DEF CachesInv, ServerInv, AnswerIsCurrent, LastGoodTable, Now
  <2> QED BY <2>3, <2>4 DEF CachesInv
<1>2. CASE \E text \in Texts : Edit(text) BY <1>2, EditStep
<1>3. CASE \E version \in 1 .. Now : Restore(version) BY <1>3, RestoreStep
<1>4. CASE \E r \in Runs : Run(r) BY <1>4, RunsStep
<1>5. CASE Serve
  BY <1>5, SetDocumentStep, ForgetDocumentStep, TableForPathStep, ReadTableStep, AnswerStep
  DEF Serve
<1> QED BY <1>1, <1>2, <1>3, <1>4, <1>5 DEF Next

\* The invariant holds in every reachable state.
THEOREM CachesAlways == Spec => []CachesInv
BY CachesInit, CachesStep, PTL DEF Spec

\* cache.py: whatever a run executes, the file held it while it ran, unless
\* it changed between being read and being stamped, or an image gave way to an
\* older one between being looked at and being opened.
THEOREM RunsSourceAlways == Spec => []RunsSource
<1>1. CachesInv => RunsSource BY DEF CachesInv
<1> QED BY <1>1, CachesAlways, PTL

\* save, save_image: what is in the caches is complete and parses, wherever
\* runs are killed and whichever of their saves fail.
THEOREM WholeFilesAlways == Spec => []WholeFiles
<1>1. CachesInv => WholeFiles
  <2> SUFFICES ASSUME CachesInv PROVE WholeFiles
    OBVIOUS
  <2>1. FileInv /\ RunInv /\ ServerInv BY DEF CachesInv
  <2>2. \A kept \in Kept : /\ kept.mtime \in 0 .. Now /\ kept.text \in Texts \cup {""}
                           /\ kept.whole /\ kept.text \notin Broken
    BY CachesAssumption DEF Kept
  <2>3. TypeOK BY <2>1, <2>2 DEF FileInv, RunInv, ServerInv, Step, TypeOK
  <2> QED BY <2>1, <2>2, <2>3 DEF RunInv, WholeFiles
<1> QED BY <1>1, CachesAlways, PTL

\* symbol_index.py: an answer of the language server is about the open
\* document or about what the file holds while the server is asked.
THEOREM AnswerIsCurrentAlways == Spec => []AnswerIsCurrent
<1>1. CachesInv => AnswerIsCurrent BY DEF CachesInv
<1> QED BY <1>1, CachesAlways, PTL
=============================================================================

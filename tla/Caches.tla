------------------------------- MODULE Caches -------------------------------
(***************************************************************************)
(* What is kept of a source file between uses of it: the parsed trees and  *)
(* the images that runs of the interpreter leave in `__wycache__`          *)
(* (cache.py, cli.main, import_module), and the tables the language server *)
(* keeps in memory (symbol_index.py).  Runs and the server read the file   *)
(* and its time in separate steps, between which others write.             *)
(***************************************************************************)
EXTENDS Naturals, Sequences, FiniteSets

CONSTANTS Runs,         \* processes; each runs the file again and again
          Mode,         \* run -> "script", "module" (imported) or "image" (--vm)
          Texts,        \* what the file may hold ("": no text was read yet)
          Broken,       \* those that do not parse
          MaxVersions   \* bound: how often the file is written

ASSUME CachesAssumption ==
    /\ Mode \in [Runs -> {"script", "module", "image"}]
    /\ Broken \subseteq Texts /\ "" \notin Texts /\ "server" \notin Runs
    /\ MaxVersions \in Nat \ {0}

VARIABLES written,    \* the text of each version; a version's number is its mtime
          disk,       \* the version the file has
          seen,       \* reader -> the texts the file had since it began
          raced,      \* has the file changed under a run that is to save what it read,
                      \* or its image under one that has found it to be fresh?
          restored,   \* has an old version been put back, with its mtime?
          pc, src, tree, entry,   \* per run: step, text read, tree to run, file opened or written
          ast, image,             \* the files in the cache
          user,                   \* who uses the file: the runs or the server
          document,               \* the server: the open buffer's text, if any
          docCache, diskCache, lastGood,
          request, stat, answer,  \* the request under way
          session                 \* the texts of the buffer since it was opened
file    == <<written, disk, seen, raced, restored>>
runs    == <<pc, src, tree, entry, ast, image>>
server  == <<document, docCache, diskCache, lastGood, request, stat, answer, session>>
vars    == <<file, runs, user, server>>

None == [mtime |-> 0, text |-> "", whole |-> TRUE]
Readers == Runs \cup {"server"}
Now == Len(written)
Text == written[disk]
Entry(mtime, text) == [mtime |-> mtime, text |-> text, whole |-> TRUE]

-----------------------------------------------------------------------------
(***************************************************************************)
(* The file, written by an editor, a version control system, a backup.     *)
(***************************************************************************)
\* From reading the source to the time at which the file saved is stamped.
Holding(r) ==
    pc[r] \in CASE Mode[r] = "module" -> {"parse", "save"}
                [] Mode[r] = "script" -> {"load", "stat", "parse", "save"}
                [] OTHER -> {"fresh", "load", "stat", "parse", "save", "replace", "compile"}
Reading(r) == IF r \in Runs THEN pc[r] # "idle" ELSE request # "none"
Changed(text) ==
    /\ seen' = [r \in Readers |-> IF Reading(r) THEN seen[r] \cup {text} ELSE {}]
    /\ raced' = (raced \/ \E r \in Runs : Holding(r))
Edit(text) ==
    /\ Now < MaxVersions /\ text # Text
    /\ written' = Append(written, text) /\ disk' = Now + 1
    /\ Changed(text)
    /\ UNCHANGED <<restored, runs, user, server>>
Restore(version) ==
    /\ version # disk
    /\ disk' = version /\ restored' = TRUE
    /\ Changed(written[version])
    /\ UNCHANGED <<written, runs, user, server>>

-----------------------------------------------------------------------------
(***************************************************************************)
(* A run.                                                                  *)
(***************************************************************************)
At(r, step) == user = "runs" /\ pc[r] = step
To(r, step) == pc' = [pc EXCEPT ![r] = step]

Start(r) ==
    /\ At(r, "idle")
    /\ To(r, IF Mode[r] = "module" THEN "load" ELSE "read")
    /\ seen' = [seen EXCEPT ![r] = {Text}]
    /\ UNCHANGED <<written, disk, raced, restored, src, tree, entry, ast, image, user, server>>

Read(r) ==
    /\ At(r, "read")
    /\ src' = [src EXCEPT ![r] = Text]
    /\ To(r, CASE Mode[r] = "script" -> "load" [] Mode[r] = "module" -> "parse" [] OTHER -> "fresh")
    /\ UNCHANGED <<file, tree, entry, ast, image, user, server>>

\* Wrong: a tree that is not older than the file.
BadHit(kept) == kept # None /\ kept.mtime >= disk
Fresh(kept) == kept # None /\ kept.mtime >= disk
Hit(kept) == kept # None /\ kept.mtime = disk

\* --vm: an image not older than its source is run; it is opened later.
FreshImageFor(r) ==
    /\ At(r, "fresh")
    /\ To(r, IF Fresh(image) THEN "open" ELSE "load")
    /\ UNCHANGED <<file, src, tree, entry, ast, image, user, server>>
RunImageFile(r) ==
    /\ At(r, "open")
    /\ tree' = [tree EXCEPT ![r] = image]
    /\ To(r, "running")
    /\ UNCHANGED <<file, src, entry, ast, image, user, server>>

\* load: the entry, then the file's mtime, which must be the entry's.
OpenEntry(r) ==
    /\ At(r, "load")
    /\ entry' = [entry EXCEPT ![r] = ast]
    /\ To(r, "stat")
    /\ UNCHANGED <<file, src, tree, ast, image, user, server>>
Parsed(r) == IF Mode[r] = "image" THEN "compile" ELSE "running"
Load(r) ==
    /\ At(r, "stat")
    /\ IF Hit(entry[r]) /\ entry[r].whole
       THEN tree' = [tree EXCEPT ![r] = entry[r]] /\ To(r, Parsed(r))
       ELSE UNCHANGED tree /\ To(r, IF Mode[r] = "module" THEN "read" ELSE "parse")
    /\ entry' = [entry EXCEPT ![r] = None]
    /\ UNCHANGED <<file, src, ast, image, user, server>>

\* A syntax error ends the run (End), and nothing is saved.
Parse(r) ==
    /\ At(r, "parse") /\ src[r] \notin Broken
    /\ tree' = [tree EXCEPT ![r] = Entry(0, src[r])]
    /\ To(r, "save")
    /\ UNCHANGED <<file, src, entry, ast, image, user, server>>

\* save: the tree with the file's mtime, in a file of the run's own, which
\* then replaces the cache's.  A save that fails is passed over.
Save(r) ==
    /\ At(r, "save")
    /\ entry' = [entry EXCEPT ![r] = Entry(disk, tree[r].text)]
    /\ To(r, "replace")
    /\ UNCHANGED <<file, src, tree, ast, image, user, server>>
Replace(r) ==
    /\ At(r, "replace")
    /\ ast' \in {entry[r], ast}
    /\ entry' = [entry EXCEPT ![r] = None]
    /\ To(r, Parsed(r))
    /\ UNCHANGED <<file, src, tree, image, user, server>>

\* Wrong: the image is written where others read it.
BadSaveImage(r) ==
    /\ At(r, "compile")
    /\ entry' = [entry EXCEPT ![r] = Entry(Now, tree[r].text)]
    /\ image' = [Entry(Now, tree[r].text) EXCEPT !.whole = FALSE]
    /\ To(r, "replace image")
    /\ UNCHANGED <<file, src, tree, ast, user, server>>
\* The image is stamped with the time at which it is written.  One written
\* before the file changed may take the place of the image that another run
\* has found to be fresh and is about to open.
SaveImage(r) ==
    /\ At(r, "compile")
    /\ entry' = [entry EXCEPT ![r] = Entry(Now, tree[r].text)]
    /\ To(r, "replace image")
    /\ UNCHANGED <<file, src, tree, ast, image, user, server>>
ReplaceImage(r) ==
    /\ At(r, "replace image")
    /\ image' \in {entry[r], image}
    /\ raced' = (raced \/ (image' # image /\ image'.mtime < disk
                             /\ \E q \in Runs : pc[q] = "open"))
    /\ entry' = [entry EXCEPT ![r] = None]
    /\ To(r, "running")
    /\ UNCHANGED <<written, disk, seen, restored, src, tree, ast, user, server>>

\* The run ends, or is killed anywhere.
End(r) ==
    /\ user = "runs" /\ pc[r] # "idle"
    /\ To(r, "idle")
    /\ src' = [src EXCEPT ![r] = ""]
    /\ tree' = [tree EXCEPT ![r] = None] /\ entry' = [entry EXCEPT ![r] = None]
    /\ seen' = [seen EXCEPT ![r] = {}]
    /\ UNCHANGED <<written, disk, raced, restored, ast, image, user, server>>

Run(r) == \/ Start(r) \/ Read(r) \/ FreshImageFor(r) \/ RunImageFile(r) \/ OpenEntry(r) \/ Load(r)
          \/ Parse(r) \/ Save(r) \/ Replace(r) \/ SaveImage(r) \/ ReplaceImage(r) \/ End(r)

-----------------------------------------------------------------------------
(***************************************************************************)
(* The language server, which handles one message at a time.               *)
(***************************************************************************)
Closed == ""
NoTable == ""
Table(text) == IF text \in Broken THEN NoTable ELSE text
Idle == user = "server" /\ request = "none"
Handled == UNCHANGED <<file, runs, user>>

\* didOpen, didChange: the buffer's text is the document's.
SetDocument(text) ==
    /\ Idle /\ text # document
    /\ document # Closed \/ text = Text
    /\ document' = text
    /\ session' = IF document = Closed THEN {text} ELSE session \cup {text}
    /\ Handled /\ UNCHANGED <<docCache, diskCache, lastGood, request, stat, answer>>
ForgetDocument ==
    /\ Idle /\ document # Closed
    /\ document' = Closed /\ docCache' = [text |-> Closed, table |-> NoTable] /\ lastGood' = NoTable
    /\ Handled /\ UNCHANGED <<diskCache, request, stat, answer, session>>

\* A request that needs the file's table: that of the open document, that read
\* from disk when the file had the mtime it has now, or it is read.
TableForPath(kind) ==
    /\ Idle /\ (kind = "complete" => document # Closed)
    /\ seen' = [seen EXCEPT !["server"] = {Text}]
    /\ IF document # Closed
       THEN LET table == IF docCache.text = document THEN docCache.table ELSE Table(document)
            IN  /\ docCache' = [text |-> document, table |-> table]
                /\ request' = kind /\ answer' = table /\ UNCHANGED <<diskCache, stat>>
       ELSE /\ stat' = disk
            /\ IF diskCache.mtime = disk
               THEN request' = kind /\ answer' = diskCache.table
               ELSE request' = "read" /\ UNCHANGED answer
            /\ UNCHANGED <<docCache, diskCache>>
    /\ UNCHANGED <<written, disk, raced, restored, runs, user, document, lastGood, session>>
\* Wrong: the table is kept with the mtime of an edit that came while reading.
BadReadTable ==
    /\ user = "server" /\ request = "read"
    /\ diskCache' = [mtime |-> disk, table |-> Table(written[stat])]
    /\ answer' = Table(written[stat]) /\ request' = "look"
    /\ Handled /\ UNCHANGED <<document, docCache, lastGood, stat, session>>
ReadTable ==
    /\ user = "server" /\ request = "read"
    /\ diskCache' = [mtime |-> stat, table |-> Table(Text)]
    /\ answer' = Table(Text) /\ request' = "look"
    /\ Handled /\ UNCHANGED <<document, docCache, lastGood, stat, session>>
\* A completion of a document that does not parse is given the last that did.
LastGoodTable == IF answer # NoTable THEN answer ELSE lastGood
Answer ==
    /\ user = "server" /\ request \in {"look", "complete"}
    /\ request' = "none" /\ answer' = NoTable
    /\ lastGood' = IF request = "complete" THEN LastGoodTable ELSE lastGood
    /\ seen' = [seen EXCEPT !["server"] = {}]
    /\ UNCHANGED <<written, disk, raced, restored, runs, user>>
    /\ UNCHANGED <<document, docCache, diskCache, stat, session>>

Serve == \/ \E text \in Texts : SetDocument(text)
         \/ ForgetDocument \/ ReadTable \/ Answer
         \/ \E kind \in {"look", "complete"} : TableForPath(kind)

Init == /\ \E text \in Texts : written = <<text>> /\ disk = 1
        /\ seen = [r \in Readers |-> {}] /\ raced = FALSE /\ restored = FALSE
        /\ pc = [r \in Runs |-> "idle"] /\ src = [r \in Runs |-> ""]
        /\ tree = [r \in Runs |-> None] /\ entry = [r \in Runs |-> None]
        /\ ast = None /\ image = None
        /\ user \in {"runs", "server"}
        /\ document = Closed /\ docCache = [text |-> Closed, table |-> NoTable]
        /\ diskCache = [mtime |-> 0, table |-> NoTable] /\ lastGood = NoTable
        /\ request = "none" /\ answer = NoTable /\ stat = 0 /\ session = {}
Next == \/ \E text \in Texts : Edit(text)
        \/ \E version \in 1..Now : Restore(version)
        \/ \E r \in Runs : Run(r)
        \/ user = "server" /\ Serve
Spec == Init /\ [][Next]_vars

-----------------------------------------------------------------------------
(***************************************************************************)
(* Properties.                                                             *)
(***************************************************************************)
TypeOK ==
    /\ disk \in 1..Now /\ Now <= MaxVersions
    /\ pc \in [Runs -> {"idle", "read", "fresh", "open", "load", "stat", "parse", "save", "replace",
                        "compile", "replace image", "running"}]
    /\ \A kept \in {ast, image} : kept.mtime \in 0..Now /\ kept.text \in Texts \cup {""}
    /\ document \in Texts \cup {Closed}
    /\ request \in {"none", "read", "look", "complete"}

\* cache.py: what is run is what the file held at some time of this run,
\* unless the file was written while a run held what it had read of it: that
\* run saves the old tree with the new mtime, and every later run takes it;
\* or an older image came in place of the one that a run had found fresh.
\* An image counts as fresh if it is not older than the source, so it is run
\* after an old version, with its old mtime, has been put back.
RunsSource == ~raced => \A r \in Runs :
    pc[r] = "running" /\ (Mode[r] = "image" => ~restored) => tree[r].text \in seen[r]
\* Whoever is killed, or cannot write, and whenever: no run meets half a file,
\* nor what no parser accepted, in the cache.
WholeFiles ==
    /\ TypeOK
    /\ \A r \in Runs : pc[r] = "running" => tree[r].whole /\ tree[r].text \notin Broken
\* symbol_index.py: an answer about a file is about what it holds while it is
\* asked for, and about the open document's text when there is one.  A
\* completion falls back on nothing from before the document was opened.
AnswerIsCurrent ==
    request \in {"look", "complete"} =>
       /\ IF document # Closed THEN answer = Table(document)
          ELSE ~restored => answer \in {Table(text) : text \in seen["server"]}
       /\ request = "complete" => LastGoodTable \in session \cup {NoTable}
=============================================================================

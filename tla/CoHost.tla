------------------------------- MODULE CoHost -------------------------------
(***************************************************************************)
(* What the threads of all coroutines share besides control: the process's *)
(* recursion limit, which CoroutineInstance._run raises and restores, and  *)
(* the debugger's call stack, to which every call, coroutine body and      *)
(* program pushes a frame and from which it pops one.  A hand-over of      *)
(* control is one step here: module Coroutine shows it to be one.          *)
(***************************************************************************)
EXTENDS Naturals, FiniteSets, SequencesExt

CONSTANTS
  Co,          \* coroutine instances
  Main,        \* the thread that runs the program
  Default,     \* the process's recursion limit at start
  CoLimit,     \* _CO_RECURSION_LIMIT
  MaxFrames    \* bound on the frames one thread has on the stack

Thread == Co \cup {Main}

ASSUME CoHostAssumption ==
  /\ Main \notin Co
  /\ Default \in Nat /\ CoLimit \in Nat /\ Default < CoLimit
  /\ MaxFrames \in Nat \ {0}

VARIABLES
  running,     \* the thread that executes
  life,        \* of each coroutine: "new", "active", "suspended", "finished"
  driver,      \* who resumed an active coroutine
  limit,       \* sys.getrecursionlimit()
  saved,       \* old_limit of each coroutine's _run
  order,       \* (no code) the started, unfinished coroutines, oldest first
  nested,      \* (no code) has each coroutine ended before all older ones?
  callStack,   \* _call_stack: the thread that pushed each frame
  frames       \* how many of its calls each thread is in

vars == <<running, life, driver, limit, saved, order, nested, callStack, frames>>

Init ==
  /\ running = Main
  /\ life = [c \in Co |-> "new"]
  /\ driver = [c \in Co |-> Main]
  /\ limit = Default
  /\ saved = [c \in Co |-> Default]
  /\ order = <<>> /\ nested = TRUE
  /\ callStack = <<Main>>            \* eval_program's frame "<module>"
  /\ frames = [t \in Thread |-> IF t = Main THEN 1 ELSE 0]

-----------------------------------------------------------------------------

Push(t) == /\ callStack' = Append(callStack, t)
           /\ frames' = [frames EXCEPT ![t] = @ + 1]

\* Whatever is on top is popped.
Pop(t) == /\ callStack' = SubSeq(callStack, 1, Len(callStack) - 1)
          /\ frames' = [frames EXCEPT ![t] = @ - 1]

Call ==
  /\ frames[running] \in 1 .. MaxFrames - 1
  /\ Push(running)
  /\ UNCHANGED <<running, life, driver, limit, saved, order, nested>>

Return ==
  /\ frames[running] > 1
  /\ Pop(running)
  /\ UNCHANGED <<running, life, driver, limit, saved, order, nested>>

\* The first resumption starts the thread and runs it up to the body.
Enter(c) == /\ saved' = [saved EXCEPT ![c] = limit]
            /\ limit' = Max({limit, CoLimit})
            /\ order' = Append(order, c)
            /\ Push(c)

Resume(c) ==
  /\ frames[running] > 0
  /\ life[c] \in {"new", "suspended"}
  /\ life' = [life EXCEPT ![c] = "active"]
  /\ driver' = [driver EXCEPT ![c] = running]
  /\ running' = c
  /\ UNCHANGED nested
  /\ IF life[c] = "new" THEN Enter(c)
                        ELSE UNCHANGED <<limit, saved, order, callStack, frames>>

\* Mutant: a yield takes the coroutine's frame off, a resumption leaves it off.
BadYield ==
  /\ running \in Co
  /\ running' = driver[running]
  /\ life' = [life EXCEPT ![running] = "suspended"]
  /\ callStack' = SubSeq(callStack, 1, Len(callStack) - 1)
  /\ UNCHANGED <<driver, limit, saved, order, nested, frames>>

Yield ==
  /\ running \in Co
  /\ running' = driver[running]
  /\ life' = [life EXCEPT ![running] = "suspended"]
  /\ UNCHANGED <<driver, limit, saved, order, nested, callStack, frames>>

Without(c) == RemoveAt(order, CHOOSE i \in DOMAIN order : order[i] = c)

\* Mutant: the limit is reset to the process's own, not to the saved one.
BadFinish ==
  /\ running \in Co /\ frames[running] = 1
  /\ limit' = Default
  /\ Pop(running)
  /\ order' = Without(running)
  /\ nested' = (nested /\ order[Len(order)] = running)
  /\ life' = [life EXCEPT ![running] = "finished"]
  /\ running' = driver[running]
  /\ UNCHANGED <<driver, saved>>

\* The body ends, by whatever exit: _run's finally.
Finish ==
  /\ running \in Co /\ frames[running] = 1
  /\ limit' = saved[running]
  /\ Pop(running)
  /\ order' = Without(running)
  /\ nested' = (nested /\ order[Len(order)] = running)
  /\ life' = [life EXCEPT ![running] = "finished"]
  /\ running' = driver[running]
  /\ UNCHANGED <<driver, saved>>

\* The program ends; coroutines still suspended are never resumed again.
ProgramEnds ==
  /\ running = Main /\ frames[Main] = 1
  /\ Pop(Main)
  /\ UNCHANGED <<running, life, driver, limit, saved, order, nested>>

Next == \/ Call \/ Return \/ Yield \/ Finish \/ ProgramEnds
        \/ \E c \in Co : Resume(c)

Spec == Init /\ [][Next]_vars

-----------------------------------------------------------------------------
(* Properties. *)

Live == {c \in Co : life[c] \in {"active", "suspended"}}

\* The calls under way: the first, second... that each thread is in.
UnderWay == {call \in Thread \X (1 .. MaxFrames) : call[2] <= frames[call[1]]}

\* Every variable keeps its type, and `order` holds the live coroutines.
TypeOK ==
  /\ running \in Thread
  /\ life \in [Co -> {"new", "active", "suspended", "finished"}]
  /\ driver \in [Co -> Thread]
  /\ limit \in {Default, CoLimit} /\ saved \in [Co -> {Default, CoLimit}]
  /\ {order[i] : i \in DOMAIN order} = Live /\ Len(order) = Cardinality(Live)
  /\ nested \in BOOLEAN /\ callStack \in Seq(Thread)
  /\ frames \in [Thread -> 0 .. MaxFrames]

\* However calls, hand-overs and endings interleave, the stack holds exactly
\* as many frames as calls are under way in all threads (no pop finds it
\* empty), and until the program ends the module's frame is at its bottom,
\* where the debugger's globals_of looks for it.
StackCounts ==
  /\ TypeOK
  /\ Len(callStack) = Cardinality(UnderWay)
  /\ frames[Main] > 0 => callStack # <<>> /\ callStack[1] = Main

\* _run: the limit is "restored in finally so the ceiling stays raised only
\* for the lifetime of this thread's own execution": it is raised exactly
\* while some coroutine is under way, as long as coroutines end in the opposite
\* of the order they were started in, however often each of them yields before.
\* (In another order it is not: README, section 6.)
CeilingNests == nested => ((limit = CoLimit) <=> (Live # {}))
=============================================================================

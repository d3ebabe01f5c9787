---------------------------- MODULE CoroutineAbs ----------------------------
(***************************************************************************)
(* What a coroutine promises its program (the docstrings of               *)
(* CoroutineInstance, next_ and send_): one thread of control.  Exactly    *)
(* one of the program and its coroutines runs; resuming a coroutine hands  *)
(* control and one value over, yielding or returning hands control and one *)
(* value back to whoever resumed it, and a finished coroutine answers for  *)
(* ever.  There are no events, mailboxes or flags here: every hand-over is *)
(* one step.                                                               *)
(***************************************************************************)
CONSTANTS Co, Main, Value, Nil, NoCo, Nobody

Thread  == Co \cup {Main}
Payload == Value \cup {Nil}
Message == [kind : {"none", "sent", "yielded", "ended", "stop"}, val : Payload]
Msg(k, v) == [kind |-> k, val |-> v]

VARIABLES
  runner,   \* the thread in control
  drives,   \* the coroutine each thread has resumed and waits for
  life,     \* each coroutine is fresh, suspended, active or ended
  said,     \* the value each thread is about to hand over
  heard     \* the last message each thread was handed

vars == <<runner, drives, life, said, heard>>

TypeOK ==
  /\ runner \in Thread \cup {Nobody}
  /\ drives \in [Thread -> Co \cup {NoCo}]
  /\ life \in [Co -> {"fresh", "suspended", "active", "ended"}]
  /\ said \in [Thread -> Payload]
  /\ heard \in [Thread -> Message]

Init ==
  /\ runner = Main
  /\ drives = [t \in Thread |-> NoCo]
  /\ life = [c \in Co |-> "fresh"]
  /\ said = [t \in Thread |-> Nil]
  /\ heard = [t \in Thread |-> Msg("none", Nil)]

\* The thread in control settles what it will hand over.
Speak(t, v) ==
  /\ runner = t
  /\ said' = [said EXCEPT ![t] = v]
  /\ UNCHANGED <<runner, drives, life, heard>>

\* Control goes to c; a fresh coroutine drops the value.
Resume(t, c) ==
  /\ runner = t
  /\ life[c] \in {"fresh", "suspended"}
  /\ runner' = c
  /\ drives' = [drives EXCEPT ![t] = c]
  /\ life' = [life EXCEPT ![c] = "active"]
  /\ heard' = IF life[c] = "fresh" THEN heard
              ELSE [heard EXCEPT ![c] = Msg("sent", said[t])]
  /\ UNCHANGED said

\* Control goes back, with what c said, to the one thread that resumed c.
HandBack(c, t, lives, message) ==
  /\ runner = c
  /\ drives[t] = c
  /\ runner' = t
  /\ drives' = [drives EXCEPT ![t] = NoCo]
  /\ life' = [life EXCEPT ![c] = lives]
  /\ heard' = [heard EXCEPT ![t] = message]
  /\ UNCHANGED said

Yield(c, t) == HandBack(c, t, "suspended", Msg("yielded", said[c]))

Return(c, t) == \/ HandBack(c, t, "ended", Msg("ended", said[c]))
                \/ HandBack(c, t, "ended", Msg("stop", Nil))

\* A finished coroutine answers its result, or StopIteration, again.
Replay(t, c) ==
  /\ runner = t
  /\ life[c] = "ended"
  /\ \E m \in {Msg("ended", said[c]), Msg("stop", Nil)} :
       heard' = [heard EXCEPT ![t] = m]
  /\ UNCHANGED <<runner, drives, life, said>>

\* The code has no check against resuming an active coroutine: control is
\* lost, for ever.
Wedge(t, c) ==
  /\ runner = t
  /\ life[c] = "active"
  /\ runner' = Nobody
  /\ drives' = [drives EXCEPT ![t] = c]
  /\ UNCHANGED <<life, said, heard>>

Next ==
  \/ \E t \in Thread, v \in Payload : Speak(t, v)
  \/ \E t \in Thread, c \in Co :
       Resume(t, c) \/ Yield(c, t) \/ Return(c, t) \/ Replay(t, c) \/ Wedge(t, c)

Spec == Init /\ [][Next]_vars
=============================================================================

---------------------------- MODULE CallService ----------------------------
(***************************************************************************)
(* What a bot that makes calls promises the peers it calls (src/sip.rs     *)
(* run_call): a call is begun, answered and ended on an open transport,    *)
(* and the transport is closed under no call that is still being placed or *)
(* is up.  The code makes two exceptions, calls that are lost and up to    *)
(* the peer: one whose answer it could not use, and one that was not       *)
(* answered yet when the bot was told to stop.  That one is cancelled only *)
(* if its dialog is known, and the bot does not wait to learn whether the  *)
(* CANCEL came before the answer.                                          *)
(*                                                                         *)
(* OutboundCall shows how run_call and make_call keep the promise.         *)
(***************************************************************************)

CONSTANT Calls

VARIABLES
  call,     \* call -> "idle", "calling", "up", "lost" or "ended"
  stopped,  \* the bot has been told to stop
  open      \* the transport is open

vars == <<call, stopped, open>>

Init ==
  /\ call = [c \in Calls |-> "idle"]
  /\ stopped = FALSE
  /\ open = TRUE

Turn(c, from, to) ==
  /\ open /\ call[c] \in from
  /\ call' = [call EXCEPT ![c] = to]
  /\ UNCHANGED <<stopped, open>>

\* The INVITE, and its answer.
Begin(c)  == Turn(c, {"idle"}, "calling")
Answer(c) == Turn(c, {"calling"}, "up")

\* A refusal, a cancellation, or a BYE of either side.
End(c)    == Turn(c, {"calling", "up", "lost"}, "ended")

\* The answer cannot be used, and the peer is not told.
Lose(c)   == Turn(c, {"up"}, "lost")

\* After a stop a call that is not answered yet is left to the peer.
GiveUp(c) == stopped /\ Turn(c, {"calling"}, "lost")

Stop ==
  /\ stopped' = TRUE
  /\ UNCHANGED <<call, open>>

Close ==
  /\ open /\ \A c \in Calls : call[c] \notin {"calling", "up"}
  /\ open' = FALSE
  /\ UNCHANGED <<call, stopped>>

Next ==
  \/ \E c \in Calls : Begin(c) \/ Answer(c) \/ End(c) \/ Lose(c) \/ GiveUp(c)
  \/ Stop \/ Close

Spec == Init /\ [][Next]_vars
=============================================================================

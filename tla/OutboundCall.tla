---------------------------- MODULE OutboundCall ----------------------------
(***************************************************************************)
(* The outbound calls of one bot (src/sip.rs): run_call spawns a task per  *)
(* call, paced by cps, serves its listen loop, waits for the tasks and     *)
(* closes the transport; make_call sends an INVITE, may cancel it at       *)
(* random, waits for the final response, talks and says BYE.               *)
(*                                                                         *)
(* The dialog library is external.  The task polls its do_invite future    *)
(* (tokio::pin!) in the same select as the channel (rx) in which the       *)
(* library reports what happens to the dialog, so that a final response is *)
(* taken in the poll that brings it, while the events of the channel may   *)
(* lie unread; a BYE of the peer reaches the dialog only through the       *)
(* bot's listen loop.                                                      *)
(***************************************************************************)
EXTENDS Naturals, Sequences

CONSTANTS
  Total,        \* calls to make
  CancelProb,   \* cancel_prob of the account
  Draws,        \* the values random_range(0..100) is taken to return
  Timer,        \* hangup.after_secs is set
  Endless,      \* without it, playback (of a local device) does not end by itself
  MaxEvents     \* bound: provisional responses that lie unread

Calls == 1 .. Total

ASSUME OutboundAssumption ==
  /\ Total \in Nat /\ CancelProb \in 0 .. 99 /\ Draws \subseteq 0 .. 99
  /\ Timer \in BOOLEAN /\ Endless \in BOOLEAN /\ MaxEvents \in Nat

VARIABLES
  started,    \* calls spawned so far, in order
  phase,      \* run_call: "spawn", "listen", "join" or "closed"
  stop,       \* the bot's cancel_token is cancelled
  pc,         \* call -> where its task is; "failed" if make_call returned Err
  will,       \* call -> the random cancellation that is due
  known,      \* call -> latest_dialog_id is set
  rx,         \* call -> events the task has not read
  dlg,        \* call -> the library's dialog
  bye         \* call -> the peer has sent a BYE that is not handled yet

bot == <<started, phase, stop>>

vars == <<bot, pc, will, known, rx, dlg, bye>>

Events == {"trying", "early", "confirmed", "terminated"}

Over == {"done", "failed"}

TypeOK ==
  /\ started \in 0 .. Total
  /\ phase \in {"spawn", "listen", "join", "closed"}
  /\ stop \in BOOLEAN
  /\ pc \in [Calls -> {"none", "invite", "cancelling", "aborting", "answer",
                       "talk", "bye", "closing"} \union Over]
  /\ will \in [Calls -> {"no", "before", "after"}]
  /\ known \in [Calls -> BOOLEAN]
  /\ rx \in [Calls -> Seq(Events)]
  /\ dlg \in [Calls -> {"none", "calling"} \union Events]
  /\ bye \in [Calls -> BOOLEAN]

Init ==
  /\ started = 0 /\ phase = "spawn" /\ stop = FALSE
  /\ pc = [c \in Calls |-> "none"]
  /\ will = [c \in Calls |-> "no"]
  /\ known = [c \in Calls |-> FALSE]
  /\ rx = [c \in Calls |-> <<>>]
  /\ dlg = [c \in Calls |-> "none"]
  /\ bye = [c \in Calls |-> FALSE]

-----------------------------------------------------------------------------
Goto(c, s) == pc' = [pc EXCEPT ![c] = s]

Tell(c, e) == rx' = [rx EXCEPT ![c] = Append(@, e)]

\* should_cancel
CancelDrawn(draw) == draw <= CancelProb

\* for i in 0..total
Left == started < Total

\* run_call spawns the next call, whatever has become of cancel_token while
\* it slept; the task draws its cancellation.
Spawn ==
  /\ phase = "spawn" /\ Left
  /\ started' = started + 1
  /\ Goto(started + 1, "invite")
  /\ \E draw \in Draws, before \in BOOLEAN :
       will' = [will EXCEPT ![started + 1] =
                  IF ~CancelDrawn(draw) THEN "no" ELSE IF before THEN "before" ELSE "after"]
  /\ UNCHANGED <<phase, stop, known, rx, dlg, bye>>

\* The last call is spawned, or the pause before the next one is cut short.
Spawned ==
  /\ phase = "spawn" /\ (started = Total \/ (stop /\ started > 0))
  /\ phase' = "listen"
  /\ UNCHANGED <<started, stop, pc, will, known, rx, dlg, bye>>

\* The listen loop ends; the calls are waited for.
EndListen ==
  /\ phase = "listen" /\ stop
  /\ phase' = "join"
  /\ UNCHANGED <<started, stop, pc, will, known, rx, dlg, bye>>

Stop ==
  /\ ~stop /\ stop' = TRUE
  /\ UNCHANGED <<started, phase, pc, will, known, rx, dlg, bye>>

\* Mutant: the transport is closed without waiting for the calls.
CallsOverAtOnce == TRUE

\* calls_future: every spawned task has returned.
CallsOver == \A c \in 1 .. started : pc[c] \in Over

Close ==
  /\ phase \in {"listen", "join"} /\ CallsOver
  /\ phase' = "closed"
  /\ UNCHANGED <<started, stop, pc, will, known, rx, dlg, bye>>

-----------------------------------------------------------------------------
\* Before the INVITE: an address, a connection or the offer fails.
SetupFails(c) ==
  /\ pc[c] = "invite" /\ dlg[c] = "none"
  /\ Goto(c, "failed")
  /\ UNCHANGED <<bot, will, known, rx, dlg, bye>>

\* The first poll of do_invite sends the INVITE.
SendInvite(c) ==
  /\ pc[c] = "invite" /\ dlg[c] = "none"
  /\ dlg' = [dlg EXCEPT ![c] = "calling"]
  /\ UNCHANGED <<bot, pc, will, known, rx, bye>>

Pending(c) == dlg[c] \in {"calling", "trying", "early"}

\* A poll that brings a provisional response.
Provisional(c, e) ==
  /\ pc[c] = "invite" /\ Pending(c) /\ Len(rx[c]) < MaxEvents
  /\ e = "trying" => dlg[c] = "calling"
  /\ dlg' = [dlg EXCEPT ![c] = e]
  /\ Tell(c, e)
  /\ UNCHANGED <<bot, pc, will, known, bye>>

\* The poll that brings the final response, and ends the loop.
Answered(c) ==
  /\ pc[c] = "invite" /\ Pending(c)
  /\ dlg' = [dlg EXCEPT ![c] = "confirmed"]
  /\ Tell(c, "confirmed")
  /\ Goto(c, "answer")
  /\ UNCHANGED <<bot, will, known, bye>>

\* Another final response, or none: do_invite fails, or make_call returns.
Refused(c) ==
  /\ pc[c] = "invite" /\ Pending(c)
  /\ dlg' = [dlg EXCEPT ![c] = "terminated"]
  /\ Tell(c, "terminated")
  /\ Goto(c, "done") \/ Goto(c, "failed")
  /\ UNCHANGED <<bot, will, known, bye>>

\* The peer says BYE; the dialog learns of it from the listen loop.
PeerBye(c) ==
  /\ phase # "closed" /\ dlg[c] = "confirmed" /\ ~bye[c]
  /\ bye' = [bye EXCEPT ![c] = TRUE]
  /\ UNCHANGED <<bot, pc, will, known, rx, dlg>>

HandleBye(c) ==
  /\ phase = "listen" /\ bye[c] /\ dlg[c] = "confirmed"
  /\ dlg' = [dlg EXCEPT ![c] = "terminated"]
  /\ Tell(c, "terminated")
  /\ UNCHANGED <<bot, pc, will, known, bye>>

\* dialog.hangup(): a CANCEL, which leaves the INVITE pending, or a BYE.
Hangup(c) == dlg' = [dlg EXCEPT ![c] = IF @ = "confirmed" THEN "terminated" ELSE @]

-----------------------------------------------------------------------------
Due(c, e) == \/ will[c] = "before" /\ e = "trying"
             \/ will[c] = "after"  /\ e = "early"

\* The INVITE loop reads an event, and cancels the call if that is due.
Event(c) ==
  /\ pc[c] = "invite" /\ rx[c] # <<>>
  /\ LET e == Head(rx[c])
     IN  /\ rx' = [rx EXCEPT ![c] = Tail(@)]
         /\ known' = [known EXCEPT ![c] = @ \/ e \in {"trying", "early"}]
         /\ IF Due(c, e)
              THEN /\ will' = [will EXCEPT ![c] = "no"]
                   /\ Hangup(c)
                   /\ Goto(c, "cancelling")
              ELSE UNCHANGED <<will, dlg, pc>>
  /\ UNCHANGED <<bot, bye>>

\* The CANCEL is answered or times out; meanwhile the INVITE was not polled.
Cancelled(c) ==
  /\ pc[c] = "cancelling"
  /\ Goto(c, "invite")
  /\ UNCHANGED <<bot, will, known, rx, dlg, bye>>

\* Mutant: the INVITE loop does not watch cancel_token.
NeverAbort(c) == FALSE /\ UNCHANGED vars

\* Mutant: the INVITE is dropped without a CANCEL.
DropInvite(c) ==
  /\ pc[c] = "invite" /\ stop
  /\ Goto(c, "done")
  /\ UNCHANGED <<bot, will, known, rx, dlg, bye>>

\* cancel_token: the INVITE is cancelled if its dialog is known, and the task
\* returns; do_invite is dropped.
Abort(c) ==
  /\ pc[c] = "invite" /\ stop
  /\ IF known[c] THEN Hangup(c) /\ Goto(c, "aborting")
                 ELSE Goto(c, "done") /\ UNCHANGED dlg
  /\ UNCHANGED <<bot, will, known, rx, bye>>

Aborted(c) ==
  /\ pc[c] = "aborting"
  /\ Goto(c, "done")
  /\ UNCHANGED <<bot, will, known, rx, dlg, bye>>

\* set_remote_answer; if it fails make_call returns the error, and says no
\* BYE.
Answer(c) ==
  /\ pc[c] = "answer"
  /\ Goto(c, "talk") \/ Goto(c, "failed")
  /\ UNCHANGED <<bot, will, known, rx, dlg, bye>>

\* The call itself, until the timer (or without one the playback) ends or
\* the bot stops.
TalkOver(c) ==
  /\ pc[c] = "talk" /\ (stop \/ Timer \/ ~Endless)
  /\ Goto(c, "bye")
  /\ UNCHANGED <<bot, will, known, rx, dlg, bye>>

\* Mutant: monitor_future returns on whatever it reads.
Anything(e) == TRUE

\* Mutant: monitor_future reads until the channel closes.
Nothing(e) == FALSE

\* What ends monitor_future.
Ends(e) == e = "terminated"

Monitor(c) ==
  /\ pc[c] = "talk" /\ rx[c] # <<>>
  /\ rx' = [rx EXCEPT ![c] = Tail(@)]
  /\ IF Ends(Head(rx[c])) THEN Goto(c, "done") ELSE UNCHANGED pc
  /\ UNCHANGED <<bot, will, known, dlg, bye>>

SayBye(c) ==
  /\ pc[c] = "bye"
  /\ Hangup(c)
  /\ Goto(c, "closing")
  /\ UNCHANGED <<bot, will, known, rx, bye>>

\* The answer to the BYE, or its failure; CallGuard stops the session either
\* way.
ByeDone(c) ==
  /\ pc[c] = "closing"
  /\ Goto(c, "done") \/ Goto(c, "failed")
  /\ UNCHANGED <<bot, will, known, rx, dlg, bye>>

-----------------------------------------------------------------------------
Task(c) ==
  \/ Cancelled(c) \/ Aborted(c) \/ Answer(c) \/ SayBye(c) \/ ByeDone(c)

Next ==
  \/ Spawn \/ Spawned \/ EndListen \/ Stop \/ Close
  \/ \E c \in Calls :
       \/ SetupFails(c) \/ SendInvite(c) \/ Answered(c) \/ Refused(c)
       \/ \E e \in {"trying", "early"} : Provisional(c, e)
       \/ PeerBye(c) \/ HandleBye(c)
       \/ Event(c) \/ Abort(c) \/ TalkOver(c) \/ Monitor(c) \/ Task(c)

\* Tasks run, and a select, which polls its branches in random order, takes a
\* branch that stays ready.  Nothing obliges the peer to answer or hang up.
Fairness ==
  /\ WF_vars(Spawn) /\ WF_vars(Spawned) /\ WF_vars(EndListen) /\ WF_vars(Close)
  /\ \A c \in Calls :
       /\ WF_vars(Task(c)) /\ WF_vars(Abort(c))
       /\ WF_vars(TalkOver(c)) /\ WF_vars(Monitor(c)) /\ WF_vars(HandleBye(c))

Spec == Init /\ [][Next]_vars

FairSpec == Spec /\ Fairness

-----------------------------------------------------------------------------
\* What the peer, and the transport, see of a call.  An INVITE that is pending
\* when its task returns is nobody's any more, cancelled or not.
Seen(c) ==
  IF dlg[c] = "none" THEN "idle"
  ELSE IF Pending(c) THEN IF pc[c] \in Over THEN "lost" ELSE "calling"
  ELSE IF dlg[c] = "confirmed" THEN IF pc[c] = "failed" THEN "lost" ELSE "up"
  ELSE "ended"

Service == INSTANCE CallService
             WITH call <- [c \in Calls |-> Seen(c)],
                  stopped <- stop, open <- phase # "closed"

\* The bot keeps what CallService promises its peers: whatever the order of
\* answers, cancellations, BYEs, timers and the stop, no call is begun,
\* answered or ended on a closed transport, and the transport is closed only
\* when every call has ended, or is one whose answer failed or which was not
\* answered yet at the stop.
ServiceSpec == Service!Spec

\* The transport is closed under no call: what a task still has to say, a
\* CANCEL or a BYE, it can say (run_call waits for calls_future).
CloseAfterCalls ==
  phase = "closed" => \A c \in Calls : pc[c] \in {"none"} \union Over

\* A make_call that succeeds leaves no answered call behind: it has said BYE,
\* or the dialog was terminated by the peer.
NobodyLeft == \A c \in Calls : pc[c] = "done" => dlg[c] # "confirmed"

\* A stop ends every task and closes the transport, also under a ringing call
\* and an endless playback.
StopEnds == stop ~> phase = "closed"

\* A BYE of the peer ends the call, also when it comes while other calls are
\* still to be spawned, and the listen loop does not run yet.
PeerByeEnds == \A c \in Calls : bye[c] ~> pc[c] \in Over

=============================================================================

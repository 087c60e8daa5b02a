---------------------------- MODULE InboundCall ----------------------------
(***************************************************************************)
(* The inbound calls of one serve-mode bot: the call task that             *)
(* handle_invite spawns (src/sip.rs), with its monitor, the transaction    *)
(* handler and the guard it owns, and run_wait, which drains the calls     *)
(* before it closes the transport.                                         *)
(*                                                                         *)
(* A call task walks through the stages its account configures: screen     *)
(* the caller, create a media session, play a reject tone, early media,    *)
(* ring, answer, announce, talk, hang up.  Waits of bounded length (a      *)
(* tone, a ring) are a stage that may end at any time.                     *)
(*                                                                         *)
(* The dialog library is external: it is modelled by what the code relies  *)
(* on.  A response the task gives to the dialog is queued and sent later,  *)
(* by the transaction handler, and the trace inspector sees it only then.  *)
(***************************************************************************)
EXTENDS CallRecord, Sequences, FiniteSets

CONSTANTS
  Calls,      \* INVITEs the bot may receive
  Configs     \* the account configurations to consider

Modes == {"remote", "after", "playback"}

Config == [mismatch : BOOLEAN,            \* match_caller rejects the caller
           random   : {0} \union 300 .. 699,  \* code of a random rejection
           reject   : {0} \union 300 .. 699,  \* code of the reject stage
           tone     : BOOLEAN,            \* ... after a tone
           offer    : BOOLEAN,            \* the INVITE carries an offer
           early    : BOOLEAN,            \* early_media
           ring     : {0, 180, 183},      \* ring, without or with media
           jump     : BOOLEAN,            \* sdp_jump
           announce : {"none", "plain", "jump"},
           endless  : BOOLEAN,            \* echo: the media never ends
           mode     : Modes]              \* effective_mode of the hangup

ASSUME InboundAssumption == Configs \subseteq Config

Sessions == {"A", "B", "J"}   \* of the offer, of sdp_jump, of jump_after
NoSession == "-"

Stages == {"none", "setup", "screen", "media", "tone", "early", "ring",
           "decide", "jump", "accept", "announce", "talk", "uibye", "stop",
           "bye", "closing", "reject", "release", "finish", "drop", "join", "done"}

VARIABLES
  cfg,       \* call -> its account's configuration
  pc,        \* call -> the stage its task is in
  playing,   \* call -> the stage has sent its response and waits
  end,       \* call -> the state finish_record will write
  dlg,       \* call -> state of the library's dialog
  out,       \* call -> responses queued for the transaction handler
  event,     \* call -> DialogState::Terminated is queued for the monitor
  token,     \* call -> call_token is cancelled
  control,   \* call -> control_token is cancelled (UI hangup)
  said,      \* call -> bye() has been called
  rec,       \* call -> state of its record
  timers,    \* call -> flush timers that run for it
  saved,     \* call -> its record is flushed
  live,      \* call -> live_sessions
  guard,     \* call -> media_session, also that of the CallGuard
  running,   \* call -> sessions created and not stopped
  dropped,   \* call -> the guard's drop has spawned a stop
  stop,      \* the bot's cancel_token is cancelled
  bot,       \* run_wait: "listen", "drain" or "closed"
  late       \* run_wait gave up waiting for calls

dialog  == <<dlg, out, event>>
tokens  == <<token, control>>
record  == <<rec, timers, saved>>
media   == <<live, guard, running>>
process == <<stop, bot, late>>

vars == <<cfg, pc, playing, end, dialog, tokens, said, record, media, dropped, process>>

-----------------------------------------------------------------------------
TypeOK ==
  /\ cfg \in [Calls -> Config]
  /\ pc \in [Calls -> Stages]
  /\ playing \in [Calls -> BOOLEAN]
  /\ end \in [Calls -> Terminal \union {"None"}]
  /\ dlg \in [Calls -> {"none", "early", "accepted", "confirmed", "terminated"}]
  /\ out \in [Calls -> Seq(100 .. 699)]
  /\ event \in [Calls -> BOOLEAN]
  /\ token \in [Calls -> BOOLEAN]
  /\ control \in [Calls -> BOOLEAN]
  /\ said \in [Calls -> BOOLEAN]
  /\ rec \in [Calls -> CallState]
  /\ timers \in [Calls -> Nat]
  /\ saved \in [Calls -> BOOLEAN]
  /\ live \in [Calls -> SUBSET Sessions]
  /\ guard \in [Calls -> Sessions \union {NoSession}]
  /\ running \in [Calls -> SUBSET Sessions]
  /\ dropped \in [Calls -> BOOLEAN]
  /\ stop \in BOOLEAN /\ late \in BOOLEAN
  /\ bot \in {"listen", "drain", "closed"}

Init ==
  /\ cfg \in [Calls -> Configs]
  /\ pc = [c \in Calls |-> "none"]
  /\ playing = [c \in Calls |-> FALSE]
  /\ end = [c \in Calls |-> "None"]
  /\ dlg = [c \in Calls |-> "none"]
  /\ out = [c \in Calls |-> <<>>]
  /\ event = [c \in Calls |-> FALSE]
  /\ token = [c \in Calls |-> FALSE]
  /\ control = [c \in Calls |-> FALSE]
  /\ said = [c \in Calls |-> FALSE]
  /\ rec = [c \in Calls |-> "None"]
  /\ timers = [c \in Calls |-> 0]
  /\ saved = [c \in Calls |-> FALSE]
  /\ live = [c \in Calls |-> {}]
  /\ guard = [c \in Calls |-> NoSession]
  /\ running = [c \in Calls |-> {}]
  /\ dropped = [c \in Calls |-> FALSE]
  /\ stop = FALSE /\ late = FALSE /\ bot = "listen"

-----------------------------------------------------------------------------
\* The trace inspector sees message m of call c (record, apply_state).
Inspect(c, m) ==
  /\ rec' = [rec EXCEPT ![c] = ApplyState(@, m)]
  /\ timers' = IF Ends(rec[c], m) THEN [timers EXCEPT ![c] = @ + 1] ELSE timers
  /\ UNCHANGED saved

Goto(c, s) == pc' = [pc EXCEPT ![c] = s]

\* reject(): the final response is queued and the dialog ends; it does
\* nothing if the dialog is over already.
Reject(c, code) ==
  IF dlg[c] = "early"
    THEN /\ out' = [out EXCEPT ![c] = Append(@, code)]
         /\ dlg' = [dlg EXCEPT ![c] = "terminated"]
         /\ event' = [event EXCEPT ![c] = TRUE]
    ELSE UNCHANGED dialog

\* ringing(): a provisional response is queued; on a dialog that is over it
\* may fail.
Alert(c, code, ok) ==
  /\ IF dlg[c] = "early"
       THEN ok /\ out' = [out EXCEPT ![c] = Append(@, code)]
       ELSE UNCHANGED out
  /\ UNCHANGED <<dlg, event>>

\* Mutant: the session takes the place of those created before it.
CreateOnly(c, s) ==
  /\ guard' = [guard EXCEPT ![c] = s]
  /\ live' = [live EXCEPT ![c] = {s}]
  /\ running' = [running EXCEPT ![c] = @ \union {s}]

\* A session s is created and becomes the current one, that the guard stops.
Create(c, s) ==
  /\ guard' = [guard EXCEPT ![c] = s]
  /\ live' = [live EXCEPT ![c] = @ \union {s}]
  /\ running' = [running EXCEPT ![c] = @ \union {s}]

StopLive(c) ==
  /\ running' = [running EXCEPT ![c] = @ \ live[c]]
  /\ UNCHANGED <<live, guard>>

-----------------------------------------------------------------------------
\* handle_invite: the counters go up before the call task is spawned.
Invite(c) ==
  /\ bot = "listen" /\ pc[c] = "none"
  /\ Inspect(c, Request("in", "INVITE"))
  /\ dlg' = [dlg EXCEPT ![c] = "early"]
  /\ Goto(c, "setup")
  /\ UNCHANGED <<cfg, playing, end, out, event, tokens, said, media, dropped, process>>

\* The task fills in its record and leaves its control token there.
Setup(c) ==
  /\ pc[c] = "setup"
  /\ Goto(c, "screen")
  /\ UNCHANGED <<cfg, playing, end, dialog, tokens, said, record, media, dropped, process>>

\* The codes of the caller filter, or of the random rejection and the plain
\* reject stage.
Codes(c) ==
  IF cfg[c].mismatch THEN {403}
  ELSE ({cfg[c].random} \ {0})
       \union (IF cfg[c].reject # 0 /\ ~cfg[c].tone THEN {cfg[c].reject} ELSE {})

Screen(c) ==
  /\ pc[c] = "screen"
  /\ \/ \E code \in Codes(c) :
          /\ Reject(c, code)
          /\ end' = [end EXCEPT ![c] = "Rejected"]
          /\ Goto(c, "finish")
     \/ /\ ~cfg[c].mismatch
        /\ cfg[c].reject = 0 \/ cfg[c].tone
        /\ Goto(c, "media")
        /\ UNCHANGED <<end, dialog>>
  /\ UNCHANGED <<cfg, playing, tokens, said, record, media, dropped, process>>

\* MediaSession::new, if there is an offer.
Media(c) ==
  /\ pc[c] = "media"
  /\ \/ /\ IF cfg[c].offer THEN Create(c, "A") ELSE UNCHANGED media
        /\ Goto(c, "tone")
        /\ UNCHANGED <<end, dialog>>
     \/ /\ cfg[c].offer
        /\ Reject(c, 480)
        /\ end' = [end EXCEPT ![c] = "Failed"]
        /\ Goto(c, "finish")
        /\ UNCHANGED media
  /\ UNCHANGED <<cfg, playing, tokens, said, record, dropped, process>>

\* A stage that queues the response code (none if 0), waits and goes on to
\* stage next; failed ringing() ends the call task if fatal.
Play(c, s, code, fatal, next) ==
  /\ pc[c] = s
  /\ \/ /\ code = 0 /\ ~playing[c]
        /\ Goto(c, next)
        /\ UNCHANGED <<playing, dialog>>
     \/ /\ code # 0 /\ ~playing[c]
        /\ \E ok \in BOOLEAN :
             /\ Alert(c, code, ok)
             /\ IF ok \/ ~fatal
                  THEN playing' = [playing EXCEPT ![c] = TRUE] /\ UNCHANGED pc
                  ELSE Goto(c, "drop") /\ UNCHANGED playing
     \/ /\ playing[c]
        /\ playing' = [playing EXCEPT ![c] = FALSE]
        /\ Goto(c, next)
        /\ UNCHANGED dialog
  /\ UNCHANGED <<cfg, end, tokens, said, record, media, dropped, process>>

HasTone(c) == cfg[c].reject # 0 /\ cfg[c].tone

ToneCode(c)  == IF HasTone(c) /\ guard[c] # NoSession THEN 183 ELSE 0
EarlyCode(c) == IF cfg[c].early /\ guard[c] # NoSession THEN 183 ELSE 0
RingCode(c)  == IF cfg[c].ring = 183 /\ guard[c] = NoSession THEN 180 ELSE cfg[c].ring

\* The reject tone, early media and ringing.
Tone(c)  == Play(c, "tone", ToneCode(c), FALSE,
                 IF HasTone(c) THEN "reject" ELSE "early")
Early(c) == Play(c, "early", EarlyCode(c), FALSE, "ring")
Ring(c)  == Play(c, "ring", RingCode(c), TRUE, "decide")

\* The end of the reject tone, and a stop requested before the answer: the
\* call is rejected, its sessions are stopped and its record is finished.
RejectWith(c, code, state) ==
  /\ Reject(c, code)
  /\ end' = [end EXCEPT ![c] = state]
  /\ Goto(c, "release")
  /\ UNCHANGED <<cfg, playing, tokens, said, record, media, dropped, process>>

RejectAfterTone(c) == pc[c] = "reject" /\ RejectWith(c, cfg[c].reject, "Rejected")

RejectStopped(c) == pc[c] = "decide" /\ stop /\ RejectWith(c, 486, "Terminated")

Release(c) ==
  /\ pc[c] = "release"
  /\ StopLive(c)
  /\ Goto(c, "finish")
  /\ UNCHANGED <<cfg, playing, end, dialog, tokens, said, record, dropped, process>>

\* finish_record writes the state past apply_state and starts no flush timer.
Finish(c) ==
  /\ pc[c] = "finish"
  /\ rec' = [rec EXCEPT ![c] = end[c]]
  /\ Goto(c, "drop")
  /\ UNCHANGED <<cfg, playing, end, dialog, tokens, said, timers, saved, media,
                 dropped, process>>

\* Stage 2 without a stop: the call is answered, from a new session if
\* sdp_jump is set and that session can be created.
Decide(c) ==
  /\ pc[c] = "decide" /\ ~stop
  /\ Goto(c, "jump")
  /\ UNCHANGED <<cfg, playing, end, dialog, tokens, said, record, media, dropped, process>>

Jump(c) ==
  /\ pc[c] = "jump"
  /\ \/ UNCHANGED media
     \/ /\ cfg[c].jump /\ cfg[c].offer
        /\ guard' = [guard EXCEPT ![c] = "B"]
        /\ live' = [live EXCEPT ![c] = {"B"}]
        /\ running' = [running EXCEPT ![c] = (@ \ {guard[c]}) \union {"B"}]
  /\ Goto(c, "accept")
  /\ UNCHANGED <<cfg, playing, end, dialog, tokens, said, record, dropped, process>>

\* accept(): on a dialog that is over it fails, or does nothing.
Accept(c) ==
  /\ pc[c] = "accept"
  /\ IF dlg[c] = "early"
       THEN /\ out' = [out EXCEPT ![c] = Append(@, 200)]
            /\ dlg' = [dlg EXCEPT ![c] = "accepted"]
            /\ UNCHANGED event
            /\ Goto(c, "announce")
       ELSE /\ UNCHANGED dialog
            /\ \E s \in {"announce", "drop"} : Goto(c, s)
  /\ UNCHANGED <<cfg, playing, end, tokens, said, record, media, dropped, process>>

\* The announcement, and the jump to a third session that sends while the
\* second goes on receiving; a call that is over does not jump.
Announce(c) ==
  /\ pc[c] = "announce"
  /\ \/ UNCHANGED media
     \/ /\ cfg[c].announce = "jump" /\ guard[c] # NoSession /\ ~token[c]
        /\ Create(c, "J")
  /\ Goto(c, "talk")
  /\ UNCHANGED <<cfg, playing, end, dialog, tokens, said, record, dropped, process>>

\* The hangup timer, or the end of the media, except in mode remote.
MediaOver(c) ==
  \/ cfg[c].mode = "after"
  \/ cfg[c].mode = "playback" /\ (~cfg[c].endless \/ guard[c] = NoSession)

Asked(c) == control[c] /\ cfg[c].mode # "remote"

\* Mutants: stage 3 does not look at call_token, at control_token, at the
\* bot's token.
TalkOverLocal(c)   == stop \/ Asked(c) \/ MediaOver(c)
TalkOverDeaf(c)    == token[c] \/ stop \/ MediaOver(c)
TalkOverStopped(c) == token[c] \/ Asked(c) \/ MediaOver(c)

\* Stage 3 ends with the call, the bot, the UI or the media.
TalkOver(c) == token[c] \/ stop \/ Asked(c) \/ MediaOver(c)

Talk(c) ==
  /\ pc[c] = "talk"
  /\ \/ TalkOver(c) /\ Goto(c, "stop")
     \/ control[c] /\ cfg[c].mode = "remote" /\ Goto(c, "uibye")
  /\ UNCHANGED <<cfg, playing, end, dialog, tokens, said, record, media, dropped, process>>

StopSessions(c) ==
  /\ pc[c] = "stop"
  /\ StopLive(c)
  /\ Goto(c, "bye")
  /\ UNCHANGED <<cfg, playing, end, dialog, tokens, said, record, dropped, process>>

\* bye(): on a confirmed dialog a BYE goes out, and the task waits for its
\* answer; before the ACK it may also do nothing.
Bye(c, next) ==
  /\ said' = [said EXCEPT ![c] = TRUE]
  /\ \/ /\ dlg[c] \in {"accepted", "confirmed"}
        /\ IF bot # "closed" THEN Inspect(c, Request("out", "BYE"))
                             ELSE UNCHANGED record
        /\ dlg' = [dlg EXCEPT ![c] = "terminated"]
        /\ event' = [event EXCEPT ![c] = TRUE]
        /\ Goto(c, "closing")
        /\ UNCHANGED out
     \/ /\ dlg[c] # "confirmed"
        /\ Goto(c, next)
        /\ UNCHANGED <<dialog, record>>

\* A hangup by the UI in mode remote, and the BYE of the other modes.
HangUp(c) ==
  /\ pc[c] = "uibye"
  /\ Bye(c, "stop")
  /\ UNCHANGED <<cfg, playing, end, tokens, media, dropped, process>>

SayBye(c) ==
  /\ pc[c] = "bye"
  /\ IF cfg[c].mode = "remote"
       THEN Goto(c, "drop") /\ UNCHANGED <<dialog, record, said>>
       ELSE Bye(c, "drop")
  /\ UNCHANGED <<cfg, playing, end, tokens, media, dropped, process>>

\* The answer to the BYE, or the timeout of its transaction.
ByeDone(c) ==
  /\ pc[c] = "closing"
  /\ Goto(c, IF cfg[c].mode = "remote" THEN "stop" ELSE "drop")
  /\ UNCHANGED <<cfg, playing, end, dialog, tokens, said, record, media, dropped, process>>

\* call_logic returns: its guard is dropped, which spawns the stop of the
\* last session; call_token is cancelled; once the monitor has returned, the
\* task decrements the counter and ends.
Drop(c) ==
  /\ pc[c] = "drop"
  /\ dropped' = [dropped EXCEPT ![c] = guard[c] # NoSession]
  /\ Goto(c, "join")
  /\ UNCHANGED <<cfg, playing, end, dialog, tokens, said, record, media, process>>

GuardStop(c) ==
  /\ dropped[c]
  /\ dropped' = [dropped EXCEPT ![c] = FALSE]
  /\ running' = [running EXCEPT ![c] = @ \ {guard[c]}]
  /\ UNCHANGED <<cfg, pc, playing, end, dialog, tokens, said, record, live, guard, process>>

Join(c) ==
  /\ pc[c] = "join"
  /\ token' = [token EXCEPT ![c] = TRUE]
  /\ Goto(c, "done")
  /\ UNCHANGED <<cfg, playing, end, dialog, control, said, record, media, dropped, process>>

\* The monitor learns that the dialog has terminated.
Monitor(c) ==
  /\ event[c] /\ pc[c] # "done"
  /\ event' = [event EXCEPT ![c] = FALSE]
  /\ token' = [token EXCEPT ![c] = TRUE]
  /\ UNCHANGED <<cfg, pc, playing, end, dlg, out, control, said, record, media,
                 dropped, process>>

-----------------------------------------------------------------------------
\* The transaction handler sends the next queued response.
Send(c) ==
  /\ out[c] # <<>> /\ bot # "closed"
  /\ Inspect(c, Response("out", "INVITE", Head(out[c])))
  /\ out' = [out EXCEPT ![c] = Tail(@)]
  /\ UNCHANGED <<cfg, pc, playing, end, dlg, event, tokens, said, media, dropped, process>>

\* The caller gives up before it has seen a final response; if one is on its
\* way, only the inspector takes notice ...
Cancel(c) ==
  /\ bot # "closed" /\ dlg[c] \notin {"none", "confirmed"}
  /\ Inspect(c, Request("in", "CANCEL"))
  /\ Reject(c, 487)
  /\ UNCHANGED <<cfg, pc, playing, end, tokens, said, media, dropped, process>>

\* ... or sees the 200 and acknowledges it ...
Ack(c) ==
  /\ bot # "closed"
  /\ dlg[c] = "accepted" /\ out[c] = <<>>
  /\ dlg' = [dlg EXCEPT ![c] = "confirmed"]
  /\ UNCHANGED <<cfg, pc, playing, end, out, event, tokens, said, record, media,
                 dropped, process>>

\* ... and hangs up.  The inspector sees every BYE, the dialog only those
\* that come while the listen loop runs.
RemoteBye(c) ==
  /\ bot # "closed" /\ dlg[c] = "confirmed"
  /\ Inspect(c, Request("in", "BYE"))
  /\ IF bot = "listen"
       THEN /\ dlg' = [dlg EXCEPT ![c] = "terminated"]
            /\ event' = [event EXCEPT ![c] = TRUE]
       ELSE UNCHANGED <<dlg, event>>
  /\ UNCHANGED <<cfg, pc, playing, end, out, tokens, said, media, dropped, process>>

\* POST /api/calls/{id}/hangup, once the task has left its control token.
UiHangup(c) ==
  /\ pc[c] \notin {"none", "setup"} /\ ~control[c]
  /\ control' = [control EXCEPT ![c] = TRUE]
  /\ UNCHANGED <<cfg, pc, playing, end, dialog, token, said, record, media, dropped, process>>

\* A flush timer fires (persist_call).
Flush(c) ==
  /\ timers[c] > 0
  /\ timers' = [timers EXCEPT ![c] = @ - 1]
  /\ saved' = [saved EXCEPT ![c] = @ \/ rec[c] \in Terminal]
  /\ UNCHANGED <<cfg, pc, playing, end, dialog, tokens, said, rec, media, dropped, process>>

-----------------------------------------------------------------------------
\* A reload or Ctrl-C cancels the bot's token; its listen loop ends.
Stop ==
  /\ ~stop
  /\ stop' = TRUE
  /\ UNCHANGED <<cfg, pc, playing, end, dialog, tokens, said, record, media, dropped,
                 bot, late>>

EndListen ==
  /\ stop /\ bot = "listen"
  /\ bot' = "drain"
  /\ UNCHANGED <<cfg, pc, playing, end, dialog, tokens, said, record, media, dropped,
                 stop, late>>

\* Mutant: the counter goes down before the BYE.
CurrentTalking ==
  {c \in Calls : pc[c] \notin {"none", "bye", "closing", "drop", "join", "done"}}

\* stats.current(): the counter goes up in Invite and down in Join.
Current == {c \in Calls : pc[c] \notin {"none", "done"}}

\* run_wait closes the transport when no call is active, or after 5 seconds.
Close ==
  /\ bot = "drain"
  /\ bot' = "closed"
  /\ late' = (Current # {})
  /\ UNCHANGED <<cfg, pc, playing, end, dialog, tokens, said, record, media, dropped, stop>>

Task(c) ==
  \/ Setup(c) \/ Screen(c) \/ Media(c) \/ Tone(c) \/ Early(c) \/ Ring(c)
  \/ RejectAfterTone(c) \/ RejectStopped(c) \/ Release(c) \/ Finish(c)
  \/ Decide(c) \/ Jump(c) \/ Accept(c) \/ Announce(c) \/ Talk(c)
  \/ StopSessions(c) \/ HangUp(c) \/ SayBye(c) \/ ByeDone(c) \/ Drop(c) \/ Join(c)

Next ==
  \/ \E c \in Calls : \/ Invite(c) \/ Task(c) \/ GuardStop(c) \/ Monitor(c)
                      \/ Send(c) \/ Flush(c) \/ UiHangup(c)
                      \/ Cancel(c) \/ Ack(c) \/ RemoteBye(c)
  \/ Stop \/ EndListen \/ Close

\* The runtime polls every ready task, tones and rings end, and a BYE is
\* answered or times out.  What callers and users do is not fair.  A ring on a
\* local device that is given no duration does not end by itself: such an
\* account is outside what the liveness properties say.
Fairness ==
  /\ \A c \in Calls : /\ WF_vars(Task(c)) /\ WF_vars(GuardStop(c))
                      /\ WF_vars(Monitor(c)) /\ WF_vars(Send(c)) /\ WF_vars(Flush(c))
  /\ WF_vars(EndListen) /\ WF_vars(Close)

Spec == Init /\ [][Next]_vars

FairSpec == Spec /\ Fairness

-----------------------------------------------------------------------------
\* Unless it gives up on them, run_wait does not close the transport before
\* every call has ended its dialog or has had its task say BYE, except those
\* whose peer is to hang up (the comment on dec_current, the drain loop).
ByeBeforeClose ==
  bot = "closed" /\ ~late =>
    \A c \in Calls : dlg[c] \in {"none", "terminated"} \/ said[c] \/ cfg[c].mode = "remote"

\* A call task that is over leaves no media session running, however it ended
\* and however often the stream jumped, but the one its guard is stopping
\* (live_sessions, CallGuard).
SessionsReleased ==
  \A c \in Calls : pc[c] = "done" =>
     running[c] \subseteq (IF dropped[c] THEN {guard[c]} ELSE {})

\* A dialog that is over and has nothing left to send shows as ended in its
\* record, whatever of rejection, CANCEL, BYE and queued responses came first
\* (apply_state, finish_record).
RecordEnds ==
  \A c \in Calls :
    dlg[c] = "terminated" /\ out[c] = <<>> /\ bot # "closed"
      /\ pc[c] \notin {"release", "finish"}
      => rec[c] \in Terminal

\* A call whose dialog has ended comes to an end itself: its task returns and
\* all its sessions are stopped (monitor_future, the select of each stage).
EndReleases ==
  \A c \in Calls : dlg[c] = "terminated" ~> (pc[c] = "done" /\ running[c] = {})

\* A hangup requested in the UI ends the call, at whatever stage it comes
\* (control_token is only read in stage 3).
HangupEnds == \A c \in Calls : control[c] ~> pc[c] = "done"

\* A stop of the bot ends every call and closes the transport (cancel_token,
\* run_wait).
StopEnds == stop ~> (bot = "closed" /\ Current = {})

-----------------------------------------------------------------------------
\* What the README says of the calls and the code does not do.

\* "every finished call is flushed as JSON" (README.md:221): a call whose task
\* is done and whose record shows an end is flushed or will be.
FinishedFlushed ==
  \A c \in Calls :
    pc[c] = "done" /\ out[c] = <<>> /\ rec[c] \in Terminal => saved[c] \/ timers[c] > 0
=============================================================================

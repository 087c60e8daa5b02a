----------------------------- MODULE TxTimeline -----------------------------
(***************************************************************************)
(* The RTP timestamps of what one media session sends (rtp_ts_state in     *)
(* src/media.rs).  Playbacks follow each other in the task of the call and *)
(* may be dropped at any await; other tasks send DTMF digits in between,   *)
(* and re-INVITEs silence the audio and let it go on.  All of them keep    *)
(* the timestamps going by way of one shared pair, the next timestamp and  *)
(* the time at which it was marked.                                        *)
(*                                                                         *)
(* Time is counted in ticks of the RTP clock and does not pass between two *)
(* awaits.  Timestamps are not compared anywhere in this code, so that     *)
(* their wrapping plays no role and they are plain numbers here.  Echo     *)
(* loops, whose timestamps are the peer's, are the subject of RtpStats.    *)
(***************************************************************************)
EXTENDS Integers

CONSTANTS
  Frame,      \* ticks of a 20 ms frame
  Randoms,    \* the values random_u32 is taken to return
  Senders,    \* tasks that send digits
  MaxNow,     \* bound: ticks
  MaxStarts,  \* bound: playbacks
  MaxDigits   \* bound: digits

ASSUME TimelineAssumption ==
  /\ Frame \in Nat \ {0} /\ Randoms \subseteq Nat
  /\ MaxNow \in Nat /\ MaxStarts \in Nat /\ MaxDigits \in Nat

None == -1

VARIABLES
  now,
  timeline,  \* rtp_ts_state: the next timestamp, None at first, and when it was marked
  play,      \* the playback: its local rtp_timestamp, when its ticker is due,
             \* and when it last marked
  silent,    \* audio_silent
  digit,     \* sender -> its send_dtmf
  audio,     \* history: the last audio frame sent
  last,      \* history: the timestamp of the last frame sent
  base,      \* history: the first timestamp, and when it was chosen
  starts,    \* playbacks begun
  digits,    \* digits begun
  lagged,    \* history: time was lost, by a late tick, a frame the encoder
             \* kept, or a digit sent while nothing was played
  raced,     \* history: a digit met a step of the playback or another digit
  split      \* history: ... before there was a timeline, so that there are two

counters == <<starts, digits>>

vars == <<now, timeline, play, silent, digit, audio, last, base, counters, lagged, raced, split>>

Stamps == Nat \union {None}

TypeOK ==
  /\ now \in 0 .. MaxNow
  /\ timeline \in [ts : Stamps, at : 0 .. MaxNow]
  /\ play \in [pc : {"off", "started", "waiting", "marked"}, ts : Nat, due : Nat, at : 0 .. MaxNow]
  /\ silent \in BOOLEAN
  /\ digit \in [Senders -> [pc : {"idle", "peeked", "sent"}, ts : Nat]]
  /\ audio \in [ts : Stamps, at : 0 .. MaxNow]
  /\ last \in Stamps
  /\ base \in [ts : Nat, at : 0 .. MaxNow]
  /\ starts \in 0 .. MaxStarts /\ digits \in 0 .. MaxDigits
  /\ lagged \in BOOLEAN /\ raced \in BOOLEAN /\ split \in BOOLEAN

Init ==
  /\ now = 0
  /\ timeline = [ts |-> None, at |-> 0]
  /\ play = [pc |-> "off", ts |-> 0, due |-> 0, at |-> 0]
  /\ silent = FALSE
  /\ digit = [d \in Senders |-> [pc |-> "idle", ts |-> 0]]
  /\ audio = [ts |-> None, at |-> 0] /\ last = None
  /\ base = [ts |-> 0, at |-> 0]
  /\ starts = 0 /\ digits = 0
  /\ lagged = FALSE /\ raced = FALSE /\ split = FALSE

-----------------------------------------------------------------------------
\* The shared pair.

Known == timeline.ts # None

\* session_rtp_ts_start; random is what it makes up without a timeline.
StartTs(random) == IF Known THEN timeline.ts + (now - timeline.at) ELSE random

\* session_rtp_ts_peek.  Mutant: the idle time added, as for a playback.
PeekTsAdvanced(random) == IF Known THEN timeline.ts + (now - timeline.at) ELSE random

PeekTs(random) == IF Known THEN timeline.ts ELSE random

\* session_rtp_ts_mark.  Mutant: the time is not updated.
MarkOld(ts) == timeline' = [timeline EXCEPT !.ts = ts]

Mark(ts) == timeline' = [ts |-> ts, at |-> now]

\* Digits that are being sent.
Sending == \E d \in Senders : digit[d].pc # "idle"

\* A first timestamp is made up while another task goes by its own.
Choose(random, others) ==
  /\ base' = IF Known THEN base ELSE [ts |-> random, at |-> now]
  /\ split' = (split \/ (~Known /\ others))

-----------------------------------------------------------------------------
\* A playback (play_samples).

\* It takes its first timestamp; its ticker is due at once.
Start ==
  /\ play.pc = "off" /\ starts < MaxStarts
  /\ \E random \in Randoms :
       /\ play' = [pc |-> "started", ts |-> StartTs(random), due |-> now, at |-> timeline.at]
       /\ Choose(random, Sending)
  /\ starts' = starts + 1
  /\ raced' = (raced \/ Sending)
  /\ UNCHANGED <<now, timeline, silent, digit, audio, last, digits, lagged>>

\* The next tick after a missed one keeps the phase (MissedTickBehavior::Skip).
NextDue == (now + Frame) - ((now - play.due) % Frame)

Ticking ==
  /\ play.pc \in {"started", "waiting"} /\ now >= play.due
  /\ raced' = (raced \/ Sending)
  /\ UNCHANGED <<now, silent, digit, audio, last, base, counters, split>>

Late == now >= play.due + Frame

\* On hold the frame is skipped and its time passes.  Mutant: it does not.
SilentTickStill ==
  /\ silent /\ Ticking
  /\ play' = [play EXCEPT !.pc = "waiting", !.due = NextDue]
  /\ lagged' = (lagged \/ Late)
  /\ UNCHANGED timeline

SilentTick ==
  /\ silent /\ Ticking
  /\ play' = [pc |-> "waiting", ts |-> play.ts + Frame, due |-> NextDue, at |-> now]
  /\ Mark(play.ts + Frame)
  /\ lagged' = (lagged \/ Late)

\* The timestamp of the next frame is marked before this one is sent.
\* Mutant: that of this frame is.
MarkTickCurrent ==
  /\ ~silent /\ Ticking
  /\ play' = [play EXCEPT !.pc = "marked", !.due = NextDue, !.at = now]
  /\ Mark(play.ts)
  /\ lagged' = (lagged \/ Late)

MarkTick ==
  /\ ~silent /\ Ticking
  /\ play' = [pc |-> "marked", ts |-> play.ts, due |-> NextDue, at |-> now]
  /\ Mark(play.ts + Frame)
  /\ lagged' = (lagged \/ Late)

\* The encoder gives nothing for the frame: its time is lost.
EmptyTick ==
  /\ ~silent /\ Ticking
  /\ play' = [pc |-> "waiting", ts |-> play.ts, due |-> NextDue, at |-> play.at]
  /\ lagged' = TRUE
  /\ UNCHANGED timeline

SendAudio ==
  /\ play.pc = "marked"
  /\ play' = [play EXCEPT !.pc = "waiting", !.ts = play.ts + Frame]
  /\ audio' = [ts |-> play.ts, at |-> now] /\ last' = play.ts
  /\ raced' = (raced \/ Sending)
  /\ UNCHANGED <<now, timeline, silent, digit, base, counters, lagged, split>>

\* The samples are at their end, the frame cannot be sent, or the task of the
\* call drops the playback.
End ==
  /\ play.pc # "off"
  /\ play' = [play EXCEPT !.pc = "off"]
  /\ lagged' = (lagged \/ timeline.at # play.at)
  /\ raced' = (raced \/ Sending)
  /\ UNCHANGED <<now, timeline, silent, digit, audio, last, base, counters, split>>

-----------------------------------------------------------------------------
\* A digit (send_dtmf): the timestamp is read, the two frames of the event
\* are sent with it, and it is marked again.

Peek(d) ==
  /\ digit[d].pc = "idle" /\ digits < MaxDigits
  /\ \E random \in Randoms :
       /\ digit' = [digit EXCEPT ![d] = [pc |-> "peeked", ts |-> PeekTs(random)]]
       /\ Choose(random, play.pc # "off" \/ Sending)
  /\ digits' = digits + 1
  /\ raced' = (raced \/ Sending \/ play.pc \in {"started", "marked"}
                     \/ (~Known /\ play.pc # "off"))
  /\ UNCHANGED <<now, timeline, play, silent, audio, last, starts, lagged>>

SendDigit(d) ==
  /\ digit[d].pc = "peeked"
  /\ digit' = [digit EXCEPT ![d] = [pc |-> "sent", ts |-> digit[d].ts]]
  /\ last' = digit[d].ts
  /\ UNCHANGED <<now, timeline, play, silent, audio, base, counters, lagged, raced, split>>

\* The session takes no frames any more (nor will it take later ones, so that
\* it does not matter which of the two is refused).
DigitFails(d) ==
  /\ digit[d].pc = "peeked"
  /\ digit' = [digit EXCEPT ![d] = [pc |-> "idle", ts |-> digit[d].ts]]
  /\ UNCHANGED <<now, timeline, play, silent, audio, last, base, counters, lagged, raced, split>>

MarkDigit(d) ==
  /\ digit[d].pc = "sent"
  /\ digit' = [digit EXCEPT ![d] = [pc |-> "idle", ts |-> digit[d].ts]]
  /\ Mark(digit[d].ts)
  /\ lagged' = (lagged \/ (Known /\ play.pc = "off" /\ now > timeline.at))
  /\ UNCHANGED <<now, play, silent, audio, last, base, counters, raced, split>>

-----------------------------------------------------------------------------
\* A re-INVITE (handle_reinvite, set_audio_silent).
SetSilent ==
  /\ silent' = ~silent
  /\ UNCHANGED <<now, timeline, play, digit, audio, last, base, counters, lagged, raced, split>>

\* Time passes while every task waits.
Pass ==
  /\ now < MaxNow
  /\ play.pc \in {"off", "waiting"} /\ ~Sending
  /\ now' = now + 1
  /\ UNCHANGED <<timeline, play, silent, digit, audio, last, base, counters, lagged, raced, split>>

Playback == Start \/ SilentTick \/ MarkTick \/ EmptyTick \/ SendAudio \/ End

SendDtmf(d) == Peek(d) \/ SendDigit(d) \/ DigitFails(d) \/ MarkDigit(d)

Next == Playback \/ (\E d \in Senders : SendDtmf(d)) \/ SetSilent \/ Pass

Spec == Init /\ [][Next]_vars

-----------------------------------------------------------------------------
\* No frame, of audio or of a digit, is behind the one sent before it, through
\* playbacks that end or are dropped, holds and digits, unless a digit meets a
\* step of the playback (session_rtp_ts_peek keeps digits on the grid of the
\* audio).
NeverBack == [][~raced' => last' >= last]_vars

\* Two frames of audio never share a timestamp, although playbacks follow
\* each other at once or are dropped between any two frames.
AudioAdvances == [][SendAudio /\ ~raced' => play.ts > audio.ts]_vars

\* Audio is ahead of real time by no more than one frame for each playback
\* before, however they are spaced.
NotAhead ==
  ~split /\ audio.ts # None
    => audio.ts - base.ts <= audio.at - base.at + Frame * (starts - 1)

\* Audio is behind real time by less than one frame, through idle times and
\* holds, as long as no tick is missed, no frame is kept by the encoder and no
\* digit is sent while nothing is played.
KeepsUp ==
  ~raced /\ ~lagged /\ audio.ts # None
    => audio.ts - base.ts > audio.at - base.at - Frame
=============================================================================

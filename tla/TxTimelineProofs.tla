-------------------------- MODULE TxTimelineProofs --------------------------
(***************************************************************************)
(* Theorems about TxTimeline, for any length of a frame, any number of     *)
(* playbacks, digits and tasks that send them, and any time.               *)
(***************************************************************************)
EXTENDS TxTimeline, TLAPS

Types ==
  /\ now \in Nat /\ starts \in Nat
  /\ timeline \in [ts : Stamps, at : Nat]
  /\ play \in [pc : {"off", "started", "waiting", "marked"}, ts : Nat, due : Nat, at : Nat]
  /\ digit \in [Senders -> [pc : {"idle", "peeked", "sent"}, ts : Nat]]
  /\ audio \in [ts : Stamps, at : Nat]
  /\ last \in Stamps
  /\ base \in [ts : Nat, at : Nat]
  /\ lagged \in BOOLEAN /\ raced \in BOOLEAN /\ split \in BOOLEAN
  /\ timeline.at <= now

On == play.pc # "off"

\* The playback is between two of its steps that belong together.
Amid == play.pc \in {"started", "marked"}

\* What a digit that met nothing can rely on.
Alone ==
  ~raced => /\ Amid => ~Sending
            /\ \A d, e \in Senders :
                 digit[d].pc # "idle" /\ digit[e].pc # "idle" => d = e
            /\ Sending /\ ~Known => ~On

\* Where the timestamps are on the grid.
Grid ==
  /\ ~Known => audio.ts = None
  /\ play.pc = "marked" => Known
  /\ ~raced =>
       /\ ~Known /\ (\A d \in Senders : digit[d].pc # "sent") => last = None
       /\ Known => last <= timeline.ts /\ audio.ts < timeline.ts
       /\ play.pc \in {"started", "waiting"} /\ Known => play.ts >= timeline.ts
       /\ play.pc = "marked" =>
            timeline.ts = play.ts + Frame /\ last <= play.ts /\ audio.ts < play.ts
       /\ \A d \in Senders : digit[d].pc # "idle" =>
            last <= digit[d].ts /\ (Known => digit[d].ts = timeline.ts)

IInv == Types /\ Alone /\ Grid

\* The next tick is a whole number of frames later.
LEMMA DueLater ==
  ASSUME Types, now >= play.due
  PROVE  /\ NextDue \in Nat /\ NextDue >= play.due + Frame /\ NextDue > now
         /\ ~Late => NextDue = play.due + Frame
<1> DEFINE x == now - play.due
<1>1. x \in Nat /\ Frame \in Nat \ {0}
  BY TimelineAssumption DEF Types
<1>2. x % Frame \in 0 .. Frame - 1 /\ x % Frame <= x
  BY <1>1
<1>3. x < Frame => x % Frame = x
  BY <1>1
<1>4. NextDue = (now + Frame) - (x % Frame)
  BY DEF NextDue
<1>5. play.due \in Nat /\ now \in Nat /\ x = now - play.due
  BY DEF Types
<1> HIDE DEF x
<1> QED BY <1>1, <1>2, <1>3, <1>4, <1>5 DEF Late

LEMMA InitInv == Init => IInv
<1> SUFFICES ASSUME Init PROVE IInv
  OBVIOUS
<1>1. \A d \in Senders : digit[d] = [pc |-> "idle", ts |-> 0]
  BY DEF Init
<1>2. play = [pc |-> "off", ts |-> 0, due |-> 0, at |-> 0] /\ timeline = [ts |-> None, at |-> 0]
      /\ audio = [ts |-> None, at |-> 0] /\ last = None
  BY DEF Init
<1>3. Types
  <2>1. digit \in [Senders -> [pc : {"idle", "peeked", "sent"}, ts : Nat]]
    BY DEF Init
  <2>2. timeline \in [ts : Stamps, at : Nat] /\ audio \in [ts : Stamps, at : Nat]
        /\ last \in Stamps /\ timeline.at = 0
    BY <1>2 DEF Stamps, None
  <2>3. play \in [pc : {"off", "started", "waiting", "marked"}, ts : Nat, due : Nat, at : Nat]
    BY <1>2
  <2>4. base \in [ts : Nat, at : Nat] /\ now = 0 /\ starts = 0
    BY DEF Init
  <2>5. lagged \in BOOLEAN /\ raced \in BOOLEAN /\ split \in BOOLEAN
    BY DEF Init
  <2>6. timeline.at <= now /\ now \in Nat /\ starts \in Nat
    BY <2>2, <2>4
  <2> QED BY <2>1, <2>2, <2>3, <2>4, <2>5, <2>6 DEF Types
<1>4. Alone
  BY <1>1, <1>2 DEF Alone, Sending, Amid
<1>5. Grid
  BY <1>1, <1>2 DEF Grid, Known
<1> QED BY <1>3, <1>4, <1>5 DEF IInv

LEMMA TypesNext == Types /\ [Next]_vars => Types'
<1> SUFFICES ASSUME Types, [Next]_vars PROVE Types'
  OBVIOUS
<1> USE DEF Types, Stamps, None
<1>1. CASE Start
  <2>1. PICK random \in Randoms :
          /\ play' = [pc |-> "started", ts |-> StartTs(random), due |-> now, at |-> timeline.at]
          /\ Choose(random, Sending)
    BY <1>1 DEF Start
  <2>2. random \in Nat /\ StartTs(random) \in Nat
    BY TimelineAssumption DEF StartTs, Known
  <2>3. base' \in [ts : Nat, at : Nat] /\ split' \in BOOLEAN
    BY <2>1, <2>2 DEF Choose
  <2> QED BY <1>1, <2>1, <2>2, <2>3 DEF Start
<1>2. CASE SilentTick
  <2>1. NextDue \in Nat /\ Frame \in Nat
    BY <1>2, DueLater, TimelineAssumption DEF SilentTick, Ticking
  <2>2. play' \in [pc : {"off", "started", "waiting", "marked"}, ts : Nat, due : Nat, at : Nat]
        /\ timeline' \in [ts : Stamps, at : Nat] /\ timeline'.at = now
    BY <1>2, <2>1 DEF SilentTick, Mark
  <2>3. raced' \in BOOLEAN /\ lagged' \in BOOLEAN
    BY <1>2 DEF SilentTick, Ticking
  <2> QED BY <1>2, <2>2, <2>3 DEF SilentTick, Ticking, counters
<1>3. CASE MarkTick
  <2>1. NextDue \in Nat /\ Frame \in Nat
    BY <1>3, DueLater, TimelineAssumption DEF MarkTick, Ticking
  <2>2. play' \in [pc : {"off", "started", "waiting", "marked"}, ts : Nat, due : Nat, at : Nat]
        /\ timeline' \in [ts : Stamps, at : Nat] /\ timeline'.at = now
    BY <1>3, <2>1 DEF MarkTick, Mark
  <2>3. raced' \in BOOLEAN /\ lagged' \in BOOLEAN
    BY <1>3 DEF MarkTick, Ticking
  <2> QED BY <1>3, <2>2, <2>3 DEF MarkTick, Ticking, counters
<1>4. CASE EmptyTick
  <2>1. NextDue \in Nat
    BY <1>4, DueLater DEF EmptyTick, Ticking
  <2>2. raced' \in BOOLEAN
    BY <1>4 DEF EmptyTick, Ticking
  <2> QED BY <1>4, <2>1, <2>2 DEF EmptyTick, Ticking, counters
<1>5. CASE SendAudio
  <2>1. play' \in [pc : {"off", "started", "waiting", "marked"}, ts : Nat, due : Nat, at : Nat]
        /\ play.ts \in Nat
    <3>1. Frame \in Nat /\ play.ts + Frame \in Nat
      BY TimelineAssumption
    <3> QED BY <1>5, <3>1 DEF SendAudio
  <2>2. raced' \in BOOLEAN
    BY <1>5 DEF SendAudio
  <2> QED BY <1>5, <2>1, <2>2 DEF SendAudio, counters
<1>6. CASE End
  BY <1>6 DEF End, counters
<1>7. ASSUME NEW d \in Senders, Peek(d)
      PROVE  Types'
  <2>1. PICK random \in Randoms :
          /\ digit' = [digit EXCEPT ![d] = [pc |-> "peeked", ts |-> PeekTs(random)]]
          /\ Choose(random, play.pc # "off" \/ Sending)
    BY <1>7 DEF Peek
  <2>2. random \in Nat /\ PeekTs(random) \in Nat
    BY TimelineAssumption DEF PeekTs, Known
  <2>3. base' \in [ts : Nat, at : Nat] /\ split' \in BOOLEAN
    BY <2>1, <2>2 DEF Choose
  <2> QED BY <1>7, <2>1, <2>2, <2>3 DEF Peek
<1>8. ASSUME NEW d \in Senders, SendDigit(d) \/ DigitFails(d) \/ MarkDigit(d)
      PROVE  Types'
  <2>1. digit[d].ts \in Nat
    OBVIOUS
  <2>2. CASE SendDigit(d)
    BY <2>1, <2>2 DEF SendDigit, counters
  <2>3. CASE DigitFails(d)
    BY <2>1, <2>3 DEF DigitFails, counters
  <2>4. CASE MarkDigit(d)
    <3>1. lagged' \in BOOLEAN
      BY <2>4 DEF MarkDigit
    <3>2. timeline' \in [ts : Stamps, at : Nat] /\ timeline'.at = now
      BY <2>1, <2>4 DEF MarkDigit, Mark
    <3> QED BY <2>1, <2>4, <3>1, <3>2 DEF MarkDigit, counters
  <2> QED BY <1>8, <2>2, <2>3, <2>4
<1>9. CASE SetSilent \/ Pass
  BY <1>9 DEF SetSilent, Pass, counters
<1>10. CASE UNCHANGED vars
  BY <1>10 DEF vars, counters
<1> QED
  BY <1>1, <1>2, <1>3, <1>4, <1>5, <1>6, <1>7, <1>8, <1>9, <1>10 DEF Next, Playback, SendDtmf

LEMMA PlaybackInv == IInv /\ Playback => (Alone /\ Grid)'
<1> SUFFICES ASSUME IInv, Playback PROVE (Alone /\ Grid)'
  OBVIOUS
<1> USE DEF IInv, Types, Alone, Grid, On, Amid, Known, None, Stamps
<1>1. CASE Start
  <2>1. PICK random \in Randoms :
          play' = [pc |-> "started", ts |-> StartTs(random), due |-> now, at |-> timeline.at]
    BY <1>1 DEF Start
  <2>2. Known => StartTs(random) \in Nat /\ StartTs(random) >= timeline.ts
    BY DEF StartTs
  <2>3. Sending' = Sending
    BY <1>1 DEF Start, Sending
  <2>4. Alone'
    BY <1>1, <2>1, <2>3 DEF Start
  <2>5. Grid'
    BY <1>1, <2>1, <2>2, <2>3 DEF Start
  <2> QED BY <2>4, <2>5
<1>2. CASE SilentTick
  <2>1. Sending' = Sending
    BY <1>2 DEF SilentTick, Ticking, Sending
  <2>2. Alone'
    BY <1>2, <2>1 DEF SilentTick, Ticking, Mark
  <2>3. Grid'
    <3>1. play.pc \in {"started", "waiting"} /\ play.ts \in Nat /\ Frame \in Nat \ {0}
      BY <1>2, TimelineAssumption DEF SilentTick, Ticking
    <3>2. play'.pc = "waiting" /\ play'.ts = play.ts + Frame
          /\ timeline'.ts = play.ts + Frame
      BY <1>2 DEF SilentTick, Mark
    <3>3. UNCHANGED <<digit, audio, last>> /\ (~raced' => ~raced /\ ~Sending)
      BY <1>2 DEF SilentTick, Ticking
    <3>4. ~raced' => last <= play.ts /\ audio.ts < play.ts + Frame /\ (Known => audio.ts < play.ts)
      <4>1. last \in Int /\ audio.ts \in Int /\ timeline.ts \in Int
        OBVIOUS
      <4>2. CASE Known
        BY <3>1, <3>3, <4>1, <4>2
      <4>3. CASE ~Known
        BY <3>1, <3>3, <4>3 DEF Sending
      <4> QED BY <4>2, <4>3
    <3>5. ~raced' => \A d \in Senders : digit'[d].pc = "idle"
      BY <3>3 DEF Sending
    <3> QED BY <3>1, <3>2, <3>3, <3>4, <3>5
  <2> QED BY <2>2, <2>3
<1>3. CASE MarkTick
  <2>1. Sending' = Sending
    BY <1>3 DEF MarkTick, Ticking, Sending
  <2>2. Alone'
    BY <1>3, <2>1 DEF MarkTick, Ticking, Mark
  <2>3. Grid'
    <3>1. play.pc \in {"started", "waiting"} /\ play.ts \in Nat /\ Frame \in Nat \ {0}
      BY <1>3, TimelineAssumption DEF MarkTick, Ticking
    <3>2. play'.pc = "marked" /\ play'.ts = play.ts
          /\ timeline'.ts = play.ts + Frame
      BY <1>3 DEF MarkTick, Mark
    <3>3. UNCHANGED <<digit, audio, last>> /\ (~raced' => ~raced /\ ~Sending)
      BY <1>3 DEF MarkTick, Ticking
    <3>4. ~raced' => last <= play.ts /\ audio.ts < play.ts + Frame /\ (Known => audio.ts < play.ts)
      <4>1. last \in Int /\ audio.ts \in Int /\ timeline.ts \in Int
        OBVIOUS
      <4>2. CASE Known
        BY <3>1, <3>3, <4>1, <4>2
      <4>3. CASE ~Known
        BY <3>1, <3>3, <4>3 DEF Sending
      <4> QED BY <4>2, <4>3
    <3>5. ~raced' => \A d \in Senders : digit'[d].pc = "idle"
      BY <3>3 DEF Sending
    <3> QED BY <3>1, <3>2, <3>3, <3>4, <3>5
  <2> QED BY <2>2, <2>3
<1>4. CASE EmptyTick
  <2>1. Sending' = Sending
    BY <1>4 DEF EmptyTick, Ticking, Sending
  <2>2. Alone'
    BY <1>4, <2>1 DEF EmptyTick, Ticking
  <2>3. Grid'
    BY <1>4, <2>1 DEF EmptyTick, Ticking
  <2> QED BY <2>2, <2>3
<1>5. CASE SendAudio
  <2>1. Sending' = Sending
    BY <1>5 DEF SendAudio, Sending
  <2>2. Alone'
    BY <1>5, <2>1 DEF SendAudio
  <2>3. Grid'
    BY <1>5, <2>1, TimelineAssumption DEF SendAudio, Sending
  <2> QED BY <2>2, <2>3
<1>6. CASE End
  <2>1. Sending' = Sending
    BY <1>6 DEF End, Sending
  <2>2. Alone'
    BY <1>6, <2>1 DEF End
  <2>3. Grid'
    BY <1>6, <2>1 DEF End
  <2> QED BY <2>2, <2>3
<1> QED BY <1>1, <1>2, <1>3, <1>4, <1>5, <1>6 DEF Playback

LEMMA DigitInv == ASSUME IInv, NEW d \in Senders, SendDtmf(d) PROVE (Alone /\ Grid)'
<1> USE DEF IInv, Types, Alone, Grid, On, Amid, Known, None, Stamps
<1>1. CASE Peek(d)
  <2>1. PICK random \in Randoms :
          digit' = [digit EXCEPT ![d] = [pc |-> "peeked", ts |-> PeekTs(random)]]
    BY <1>1 DEF Peek
  <2>2. PeekTs(random) \in Nat /\ (Known => PeekTs(random) = timeline.ts)
    BY TimelineAssumption DEF PeekTs
  <2>3. ~raced' => ~raced /\ ~Sending /\ ~Amid /\ (~Known => ~On)
    BY <1>1 DEF Peek
  <2>4. UNCHANGED <<timeline, play, audio, last>>
    BY <1>1 DEF Peek
  <2>5. \A e \in Senders : e # d => digit'[e] = digit[e]
    BY <2>1
  <2>6. digit'[d].pc = "peeked" /\ digit'[d].ts = PeekTs(random)
    BY <2>1, <2>2
  <2>7. Alone'
    BY <2>3, <2>4, <2>5 DEF Sending
  <2>8. Grid'
    BY <2>2, <2>3, <2>4, <2>5, <2>6 DEF Sending
  <2> QED BY <2>7, <2>8
<1>2. CASE SendDigit(d)
  <2>1. UNCHANGED <<timeline, play, audio, raced>> /\ last' = digit[d].ts
    BY <1>2 DEF SendDigit
  <2>2. \A e \in Senders : (digit'[e].pc = "idle" <=> digit[e].pc = "idle") /\ digit'[e].ts = digit[e].ts
    BY <1>2 DEF SendDigit
  <2>3. digit[d].pc # "idle"
    BY <1>2 DEF SendDigit
  <2>4. Sending' /\ Sending
    BY <2>2, <2>3 DEF Sending
  <2>5. Alone'
    BY <2>1, <2>2, <2>4
  <2>6. digit'[d].pc = "sent"
    BY <1>2 DEF SendDigit
  <2>7. ~raced => /\ ~Amid /\ \A e \in Senders : digit'[e].pc # "idle" => e = d
                  /\ (Known => digit[d].ts = timeline.ts)
    BY <2>2, <2>3, <2>4
  <2>8. digit[d].ts \in Nat
    OBVIOUS
  <2>9. Grid'
    BY <2>1, <2>2, <2>6, <2>7, <2>8
  <2> QED BY <2>5, <2>9
<1>3. CASE DigitFails(d)
  <2>1. UNCHANGED <<timeline, play, audio, raced, last>>
    BY <1>3 DEF DigitFails
  <2>2. \A e \in Senders : (digit'[e].pc = "idle" <=> digit[e].pc = "idle" \/ e = d) /\ digit'[e].ts = digit[e].ts
    BY <1>3 DEF DigitFails
  <2>5. Alone'
    BY <2>1, <2>2 DEF Sending
  <2>6. digit[d].pc = "peeked" /\ digit'[d].pc = "idle"
    BY <1>3 DEF DigitFails
  <2>7. ~raced => \A e \in Senders : digit[e].pc # "sent" /\ digit'[e].pc = "idle"
    BY <2>2, <2>6
  <2>8. Grid'
    BY <2>1, <2>2, <2>7
  <2> QED BY <2>5, <2>8
<1>4. CASE MarkDigit(d)
  <2>1. UNCHANGED <<play, audio, raced, last>> /\ timeline' = [ts |-> digit[d].ts, at |-> now]
    BY <1>4 DEF MarkDigit, Mark
  <2>2. \A e \in Senders : (digit'[e].pc = "idle" <=> digit[e].pc = "idle" \/ e = d) /\ digit'[e].ts = digit[e].ts
    BY <1>4 DEF MarkDigit
  <2>3. digit[d].pc # "idle" /\ Sending /\ digit[d].ts \in Nat
    BY <1>4 DEF MarkDigit, Sending
  <2>4. Alone'
    BY <2>1, <2>2 DEF Sending
  <2>5. timeline'.ts = digit[d].ts /\ timeline'.ts \in Nat
    BY <2>1, <2>3
  <2>6. ~raced' => \A e \in Senders : digit'[e].pc = "idle"
    BY <2>1, <2>2, <2>3
  <2>7. ~raced' => last <= digit[d].ts /\ (Known => digit[d].ts = timeline.ts) /\ ~Amid
    BY <2>1, <2>3
  <2>8. Grid'
    BY <2>1, <2>3, <2>5, <2>6, <2>7
  <2> QED BY <2>4, <2>8
<1> QED BY <1>1, <1>2, <1>3, <1>4 DEF SendDtmf

LEMMA NextInv == IInv /\ [Next]_vars => IInv'
<1> SUFFICES ASSUME IInv, [Next]_vars PROVE IInv'
  OBVIOUS
<1>1. Types'
  BY TypesNext DEF IInv
<1>2. CASE Playback
  BY <1>1, <1>2, PlaybackInv DEF IInv
<1>3. ASSUME NEW d \in Senders, SendDtmf(d)
      PROVE  IInv'
  BY <1>1, <1>3, DigitInv DEF IInv
<1>4. CASE SetSilent \/ Pass \/ UNCHANGED vars
  BY <1>1, <1>4 DEF IInv, SetSilent, Pass, vars, counters, Alone, Grid, On, Amid, Sending, Known
<1> QED BY <1>2, <1>3, <1>4 DEF Next

LEMMA Inductive == Spec => []IInv
  BY InitInv, NextInv, PTL DEF Spec

-----------------------------------------------------------------------------
\* No frame is behind the one sent before it, unless a digit meets a step of
\* the playback or another digit (session_rtp_ts_start, _peek and _mark).
THEOREM FramesGoOn == Spec => NeverBack
<1>1. ASSUME IInv, [Next]_vars, ~raced'
      PROVE  last' >= last
  <2> USE DEF IInv, Types, Grid
  <2>1. last \in Int /\ last' \in Int
    BY <1>1, TypesNext DEF Stamps, None
  <2>2. CASE SendAudio
    BY <1>1, <2>2 DEF SendAudio
  <2>3. ASSUME NEW d \in Senders, SendDigit(d)
        PROVE  last' >= last
    BY <1>1, <2>3 DEF SendDigit
  <2>4. CASE ~SendAudio /\ ~\E d \in Senders : SendDigit(d)
    <3>1. last' = last
      BY <1>1, <2>4 DEF Next, Playback, Start, SilentTick, MarkTick, EmptyTick, Ticking, End,
                        SendDtmf, Peek, DigitFails, MarkDigit, SetSilent, Pass, vars
    <3> QED BY <2>1, <3>1
  <2> QED BY <2>2, <2>3, <2>4
<1> QED BY <1>1, Inductive, PTL DEF Spec, NeverBack

\* Two frames of audio never share a timestamp, with the same exception
\* (play_samples marks the next timestamp, also for the next playback).
THEOREM AudioGoesOn == Spec => AudioAdvances
<1>1. IInv /\ [Next]_vars => (SendAudio /\ ~raced' => play.ts > audio.ts)
  BY DEF IInv, Types, Grid, SendAudio, Stamps, None
<1> QED BY <1>1, Inductive, PTL DEF Spec, AudioAdvances

-----------------------------------------------------------------------------
\* How far timestamp x at time t is ahead of the first one.
Lead(x, t) == (x - base.ts) - (t - base.at)

\* What the playbacks so far may be ahead.
Credit == Frame * starts

LEMMA CreditStep ==
  ASSUME Types
  PROVE  /\ Credit \in Nat /\ Frame * (starts - 1) = Credit - Frame
         /\ starts' = starts => Credit' = Credit
         /\ starts' = starts + 1 => Credit' = Credit + Frame
  BY TimelineAssumption DEF Types, Credit

\* A playback is ahead by no more than one frame for each before it; what is
\* marked may be one frame further.
Ahead ==
  ~split =>
    /\ Known => Lead(timeline.ts, timeline.at) <= Credit
    /\ play.pc \in {"started", "waiting"} => Lead(play.ts, play.due) <= Credit - Frame
    /\ play.pc = "marked" =>
         /\ Lead(play.ts, now) <= Credit - Frame
         /\ Lead(play.ts + Frame, play.due) <= Credit - Frame
    /\ \A d \in Senders : digit[d].pc # "idle" => Lead(digit[d].ts, now) <= Credit
    /\ audio.ts # None => Lead(audio.ts, audio.at) <= Credit - Frame

LEMMA AheadPlayback == IInv /\ Ahead /\ Playback => Ahead'
<1> SUFFICES ASSUME IInv, Ahead, Playback PROVE Ahead'
  OBVIOUS
<1> USE DEF IInv, Types, Known, Stamps, None
<1>0. Frame \in Nat \ {0} /\ Credit \in Nat
  BY TimelineAssumption, CreditStep
<1>1. CASE Start
  <2>1. PICK random \in Randoms :
          /\ play' = [pc |-> "started", ts |-> StartTs(random), due |-> now, at |-> timeline.at]
          /\ Choose(random, Sending)
    BY <1>1 DEF Start
  <2>2. Credit' = Credit + Frame /\ random \in Nat
    BY <1>1, CreditStep, TimelineAssumption DEF Start
  <2>3. UNCHANGED <<now, timeline, digit, audio>>
    BY <1>1 DEF Start
  <2>4. CASE Known
    <3>1. base' = base /\ (split' = split) /\ StartTs(random) = timeline.ts + (now - timeline.at)
      BY <2>1, <2>4 DEF Choose, StartTs
    <3> QED BY <1>0, <2>1, <2>2, <2>3, <2>4, <3>1 DEF Ahead, Lead
  <2>5. CASE ~Known
    <3>1. base' = [ts |-> random, at |-> now] /\ StartTs(random) = random
          /\ (~split' => ~split /\ ~Sending)
      BY <2>1, <2>5 DEF Choose, StartTs
    <3>2. audio.ts = None /\ (~split' => \A d \in Senders : digit[d].pc = "idle")
      BY <2>5, <3>1 DEF Grid, Sending
    <3> QED BY <1>0, <2>1, <2>2, <2>3, <2>5, <3>1, <3>2 DEF Ahead, Lead
  <2> QED BY <2>4, <2>5
<1>2. ASSUME SilentTick \/ MarkTick \/ EmptyTick
      PROVE  Ahead'
  <2>1. Ticking
    BY <1>2 DEF SilentTick, MarkTick, EmptyTick
  <2>2. NextDue \in Nat /\ NextDue >= play.due + Frame
    BY <2>1, DueLater DEF Ticking
  <2>3. UNCHANGED <<now, digit, audio, base, split>> /\ Credit' = Credit
    BY <2>1, CreditStep DEF Ticking, counters
  <2>4. play.pc \in {"started", "waiting"} /\ now >= play.due
    BY <2>1 DEF Ticking
  <2>5. CASE SilentTick
    <3>1. play' = [pc |-> "waiting", ts |-> play.ts + Frame, due |-> NextDue, at |-> now]
          /\ timeline' = [ts |-> play.ts + Frame, at |-> now]
      BY <2>5 DEF SilentTick, Mark
    <3> QED BY <1>0, <2>2, <2>3, <2>4, <3>1 DEF Ahead, Lead
  <2>6. CASE MarkTick
    <3>1. play' = [pc |-> "marked", ts |-> play.ts, due |-> NextDue, at |-> now]
          /\ timeline' = [ts |-> play.ts + Frame, at |-> now]
      BY <2>6 DEF MarkTick, Mark
    <3> QED BY <1>0, <2>2, <2>3, <2>4, <3>1 DEF Ahead, Lead
  <2>7. CASE EmptyTick
    <3>1. play' = [pc |-> "waiting", ts |-> play.ts, due |-> NextDue, at |-> play.at]
          /\ timeline' = timeline
      BY <2>7 DEF EmptyTick
    <3> QED BY <1>0, <2>2, <2>3, <2>4, <3>1 DEF Ahead, Lead
  <2> QED BY <1>2, <2>5, <2>6, <2>7
<1>3. CASE SendAudio
  <2>1. play'.pc = "waiting" /\ play'.ts = play.ts + Frame /\ play'.due = play.due
        /\ audio' = [ts |-> play.ts, at |-> now] /\ play.pc = "marked"
    BY <1>3 DEF SendAudio
  <2>2. UNCHANGED <<now, timeline, digit, base, split>> /\ Credit' = Credit
    BY <1>3, CreditStep DEF SendAudio, counters
  <2> QED BY <1>0, <2>1, <2>2 DEF Ahead, Lead
<1>4. CASE End
  <2>1. play'.pc = "off" /\ UNCHANGED <<now, timeline, digit, audio, base, split>>
    BY <1>4 DEF End
  <2>2. Credit' = Credit
    BY <1>4, CreditStep DEF End, counters
  <2> QED BY <2>1, <2>2 DEF Ahead, Lead
<1> QED BY <1>1, <1>2, <1>3, <1>4 DEF Playback

LEMMA AheadDigit == ASSUME IInv, Ahead, NEW d \in Senders, SendDtmf(d) PROVE Ahead'
<1> USE DEF IInv, Types, Known, Stamps, None
<1>1. CASE Peek(d)
  <2>1. PICK random \in Randoms :
          /\ digit' = [digit EXCEPT ![d] = [pc |-> "peeked", ts |-> PeekTs(random)]]
          /\ Choose(random, play.pc # "off" \/ Sending)
    BY <1>1 DEF Peek
  <2>2. UNCHANGED <<now, timeline, play, audio>> /\ Credit' = Credit
    BY <1>1, CreditStep DEF Peek
  <2>3. \A e \in Senders : e # d => digit'[e] = digit[e]
    BY <2>1
  <2>4. digit'[d].ts = PeekTs(random) /\ random \in Nat /\ Credit \in Nat
    BY <2>1, TimelineAssumption, CreditStep
  <2>5. CASE Known
    <3>1. base' = base /\ split' = split /\ PeekTs(random) = timeline.ts
      BY <2>1, <2>5 DEF Choose, PeekTs
    <3> QED BY <2>2, <2>3, <2>4, <2>5, <3>1 DEF Ahead, Lead
  <2>6. CASE ~Known
    <3>1. base' = [ts |-> random, at |-> now] /\ PeekTs(random) = random
          /\ (~split' => play.pc = "off" /\ ~Sending)
      BY <2>1, <2>6 DEF Choose, PeekTs
    <3>2. audio.ts = None /\ (~split' => \A e \in Senders : digit[e].pc = "idle")
      BY <2>6, <3>1 DEF Grid, Sending
    <3> QED BY <2>2, <2>3, <2>4, <2>6, <3>1, <3>2 DEF Ahead, Lead
  <2> QED BY <2>5, <2>6
<1>2. CASE SendDigit(d) \/ DigitFails(d)
  <2>1. UNCHANGED <<now, timeline, play, audio, base, split>> /\ Credit' = Credit
    BY <1>2, CreditStep DEF SendDigit, DigitFails, counters
  <2>2. \A e \in Senders : digit'[e].ts = digit[e].ts /\ (digit'[e].pc # "idle" => digit[e].pc # "idle")
    BY <1>2 DEF SendDigit, DigitFails
  <2> QED BY <2>1, <2>2 DEF Ahead, Lead
<1>3. CASE MarkDigit(d)
  <2>1. UNCHANGED <<now, play, audio, base, split>> /\ Credit' = Credit
    BY <1>3, CreditStep DEF MarkDigit, counters
  <2>2. timeline' = [ts |-> digit[d].ts, at |-> now] /\ digit[d].pc # "idle"
    BY <1>3 DEF MarkDigit, Mark
  <2>3. \A e \in Senders : digit'[e].ts = digit[e].ts /\ (digit'[e].pc # "idle" => digit[e].pc # "idle")
    BY <1>3 DEF MarkDigit
  <2> QED BY <2>1, <2>2, <2>3 DEF Ahead, Lead
<1> QED BY <1>1, <1>2, <1>3 DEF SendDtmf

LEMMA AheadNext == IInv /\ Ahead /\ [Next]_vars => Ahead'
<1> SUFFICES ASSUME IInv, Ahead, [Next]_vars PROVE Ahead'
  OBVIOUS
<1>1. CASE Pass
  <2>1. now' = now + 1 /\ UNCHANGED <<timeline, play, digit, audio, base, split>>
        /\ play.pc # "marked" /\ (\A d \in Senders : digit[d].pc = "idle")
    BY <1>1 DEF Pass, Sending
  <2>2. Credit' = Credit
    BY <1>1, CreditStep DEF Pass, counters, IInv
  <2> QED BY <2>1, <2>2 DEF Ahead, Lead, Known
<1>2. CASE SetSilent \/ UNCHANGED vars
  <2>1. Credit' = Credit
    BY <1>2, CreditStep DEF SetSilent, vars, counters, IInv
  <2> QED BY <1>2, <2>1 DEF SetSilent, vars, Ahead, Lead, Known
<1> QED BY <1>1, <1>2, AheadPlayback, AheadDigit DEF Next

\* Audio is never ahead of real time by more than one frame for each playback
\* before: a playback begins at the marked timestamp and the time passed since
\* (session_rtp_ts_start), and its ticker never runs ahead.
THEOREM NeverTooFarAhead == Spec => []NotAhead
<1>1. Init => Ahead
  BY DEF Init, Ahead, Known
<1>2. IInv /\ Ahead => NotAhead
  <2> SUFFICES ASSUME IInv, Ahead, ~split, audio.ts # None
               PROVE  audio.ts - base.ts <= audio.at - base.at + Frame * (starts - 1)
    BY DEF NotAhead
  <2>1. Frame * (starts - 1) = Credit - Frame /\ Credit \in Nat
    BY CreditStep DEF IInv
  <2>2. (audio.ts - base.ts) - (audio.at - base.at) <= Credit - Frame
    BY DEF Ahead, Lead
  <2>3. audio.ts \in Int /\ base.ts \in Int /\ audio.at \in Int /\ base.at \in Int /\ Frame \in Int
    BY TimelineAssumption DEF IInv, Types, Stamps, None
  <2> QED BY <2>1, <2>2, <2>3
<1> QED BY <1>1, <1>2, AheadNext, Inductive, PTL DEF Spec

-----------------------------------------------------------------------------
\* Without lost time a playback is never behind: its next timestamp is that of
\* the time its ticker is due, and what it leaves marked when it ends is that
\* of the time of the mark.
Kept ==
  /\ Known /\ (On => timeline.at = play.at) => Lead(timeline.ts, timeline.at) >= 0
  /\ play.pc \in {"started", "waiting"} => Lead(play.ts, play.due) >= 0
  /\ play.pc = "marked" => Lead(play.ts + Frame, play.due) >= 0 /\ Lead(play.ts, now) > -Frame
  /\ ~Known => \A d \in Senders : digit[d].pc # "idle" => digit[d].ts = base.ts /\ base.at = now
  /\ audio.ts # None => Lead(audio.ts, audio.at) > -Frame

Behind ==
  /\ On => play.at <= timeline.at
  /\ ~raced /\ ~lagged => Kept

LEMMA BehindTick ==
  ASSUME IInv, Behind, SilentTick \/ MarkTick \/ EmptyTick
  PROVE  Behind'
<1> USE DEF IInv, Types, Known, Stamps, None, On
<1>1. Ticking
  BY DEF SilentTick, MarkTick, EmptyTick
<1>2. UNCHANGED <<now, digit, audio, base>> /\ play.pc \in {"started", "waiting"} /\ now >= play.due
  BY <1>1 DEF Ticking
<1>3. ~raced' => ~raced /\ \A d \in Senders : digit[d].pc = "idle"
  BY <1>1 DEF Ticking, Sending
<1>4. ~lagged' => ~lagged /\ ~Late
  BY DEF SilentTick, MarkTick, EmptyTick
<1>5. ~Late => NextDue = play.due + Frame /\ now < play.due + Frame
  BY <1>2, DueLater, TimelineAssumption DEF Late
<1>6. NextDue \in Nat /\ Frame \in Nat \ {0}
  BY <1>2, DueLater, TimelineAssumption
<1>7. CASE SilentTick
  <2>1. play' = [pc |-> "waiting", ts |-> play.ts + Frame, due |-> NextDue, at |-> now]
        /\ timeline' = [ts |-> play.ts + Frame, at |-> now]
    BY <1>7 DEF SilentTick, Mark
  <2>2. ~raced' /\ ~lagged' => Kept'
    BY <1>2, <1>3, <1>4, <1>5, <1>6, <2>1 DEF Behind, Kept, Lead
  <2> QED BY <2>1, <2>2 DEF Behind
<1>8. CASE MarkTick
  <2>1. play' = [pc |-> "marked", ts |-> play.ts, due |-> NextDue, at |-> now]
        /\ timeline' = [ts |-> play.ts + Frame, at |-> now]
    BY <1>8 DEF MarkTick, Mark
  <2>2. ~raced' /\ ~lagged' => Kept'
    BY <1>2, <1>3, <1>4, <1>5, <1>6, <2>1 DEF Behind, Kept, Lead
  <2> QED BY <2>1, <2>2 DEF Behind
<1>9. CASE EmptyTick
  <2>1. play'.pc = "waiting" /\ play'.at = play.at /\ timeline' = timeline /\ lagged'
    BY <1>9 DEF EmptyTick
  <2> QED BY <1>2, <2>1 DEF Behind
<1> QED BY <1>7, <1>8, <1>9

LEMMA BehindPlayback == IInv /\ Behind /\ Playback => Behind'
<1> SUFFICES ASSUME IInv, Behind, Playback PROVE Behind'
  OBVIOUS
<1> USE DEF IInv, Types, Known, Stamps, None, On
<1>1. CASE Start
  <2>1. PICK random \in Randoms :
          /\ play' = [pc |-> "started", ts |-> StartTs(random), due |-> now, at |-> timeline.at]
          /\ Choose(random, Sending)
    BY <1>1 DEF Start
  <2>2. UNCHANGED <<now, timeline, digit, audio, lagged>> /\ play.pc = "off" /\ random \in Nat
    BY <1>1, TimelineAssumption DEF Start
  <2>3. ~raced' => ~raced /\ \A d \in Senders : digit[d].pc = "idle"
    BY <1>1 DEF Start, Sending
  <2>4. CASE Known
    <3>1. base' = base /\ StartTs(random) = timeline.ts + (now - timeline.at)
      BY <2>1, <2>4 DEF Choose, StartTs
    <3> QED BY <2>1, <2>2, <2>3, <2>4, <3>1 DEF Behind, Kept, Lead
  <2>5. CASE ~Known
    <3>1. base' = [ts |-> random, at |-> now] /\ StartTs(random) = random
      BY <2>1, <2>5 DEF Choose, StartTs
    <3>2. audio.ts = None
      BY <2>5 DEF Grid
    <3> QED BY <2>1, <2>2, <2>3, <2>5, <3>1, <3>2 DEF Behind, Kept, Lead
  <2> QED BY <2>4, <2>5
<1>2. CASE SilentTick \/ MarkTick \/ EmptyTick
  BY <1>2, BehindTick
<1>3. CASE SendAudio
  <2>1. play'.pc = "waiting" /\ play'.ts = play.ts + Frame /\ play'.due = play.due
        /\ play'.at = play.at
        /\ audio' = [ts |-> play.ts, at |-> now] /\ play.pc = "marked"
    BY <1>3 DEF SendAudio
  <2>2. UNCHANGED <<now, timeline, digit, base, lagged>> /\ (~raced' => ~raced)
    BY <1>3 DEF SendAudio
  <2> QED BY <2>1, <2>2 DEF Behind, Kept, Lead
<1>4. CASE End
  <2>1. play.pc # "off" /\ play'.pc = "off" /\ UNCHANGED <<now, timeline, digit, audio, base>>
    BY <1>4 DEF End
  <2>2. ~lagged' => ~lagged /\ timeline.at = play.at
    BY <1>4 DEF End
  <2>3. ~raced' => ~raced
    BY <1>4 DEF End
  <2> QED BY <2>1, <2>2, <2>3 DEF Behind, Kept, Lead
<1> QED BY <1>1, <1>2, <1>3, <1>4 DEF Playback

LEMMA BehindDigit == ASSUME IInv, Behind, NEW d \in Senders, SendDtmf(d) PROVE Behind'
<1> USE DEF IInv, Types, Known, Stamps, None, On
<1>1. CASE Peek(d)
  <2>1. PICK random \in Randoms :
          /\ digit' = [digit EXCEPT ![d] = [pc |-> "peeked", ts |-> PeekTs(random)]]
          /\ Choose(random, play.pc # "off" \/ Sending)
    BY <1>1 DEF Peek
  <2>2. UNCHANGED <<now, timeline, play, audio, lagged>>
    BY <1>1 DEF Peek
  <2>3. ~raced' => ~raced /\ (\A e \in Senders : digit[e].pc = "idle") /\ (~Known => play.pc = "off")
    BY <1>1 DEF Peek, Sending
  <2>4. \A e \in Senders : e # d => digit'[e] = digit[e]
    BY <2>1
  <2>5. digit'[d].ts = PeekTs(random) /\ random \in Nat
    BY <2>1, TimelineAssumption
  <2>6. CASE Known
    <3>1. base' = base
      BY <2>1, <2>6 DEF Choose
    <3> QED BY <2>2, <2>3, <2>6, <3>1 DEF Behind, Kept, Lead
  <2>7. CASE ~Known
    <3>1. base' = [ts |-> random, at |-> now] /\ PeekTs(random) = random
      BY <2>1, <2>7 DEF Choose, PeekTs
    <3>2. audio.ts = None
      BY <2>7 DEF Grid
    <3>3. ~raced' => \A e \in Senders :
                       digit'[e].pc # "idle" => digit'[e].ts = base'.ts /\ base'.at = now
      BY <2>3, <2>4, <2>5, <3>1
    <3> QED BY <2>2, <2>3, <2>7, <3>1, <3>2, <3>3 DEF Behind, Kept, Lead
  <2> QED BY <2>6, <2>7
<1>2. CASE SendDigit(d) \/ DigitFails(d)
  <2>1. UNCHANGED <<now, timeline, play, audio, base, lagged, raced>>
    BY <1>2 DEF SendDigit, DigitFails, counters
  <2>2. \A e \in Senders : digit'[e].ts = digit[e].ts /\ (digit'[e].pc # "idle" => digit[e].pc # "idle")
    BY <1>2 DEF SendDigit, DigitFails
  <2> QED BY <2>1, <2>2 DEF Behind, Kept, Lead
<1>3. CASE MarkDigit(d)
  <2>1. UNCHANGED <<now, play, audio, base, raced>>
    BY <1>3 DEF MarkDigit, counters
  <2>2. timeline' = [ts |-> digit[d].ts, at |-> now] /\ digit[d].pc # "idle" /\ digit[d].ts \in Nat
    BY <1>3 DEF MarkDigit, Mark
  <2>3. ~lagged' => ~lagged /\ (Known /\ play.pc = "off" => timeline.at = now)
    <3>1. ~lagged' => ~lagged /\ ~(Known /\ play.pc = "off" /\ now > timeline.at)
      BY <1>3 DEF MarkDigit
    <3> QED BY <3>1
  <2>4. ~raced => (Known => digit[d].ts = timeline.ts) /\ (~Known => play.pc = "off")
    BY <2>2 DEF Grid, Alone, Sending
  <2>5. CASE Known
    BY <2>1, <2>2, <2>3, <2>4, <2>5 DEF Behind, Kept, Lead
  <2>6. CASE ~Known
    BY <2>1, <2>2, <2>3, <2>4, <2>6 DEF Behind, Kept, Lead
  <2> QED BY <2>5, <2>6
<1> QED BY <1>1, <1>2, <1>3 DEF SendDtmf

LEMMA BehindNext == IInv /\ Behind /\ [Next]_vars => Behind'
<1> SUFFICES ASSUME IInv, Behind, [Next]_vars PROVE Behind'
  OBVIOUS
<1>1. CASE Pass
  <2>1. UNCHANGED <<timeline, play, digit, audio, base, lagged, raced>>
        /\ play.pc # "marked" /\ (\A d \in Senders : digit[d].pc = "idle")
    BY <1>1 DEF Pass, Sending
  <2> QED BY <2>1 DEF Behind, Kept, Lead, Known, On
<1>2. CASE SetSilent \/ UNCHANGED vars
  BY <1>2 DEF SetSilent, vars, Behind, Kept, Lead, Known, On
<1> QED BY <1>1, <1>2, BehindPlayback, BehindDigit DEF Next

\* Audio is behind real time by less than a frame, if no time is lost to late
\* ticks, an encoder that keeps a frame, or digits between playbacks.
THEOREM AudioKeepsUp == Spec => []KeepsUp
<1>1. Init => Behind
  BY DEF Init, Behind, Kept, Known, On
<1>2. IInv /\ Behind => KeepsUp
  <2> SUFFICES ASSUME IInv, Behind, ~raced, ~lagged, audio.ts # None
               PROVE  audio.ts - base.ts > audio.at - base.at - Frame
    BY DEF KeepsUp
  <2>1. (audio.ts - base.ts) - (audio.at - base.at) > -Frame
    BY DEF Behind, Kept, Lead
  <2>2. audio.ts \in Int /\ base.ts \in Int /\ audio.at \in Int /\ base.at \in Int /\ Frame \in Int
    BY TimelineAssumption DEF IInv, Types, Stamps, None
  <2> QED BY <2>1, <2>2
<1> QED BY <1>1, <1>2, BehindNext, Inductive, PTL DEF Spec

-----------------------------------------------------------------------------
\* What TypeOK says of the bounds, and of the times that are remembered.
Bounded ==
  /\ now <= MaxNow /\ starts <= MaxStarts /\ digits \in 0 .. MaxDigits
  /\ silent \in BOOLEAN
  /\ play.at <= now /\ audio.at <= now /\ base.at <= now

LEMMA BoundedNext == Types /\ Types' /\ Bounded /\ [Next]_vars => Bounded'
<1> SUFFICES ASSUME Types, Types', Bounded, [Next]_vars PROVE Bounded'
  OBVIOUS
<1>0. /\ now \in Nat /\ starts \in Nat /\ timeline.at \in Nat /\ timeline.at <= now
      /\ play.at \in Nat /\ audio.at \in Nat /\ base.at \in Nat
      /\ MaxNow \in Nat /\ MaxStarts \in Nat /\ MaxDigits \in Nat
  BY TimelineAssumption DEF Types
<1>1. CASE Start
  <2>1. play'.at = timeline.at /\ base'.at \in {base.at, now}
    BY <1>1 DEF Start, Choose
  <2> QED BY <1>0, <1>1, <2>1 DEF Start, Bounded
<1>2. CASE SilentTick \/ MarkTick \/ EmptyTick
  <2>1. play'.at \in {now, play.at} /\ UNCHANGED <<now, silent, audio, base, starts, digits>>
    BY <1>2 DEF SilentTick, MarkTick, EmptyTick, Ticking, counters
  <2> QED BY <1>0, <2>1 DEF Bounded
<1>3. CASE SendAudio \/ End
  <2>1. play'.at = play.at
    BY <1>3 DEF SendAudio, End, Types
  <2>2. audio'.at \in {now, audio.at}
    BY <1>3 DEF SendAudio, End
  <2>3. UNCHANGED <<now, silent, base, starts, digits>>
    BY <1>3 DEF SendAudio, End, counters
  <2> QED BY <1>0, <2>1, <2>2, <2>3 DEF Bounded
<1>4. ASSUME NEW d \in Senders, SendDtmf(d)
      PROVE  Bounded'
  <2>1. /\ base'.at \in {base.at, now}
        /\ digits' \in {digits, digits + 1} /\ (digits' # digits => digits < MaxDigits)
        /\ UNCHANGED <<now, silent, play, audio, starts>>
    BY <1>4 DEF SendDtmf, Peek, SendDigit, DigitFails, MarkDigit, Choose, counters
  <2>2. digits' \in 0 .. MaxDigits
    BY <1>0, <2>1 DEF Bounded
  <2> QED BY <1>0, <2>1, <2>2 DEF Bounded
<1>5. CASE SetSilent
  BY <1>5 DEF SetSilent, counters, Bounded
<1>6. CASE Pass
  BY <1>0, <1>6 DEF Pass, counters, Bounded
<1>7. CASE UNCHANGED vars
  BY <1>7 DEF vars, counters, Bounded
<1> QED
  BY <1>1, <1>2, <1>3, <1>4, <1>5, <1>6, <1>7 DEF Next, Playback

\* The variables keep their types: no timestamp is negative, and no time that
\* is remembered lies in the future.
THEOREM TypeCorrect == Spec => []TypeOK
<1>1. Init => Bounded
  <2> SUFFICES ASSUME Init PROVE Bounded
    OBVIOUS
  <2>1. now = 0 /\ starts = 0 /\ digits = 0 /\ silent = FALSE
    BY DEF Init
  <2>2. play.at = 0 /\ audio.at = 0 /\ base.at = 0
    BY DEF Init
  <2>3. now <= MaxNow /\ starts <= MaxStarts /\ digits \in 0 .. MaxDigits
    BY <2>1, TimelineAssumption
  <2>4. play.at <= now /\ audio.at <= now /\ base.at <= now
    BY <2>1, <2>2
  <2>5. silent \in BOOLEAN
    BY <2>1
  <2> QED BY <2>3, <2>4, <2>5 DEF Bounded
<1>2. IInv /\ IInv' /\ Bounded /\ [Next]_vars => Bounded'
  BY BoundedNext DEF IInv
<1>3. IInv /\ Bounded => TypeOK
  <2> SUFFICES ASSUME IInv, Bounded PROVE TypeOK
    OBVIOUS
  <2>1. /\ timeline \in [ts : Stamps, at : 0 .. MaxNow]
        /\ play \in [pc : {"off", "started", "waiting", "marked"}, ts : Nat, due : Nat, at : 0 .. MaxNow]
        /\ audio \in [ts : Stamps, at : 0 .. MaxNow]
        /\ base \in [ts : Nat, at : 0 .. MaxNow]
    BY TimelineAssumption DEF IInv, Types, Bounded
  <2>2. now \in 0 .. MaxNow /\ starts \in 0 .. MaxStarts
    BY TimelineAssumption DEF IInv, Types, Bounded
  <2> QED BY <2>1, <2>2 DEF IInv, Types, Bounded, TypeOK
<1> QED BY <1>1, <1>2, <1>3, Inductive, PTL DEF Spec
=============================================================================

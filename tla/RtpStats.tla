------------------------------ MODULE RtpStats ------------------------------
(***************************************************************************)
(* What the loop that reads an inbound track (src/media.rs) counts of its  *)
(* sequence numbers and RTP timestamps, and the timestamps it sends on: a  *)
(* record loop (process_recorded_sample) counts the frames as they come,   *)
(* an echo or bridge loop (process_sample) first rewrites the timestamps   *)
(* that are too far from the one it expects, and sends the frame on unless *)
(* the call is on hold.  Either passes over telephone events, which take   *)
(* sequence numbers like any packet, before it counts anything.            *)
(*                                                                         *)
(* Sequence numbers wrap at SeqMod and timestamps at TsMod, 2^16 and 2^32  *)
(* in the code.  The peer and the network are external: packets are lost,  *)
(* duplicated and reordered, and the peer's clock may jump.  A packet is   *)
(* named by its number n, of which its sequence number is the remainder.   *)
(***************************************************************************)
EXTENDS Integers, FiniteSets

CONSTANTS
  SeqMod,     \* the sequence numbers a u16 holds
  TsMod,      \* the timestamps a u32 holds
  Ticks,      \* the durations of frames, in ticks of the RTP clock
  Reasonable, \* max_reasonable_jump, ten seconds in ticks
  Tolerance,  \* ts_jump_tolerance_ms in ticks
  Base,       \* the number of the peer's first packet
  BaseTs,     \* its timestamp
  MaxPackets, \* bound: packets the peer sends
  MaxEvents,  \* bound: telephone events among them
  MaxJumps,   \* bound: jumps of the peer's clock
  Window      \* bound: how far the network reorders

\* u32::MAX / 2
HalfMax == (TsMod - 1) \div 2

ASSUME StatsAssumption ==
  /\ SeqMod \in Nat \ {0} /\ TsMod \in Nat \ {0}
  /\ Reasonable \in Nat /\ Tolerance \in 0 .. Reasonable
  /\ \A len \in Ticks : len \in Nat /\ Reasonable + len < HalfMax
  /\ Base \in Nat /\ BaseTs \in 0 .. TsMod - 1 /\ Window \in Nat
  /\ MaxPackets \in Nat /\ MaxEvents \in Nat /\ MaxJumps \in Nat
  /\ Window < SeqMod \div 2

None == -1

Stamps == 0 .. TsMod - 1

Numbers == Base .. Base + MaxPackets - 1

Packet == [n : Numbers, ts : Stamps, len : Ticks, event : BOOLEAN, again : BOOLEAN]

VARIABLES
  echo,      \* the loop is an echo or bridge loop
  peer,      \* the number and timestamp of the peer's next packet
  events,    \* telephone events it has sent
  jumps,     \* jumps of the peer's clock so far
  audio_silent,          \* the call is on hold
  net,       \* packets in flight
  last_seq, last_timestamp,
  rx_lost, reordered,    \* rx_lost_packets, seq_reorder_events
  seen,      \* history: the last frame handled
  first,     \* history: the number of the first
  arrived,   \* history: the numbers of all
  echoed,    \* history: the timestamp last sent on
  withheld   \* history: a frame has not been sent on since

counts ==
  <<last_seq, last_timestamp, rx_lost, reordered, seen, first, arrived, echoed, withheld>>

outside == <<peer, events, jumps>>

vars == <<echo, outside, net, audio_silent, counts>>

Marks == {"none", "jump", "switch"}

TypeOK ==
  /\ echo \in BOOLEAN
  /\ peer \in [n : Base .. Base + MaxPackets, ts : Stamps]
  /\ events \in 0 .. MaxEvents /\ jumps \in 0 .. MaxJumps
  /\ audio_silent \in BOOLEAN /\ withheld \in BOOLEAN
  /\ net \subseteq Packet
  /\ last_seq \in 0 .. SeqMod - 1 \union {None}
  /\ last_timestamp \in Stamps \union {None}
  /\ rx_lost \in Nat /\ reordered \in Nat
  /\ seen \in [last : Stamps \union {None}, raw : Stamps, len : Ticks \union {0},
               out : Stamps, mark : Marks, sent : BOOLEAN,
               before : Stamps \union {None}, gap : BOOLEAN]
  /\ echoed \in Stamps \union {None}
  /\ first \in Numbers \union {None}
  /\ arrived \subseteq Numbers

-----------------------------------------------------------------------------
\* Arithmetic on timestamps: wrapping_add and wrapping_sub.
Plus(a, k) == IF a + k < TsMod THEN a + k ELSE a + k - TsMod

Minus(a, b) == IF b <= a THEN a - b ELSE a - b + TsMod

\* A timestamp ts is off the expected one by more than ten seconds, either way.
\* Mutant: forward only.
FarAhead(last, expected, ts) ==
  LET d == Minus(ts, expected) IN d > Reasonable /\ d < HalfMax

Far(last, expected, ts) ==
  LET d == Minus(ts, expected)
  IN  \/ d > Reasonable /\ d < HalfMax
      \/ d > HalfMax /\ Minus(last, ts) > Reasonable

\* What an echo loop makes of it.
Rewritten(last, expected, ts) == IF Far(last, expected, ts) THEN expected ELSE ts

\* The other jumps beyond the tolerance.  Mutant: those ahead only.
OffAhead(last, expected, ts) ==
  LET d == Minus(ts, expected) IN d <= HalfMax /\ d > Tolerance

Off(last, expected, ts) ==
  LET d == Minus(ts, expected)
  IN  \/ d > HalfMax /\ Minus(last, ts) > Tolerance
      \/ d <= HalfMax /\ d > Tolerance

\* record_ts_jump
Mark(last, expected, ts) ==
  CASE Far(last, expected, ts) -> "switch"
    [] ~Far(last, expected, ts) /\ Off(last, expected, ts) -> "jump"
    [] OTHER -> "none"

\* The difference of two sequence numbers as an i16.
Ahead(seq, last) ==
  LET d == (seq - last) % SeqMod IN IF d < SeqMod \div 2 THEN d ELSE d - SeqMod

\* Mutant: a packet out of order becomes the one the next is compared with.
RecordSeqGapBack(seq) ==
  LET d == Ahead(seq, last_seq)
  IN  /\ last_seq' = seq
      /\ rx_lost' = IF last_seq # None /\ d > 1 THEN rx_lost + d - 1 ELSE rx_lost
      /\ reordered' = IF last_seq # None /\ d < 0 THEN reordered + 1 ELSE reordered

\* record_seq_gap
RecordSeqGap(seq) ==
  LET d == Ahead(seq, last_seq)
  IN  /\ last_seq' = IF last_seq = None \/ d > 0 THEN seq ELSE last_seq
      /\ rx_lost' = IF last_seq # None /\ d > 1 THEN rx_lost + d - 1 ELSE rx_lost
      /\ reordered' = IF last_seq # None /\ d < 0 THEN reordered + 1 ELSE reordered

-----------------------------------------------------------------------------
\* An echo or bridge sends the frame on, unless the call is on hold.
Sends == echo /\ ~audio_silent

SendOn(ts) ==
  /\ echoed' = IF Sends THEN ts ELSE echoed
  /\ withheld' = ~Sends

\* The loop handles the audio frame of packet p.
HandleAudio(p) ==
  LET expected == Plus(last_timestamp, p.len)
      ts == IF echo /\ last_timestamp # None
              THEN Rewritten(last_timestamp, expected, p.ts) ELSE p.ts
  IN  /\ seen' = [last |-> last_timestamp, raw |-> p.ts, len |-> p.len, out |-> ts,
                  mark |-> IF last_timestamp = None THEN "none"
                             ELSE Mark(last_timestamp, expected, ts),
                  sent |-> Sends, before |-> echoed, gap |-> withheld]
      /\ RecordSeqGap(p.n % SeqMod)
      /\ last_timestamp' = ts
      /\ SendOn(ts)
      /\ first' = IF first = None THEN p.n ELSE first
      /\ arrived' = arrived \union {p.n}

\* A telephone event is notified and leaves the loop early.
Handle(p) ==
  \/ ~p.event /\ HandleAudio(p)
  \/ p.event /\ UNCHANGED counts

\* The highest number of an audio frame that has arrived.
Top == CHOOSE n \in arrived : \A k \in arrived : k <= n

\* A packet is sent while those in flight are close to it, and the loop has
\* heard an audio frame less than half the sequence numbers ago.
Send(len, event) ==
  /\ peer.n \in Numbers
  /\ \A p \in net : peer.n - p.n <= Window
  /\ arrived # {} => peer.n - Top < SeqMod \div 2
  /\ event => events < MaxEvents
  /\ events' = IF event THEN events + 1 ELSE events
  /\ net' = net \union
       {[n |-> peer.n, ts |-> peer.ts, len |-> len, event |-> event, again |-> FALSE]}
  /\ peer' = [n |-> peer.n + 1, ts |-> Plus(peer.ts, len)]
  /\ UNCHANGED <<echo, jumps, audio_silent, counts>>

\* The peer pauses, or switches to another stream.
Jump(ts) ==
  /\ jumps < MaxJumps
  /\ jumps' = jumps + 1
  /\ peer' = [peer EXCEPT !.ts = ts]
  /\ UNCHANGED <<echo, events, net, audio_silent, counts>>

\* A re-INVITE holds the call, or resumes it, which a record loop ignores.
Hold ==
  /\ echo
  /\ audio_silent' = ~audio_silent
  /\ UNCHANGED <<echo, outside, net, counts>>

Lose(p) ==
  /\ p \in net
  /\ net' = net \ {p}
  /\ UNCHANGED <<echo, outside, audio_silent, counts>>

Receive(p) ==
  /\ p \in net
  /\ net' = net \ {p}
  /\ Handle(p)
  /\ UNCHANGED <<echo, outside, audio_silent>>

\* A packet is received, and will be received again.
Duplicate(p) ==
  /\ p \in net /\ ~p.again
  /\ net' = (net \ {p}) \union {[p EXCEPT !.again = TRUE]}
  /\ Handle(p)
  /\ UNCHANGED <<echo, outside, audio_silent>>

Init ==
  /\ echo \in BOOLEAN
  /\ peer = [n |-> Base, ts |-> BaseTs]
  /\ events = 0 /\ jumps = 0
  /\ net = {} /\ audio_silent = FALSE
  /\ last_seq = None /\ last_timestamp = None
  /\ rx_lost = 0 /\ reordered = 0
  /\ seen = [last |-> None, raw |-> 0, len |-> 0, out |-> 0, mark |-> "none",
             sent |-> FALSE, before |-> None, gap |-> FALSE]
  /\ first = None
  /\ arrived = {}
  /\ echoed = None /\ withheld = FALSE

Next ==
  \/ \E len \in Ticks, event \in BOOLEAN : Send(len, event)
  \/ \E ts \in Stamps : Jump(ts)
  \/ Hold
  \/ \E p \in net : Lose(p) \/ Receive(p) \/ Duplicate(p)

Spec == Init /\ [][Next]_vars

-----------------------------------------------------------------------------
Expected(f) == Plus(f.last, f.len)

\* ts lies in the arc that begins at a and goes on for k ticks.
InArc(ts, a, k) == Minus(ts, a) <= k

\* The loss that is counted covers the packets that are missing, and exceeds
\* them by no more than the packets counted as out of order, whatever is
\* lost, duplicated and reordered and wherever the numbers wrap
\* (record_seq_gap).  Missing are the packets that were lost, and the telephone
\* events among the frames, of which record_seq_gap does not hear: each counts
\* as lost, whether it has arrived or not.
Missing == {n \in Numbers : first <= n /\ n <= Top} \ arrived

LossAccounted ==
  first # None => /\ Cardinality(Missing) <= rx_lost
                  /\ rx_lost - reordered <= Cardinality(Missing)

\* A frame that counts neither as a jump nor as a switch goes on smoothly: it
\* is no further than the tolerance behind the last frame or ahead of the
\* expected one (record_ts_jump).
QuietMeansSmooth ==
  seen.last # None /\ seen.mark = "none"
    => InArc(seen.out, Minus(seen.last, Tolerance), seen.len + 2 * Tolerance)

\* The frame that the next one goes on from: the one sent before, or, after a
\* hold, the last that was not sent.
Before(f) == IF f.gap THEN f.last ELSE f.before

\* The stream an echo or bridge sends on never jumps by more than ten seconds,
\* however the peer's does, but for the one difference, u32::MAX / 2, that
\* neither comparison of process_sample covers.  A hold does not stop the
\* timeline: after it, the stream goes on where the frames that were not sent
\* would have brought it, and so jumps by the hold.
EchoContinuous ==
  seen.sent /\ seen.before # None /\ Minus(seen.raw, Expected(seen)) # HalfMax
    => InArc(seen.out, Minus(Before(seen), Reasonable), seen.len + 2 * Reasonable)
=============================================================================

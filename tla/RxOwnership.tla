---------------------------- MODULE RxOwnership ----------------------------
(***************************************************************************)
(* Who reads the inbound tracks of a MediaSession (src/media.rs).  Each    *)
(* track is read by a record loop, which counts and records its frames,    *)
(* until an echo or bridge loop takes it over, which does the same and     *)
(* sends them on as well.                                                  *)
(*                                                                         *)
(* Record loops are started by several agents, each of which may come      *)
(* across any track: the background listener and the constructor of the    *)
(* session, start_rx_observer, every playback.  They agree by tracked_mids *)
(* on who starts one.  The takeover is start_echo or start_rx_bridge_to,   *)
(* with the listener it leaves behind; a session sees one of the two.      *)
(*                                                                         *)
(* The tracks are the RTP library's and external: a frame that arrives is  *)
(* handed to one or to several of the loops that read its track.           *)
(***************************************************************************)
EXTENDS Integers, FiniteSets

CONSTANTS
  Mids,       \* the tracks of the session
  Agents,     \* the tasks that start record loops
  Echo,       \* the echo or bridge, that starts loops of its own
  Jitter,     \* jitter_buffer_enabled
  MaxFrames   \* bound: frames that arrive on a track

ASSUME RxAssumption ==
  Echo \notin Agents /\ Jitter \in BOOLEAN /\ MaxFrames \in Nat

Loops == (Agents \union {Echo}) \X Mids

RecordLoops == Agents \X Mids

Frames == 1 .. MaxFrames

VARIABLES
  tracked_mids,       \* tracks that have or had a record loop
  echo_tracked_mids,  \* the same for echo loops
  echo_active,        \* an echo or bridge has taken over
  agent,              \* agent -> the track it is starting a record loop for
  loop,               \* loop -> "none", "reading" or "over"
  inbox,              \* loop -> frames the track has for it
  buffer,             \* loop -> frames it has received and not handled
  sent,               \* track -> frames that have arrived
  late,               \* history: frames that came to a track with an echo loop
  handled,            \* history: <<loop, frame>>, counted, recorded, sent on
  stopped             \* the session's cancel_token is cancelled

tasks  == <<tracked_mids, echo_tracked_mids, agent>>
frames == <<sent, late, handled>>

rxVars == <<tasks, echo_active, loop, inbox, buffer, frames, stopped>>

Idle == [step |-> "idle"]

RxTypeOK ==
  /\ tracked_mids \subseteq Mids /\ echo_tracked_mids \subseteq Mids
  /\ echo_active \in BOOLEAN /\ stopped \in BOOLEAN
  /\ agent \in [Agents -> {Idle} \union [step : {"check", "spawn"}, mid : Mids]]
  /\ loop \in [Loops -> {"none", "reading", "over"}]
  /\ inbox \in [Loops -> SUBSET Frames]
  /\ buffer \in [Loops -> SUBSET Frames]
  /\ sent \in [Mids -> 0 .. MaxFrames]
  /\ late \subseteq Mids \X Frames
  /\ handled \subseteq Loops \X Frames
  /\ \A l \in Loops : loop[l] # "reading" => inbox[l] = {} /\ buffer[l] = {}

RxInit ==
  /\ tracked_mids = {} /\ echo_tracked_mids = {}
  /\ echo_active = FALSE /\ stopped = FALSE
  /\ agent = [a \in Agents |-> Idle]
  /\ loop = [l \in Loops |-> "none"]
  /\ inbox = [l \in Loops |-> {}]
  /\ buffer = [l \in Loops |-> {}]
  /\ sent = [m \in Mids |-> 0]
  /\ late = {} /\ handled = {}

-----------------------------------------------------------------------------
\* An agent comes across a track, in a Track event or a transceiver, that has
\* no record loop yet (try_track_record_mid) ...
Track(a, m) ==
  /\ agent[a] = Idle /\ m \notin tracked_mids
  /\ tracked_mids' = tracked_mids \union {m}
  /\ agent' = [agent EXCEPT ![a] = [step |-> "check", mid |-> m]]
  /\ UNCHANGED <<echo_tracked_mids, echo_active, loop, inbox, buffer, frames, stopped>>

\* ... looks whether an echo is active (spawn_track_recorder) ...
Check(a) ==
  /\ agent[a].step = "check"
  /\ agent' = [agent EXCEPT ![a] = IF echo_active THEN Idle ELSE [@ EXCEPT !.step = "spawn"]]
  /\ UNCHANGED <<tracked_mids, echo_tracked_mids, echo_active, loop, inbox, buffer,
                 frames, stopped>>

\* ... and spawns the loop.
Spawn(a) ==
  /\ agent[a].step = "spawn"
  /\ loop' = [loop EXCEPT ![<<a, agent[a].mid>>] = "reading"]
  /\ agent' = [agent EXCEPT ![a] = Idle]
  /\ UNCHANGED <<tracked_mids, echo_tracked_mids, echo_active, inbox, buffer, frames,
                 stopped>>

\* The first thing start_echo and start_rx_bridge_to do.
TakeOver ==
  /\ ~echo_active
  /\ echo_active' = TRUE
  /\ UNCHANGED <<tasks, loop, inbox, buffer, frames, stopped>>

\* Mutant: the loops are spawned first, and then the flag is set.
SpawnEchoFirst(m) ==
  /\ m \notin echo_tracked_mids
  /\ echo_tracked_mids' = echo_tracked_mids \union {m}
  /\ loop' = [loop EXCEPT ![<<Echo, m>>] = "reading"]
  /\ UNCHANGED <<tracked_mids, agent, echo_active, inbox, buffer, frames, stopped>>

\* Then they, and the listener they leave behind, spawn a loop for every track
\* that has none yet (try_track_echo_mid, try_track_bridge_mid).
SpawnEcho(m) ==
  /\ echo_active /\ m \notin echo_tracked_mids
  /\ echo_tracked_mids' = echo_tracked_mids \union {m}
  /\ loop' = [loop EXCEPT ![<<Echo, m>>] = "reading"]
  /\ UNCHANGED <<tracked_mids, agent, echo_active, inbox, buffer, frames, stopped>>

\* stop(): the token of every loop is a child of cancel_token.
Stop ==
  /\ ~stopped
  /\ stopped' = TRUE
  /\ UNCHANGED <<tasks, echo_active, loop, inbox, buffer, frames>>

-----------------------------------------------------------------------------
\* The loops that read track m.
Readers(m) == {l \in Loops : l[2] = m /\ loop[l] = "reading"}

\* A frame arrives.  Without a loop nobody hears of it.
Arrive(m) ==
  /\ ~stopped /\ sent[m] < MaxFrames
  /\ LET k == sent[m] + 1
     IN  /\ sent' = [sent EXCEPT ![m] = k]
         /\ late' = IF loop[<<Echo, m>>] = "reading" THEN late \union {<<m, k>>} ELSE late
         /\ \E R \in SUBSET Readers(m) :
              /\ R = {} => Readers(m) = {}
              /\ inbox' = [l \in Loops |-> IF l \in R THEN inbox[l] \union {k} ELSE inbox[l]]
  /\ UNCHANGED <<tasks, echo_active, loop, buffer, handled, stopped>>

\* The loop waits in its select.  Without a jitter buffer it only does so
\* when it has handled what it received.
Selecting(l) == loop[l] = "reading" /\ (Jitter \/ buffer[l] = {})

Oldest(k, S) == k \in S /\ \A j \in S : k <= j

\* Mutant: the record loop never yields.
YieldsNever(l) == FALSE

\* session_echo_yield, which the record loop asks after every recv(), unless
\* it has a jitter buffer.
Yields(l) == l \in RecordLoops /\ ~Jitter /\ echo_active

Leave(l) ==
  /\ loop' = [loop EXCEPT ![l] = "over"]
  /\ inbox' = [inbox EXCEPT ![l] = {}]
  /\ buffer' = [buffer EXCEPT ![l] = {}]
  /\ UNCHANGED <<tasks, echo_active, frames, stopped>>

Recv(l, k) ==
  /\ Selecting(l) /\ Oldest(k, inbox[l]) /\ ~Yields(l)
  /\ inbox' = [inbox EXCEPT ![l] = @ \ {k}]
  /\ buffer' = [buffer EXCEPT ![l] = @ \union {k}]
  /\ UNCHANGED <<tasks, echo_active, loop, frames, stopped>>

\* The frame just received is lost.
Yield(l) == Selecting(l) /\ inbox[l] # {} /\ Yields(l) /\ Leave(l)

\* process_recorded_sample or process_sample, or the DTMF branch; from the
\* jitter buffer if there is one.
HandleFrame(l, k) ==
  /\ Oldest(k, buffer[l])
  /\ handled' = handled \union {<<l, k>>}
  /\ buffer' = [buffer EXCEPT ![l] = @ \ {k}]
  /\ UNCHANGED <<tasks, echo_active, loop, inbox, sent, late, stopped>>

\* Mutant: only record loops watch their token.
DoneRecord(l) == stopped /\ l \in RecordLoops

\* The loop's token
Done(l) == stopped

Cancelled(l) == Selecting(l) /\ Done(l) /\ Leave(l)

\* recv() fails: the track has ended.
TrackEnds(l) == Selecting(l) /\ inbox[l] = {} /\ Leave(l)

RxNext ==
  \/ \E a \in Agents : Check(a) \/ Spawn(a) \/ \E m \in Mids : Track(a, m)
  \/ TakeOver \/ Stop
  \/ \E m \in Mids : SpawnEcho(m) \/ Arrive(m)
  \/ \E l \in Loops : \/ Yield(l) \/ Cancelled(l) \/ TrackEnds(l)
                      \/ \E k \in Frames : Recv(l, k) \/ HandleFrame(l, k)

\* Tasks run to their next await, and a select takes a branch that stays
\* ready.
RxFairness ==
  /\ \A a \in Agents : WF_rxVars(Check(a)) /\ WF_rxVars(Spawn(a))
  /\ \A l \in Loops : WF_rxVars(\E k \in Frames : HandleFrame(l, k)) /\ WF_rxVars(Cancelled(l))

RxSpec == RxInit /\ [][RxNext]_rxVars

RxFairSpec == RxSpec /\ RxFairness

-----------------------------------------------------------------------------
\* No frame is counted, recorded or sent on by two loops, whoever came across
\* its track first and however a takeover meets a loop that is being started
\* or is busy (tracked_mids, echo_active; without a jitter buffer).
HandledOnce ==
  \A p, q \in handled : p[1][2] = q[1][2] /\ p[2] = q[2] => p = q

\* A stop of the session ends every loop, also those that are being started
\* (the child tokens of cancel_token).
StopEndsLoops == \A l \in Loops : stopped ~> loop[l] # "reading"

-----------------------------------------------------------------------------
\* What a comment says of the loops and the code does only without a jitter
\* buffer.

\* "Set when an echo/bridge loop takes over RX processing; the built-in
\* record-only loop (spawn_track_recorder) then yields, preventing the
\* double-write" (the comment on echo_active): the record loop handles no
\* frame that comes when the echo loop reads the track.
RecordYields ==
  \A p \in handled : p[1] \in RecordLoops => <<p[1][2], p[2]>> \notin late
=============================================================================

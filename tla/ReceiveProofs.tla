---------------------------- MODULE ReceiveProofs ----------------------------
(***************************************************************************)
(* Proofs about the receiving side of a media session (src/media.rs).      *)
(*                                                                         *)
(* First, of RxOwnership: without a jitter buffer no frame is handled by   *)
(* two loops.  Two record loops cannot share a track: an agent engages     *)
(* with a track only if nobody is or was engaged with it.  A record loop   *)
(* and an echo loop can, but what the record loop has received it took     *)
(* when no echo was active, hence before there was an echo loop that could *)
(* get it too.                                                             *)
(*                                                                         *)
(* Then, of RtpStats: for every width of the timestamps, every tolerance,  *)
(* and whatever the peer and the network do, which frames count as smooth, *)
(* how far apart two frames are that an echo or bridge loop sends on, and  *)
(* what the count of lost packets means.                                   *)
(***************************************************************************)
EXTENDS RxOwnership, RtpStats, FiniteSetTheorems, TLAPS

Engaged(a, m) ==
  \/ agent[a] # Idle /\ agent[a].mid = m
  \/ loop[<<a, m>>] # "none"

\* One agent at most is or was engaged with a track.
OneRecorder ==
  \A a \in Agents, m \in Mids :
    Engaged(a, m) => /\ m \in tracked_mids
                     /\ \A b \in Agents : Engaged(b, m) => a = b

\* A loop that was never spawned has no frame, and has handled none.
Unspawned ==
  \A l \in Loops : loop[l] = "none" =>
    inbox[l] = {} /\ buffer[l] = {} /\ \A k \in Frames : <<l, k>> \notin handled

\* There is an echo loop only after the takeover.
EchoFlagged == \A m \in Mids : loop[<<Echo, m>>] # "none" => echo_active

\* Frames that loops have or had have arrived.
Arrived ==
  \A l \in Loops, k \in Frames :
    k \in inbox[l] \/ k \in buffer[l] \/ <<l, k>> \in handled => k <= sent[l[2]]

Has(l, k) == k \in buffer[l] \/ <<l, k>> \in handled

\* What a record loop has received never comes to the echo loop.
Exclusive ==
  \A a \in Agents, m \in Mids, k \in Frames :
    Has(<<a, m>>, k) => k \notin inbox[<<Echo, m>>] /\ ~Has(<<Echo, m>>, k)

RxIInv == /\ RxTypeOK /\ OneRecorder /\ Unspawned /\ EchoFlagged /\ Arrived
          /\ Jitter \/ Exclusive

-----------------------------------------------------------------------------
LEMMA InitRxIInv == RxInit => RxIInv
<1> SUFFICES ASSUME RxInit PROVE RxIInv
  OBVIOUS
<1>0. \A r \in Agents \union {Echo}, m \in Mids : <<r, m>> \in Loops
  BY DEF Loops
<1>1. /\ handled = {} /\ late = {} /\ tracked_mids = {} /\ echo_tracked_mids = {}
      /\ echo_active = FALSE /\ stopped = FALSE
      /\ agent = [a \in Agents |-> Idle] /\ loop = [l \in Loops |-> "none"]
      /\ inbox = [l \in Loops |-> {}] /\ buffer = [l \in Loops |-> {}]
      /\ sent = [m \in Mids |-> 0]
  BY DEF RxInit
<1>2. RxTypeOK
  <2>1. agent \in [Agents -> {Idle} \union [step : {"check", "spawn"}, mid : Mids]]
    BY <1>1
  <2>2. sent \in [Mids -> 0 .. MaxFrames]
    BY <1>1, RxAssumption
  <2>3. loop \in [Loops -> {"none", "reading", "over"}]
    BY <1>1
  <2>4. inbox \in [Loops -> SUBSET Frames] /\ buffer \in [Loops -> SUBSET Frames]
    BY <1>1
  <2> QED BY <1>1, <2>1, <2>2, <2>3, <2>4 DEF RxTypeOK
<1>3. OneRecorder
  BY <1>0, <1>1 DEF OneRecorder, Engaged
<1>4. Unspawned
  BY <1>1 DEF Unspawned
<1>6. EchoFlagged
  BY <1>0, <1>1 DEF EchoFlagged
<1>5. Arrived /\ Exclusive
  BY <1>0, <1>1 DEF Arrived, Exclusive, Has
<1> QED BY <1>2, <1>3, <1>4, <1>5, <1>6 DEF RxIInv

-----------------------------------------------------------------------------
\* Steps of the agents and of the takeover.
LEMMA TaskInv ==
  ASSUME RxIInv,
         \/ \E a \in Agents : Check(a) \/ Spawn(a) \/ \E m \in Mids : Track(a, m)
         \/ TakeOver \/ Stop \/ \E m \in Mids : SpawnEcho(m)
  PROVE  RxIInv'
<1> USE RxAssumption DEF RxIInv, Has
<1> USE DEF tasks, frames
<1>1. ASSUME NEW a \in Agents, NEW m \in Mids, Track(a, m) PROVE RxIInv'
  <2>1. RxTypeOK'
    BY <1>1 DEF Track, RxTypeOK
  <2>2. OneRecorder'
    BY <1>1 DEF Track, RxTypeOK, OneRecorder, Engaged, Idle
  <2>3. Unspawned' /\ EchoFlagged' /\ Arrived' /\ (Jitter \/ Exclusive)'
    BY <1>1 DEF Track, Unspawned, EchoFlagged, Arrived, Exclusive
  <2> QED BY <2>1, <2>2, <2>3
<1>2. ASSUME NEW a \in Agents, Check(a) PROVE RxIInv'
  <2>1. RxTypeOK'
    BY <1>2 DEF Check, RxTypeOK, Idle
  <2>2. OneRecorder'
    BY <1>2 DEF Check, RxTypeOK, OneRecorder, Engaged, Idle
  <2>3. Unspawned' /\ EchoFlagged' /\ Arrived' /\ (Jitter \/ Exclusive)'
    BY <1>2 DEF Check, Unspawned, EchoFlagged, Arrived, Exclusive
  <2> QED BY <2>1, <2>2, <2>3
<1>3. ASSUME NEW a \in Agents, Spawn(a) PROVE RxIInv'
  <2> DEFINE m == agent[a].mid
  <2>0. m \in Mids /\ <<a, m>> \in Loops /\ agent[a] # Idle
    BY <1>3 DEF Spawn, RxTypeOK, Idle, Loops
  <2>1. RxTypeOK'
    BY <1>3, <2>0 DEF Spawn, RxTypeOK, Idle
  <2>2. OneRecorder'
    BY <1>3, <2>0 DEF Spawn, RxTypeOK, OneRecorder, Engaged, Idle, Loops
  <2>3. Unspawned' /\ EchoFlagged'
    BY <1>3, <2>0 DEF Spawn, RxTypeOK, Unspawned, EchoFlagged, Loops
  <2>4. Arrived' /\ (Jitter \/ Exclusive)'
    BY <1>3 DEF Spawn, Arrived, Exclusive
  <2> QED BY <2>1, <2>2, <2>3, <2>4
<1>4. CASE TakeOver \/ Stop
  <2>1. RxTypeOK'
    BY <1>4 DEF TakeOver, Stop, RxTypeOK
  <2>2. OneRecorder'
    BY <1>4 DEF TakeOver, Stop, OneRecorder, Engaged
  <2>3. Unspawned' /\ EchoFlagged' /\ Arrived' /\ (Jitter \/ Exclusive)'
    BY <1>4 DEF TakeOver, Stop, Unspawned, EchoFlagged, Arrived, Exclusive
  <2> QED BY <2>1, <2>2, <2>3
<1>5. ASSUME NEW m \in Mids, SpawnEcho(m) PROVE RxIInv'
  <2>0. <<Echo, m>> \in Loops
    BY DEF Loops
  <2>1. RxTypeOK'
    BY <1>5, <2>0 DEF SpawnEcho, RxTypeOK
  <2>2. OneRecorder'
    BY <1>5, <2>0 DEF SpawnEcho, RxTypeOK, OneRecorder, Engaged, Loops
  <2>3. Unspawned' /\ EchoFlagged'
    BY <1>5, <2>0 DEF SpawnEcho, RxTypeOK, Unspawned, EchoFlagged, Loops
  <2>4. Arrived' /\ (Jitter \/ Exclusive)'
    BY <1>5 DEF SpawnEcho, Arrived, Exclusive
  <2> QED BY <2>1, <2>2, <2>3, <2>4
<1> QED BY <1>1, <1>2, <1>3, <1>4, <1>5

\* A frame that arrives is new to every loop.
LEMMA ArriveInv ==
  ASSUME RxIInv, NEW m \in Mids, Arrive(m)
  PROVE  RxIInv'
<1> USE RxAssumption DEF RxIInv, Has, tasks
<1> DEFINE k == sent[m] + 1
<1>1. k \in Frames
  BY DEF Arrive, RxTypeOK, Frames
<1>2. PICK R \in SUBSET Readers(m) :
        inbox' = [l \in Loops |-> IF l \in R THEN inbox[l] \union {k} ELSE inbox[l]]
  BY DEF Arrive
<1>3. sent' = [sent EXCEPT ![m] = k] /\ UNCHANGED <<loop, buffer, handled, agent,
          tracked_mids, echo_tracked_mids, echo_active, stopped>>
  BY DEF Arrive
<1>4. RxTypeOK'
  <2>1. inbox' \in [Loops -> SUBSET Frames]
    BY <1>1, <1>2 DEF RxTypeOK
  <2>2. late' \subseteq Mids \X Frames
    BY <1>1 DEF Arrive, RxTypeOK
  <2>3. sent' \in [Mids -> 0 .. MaxFrames]
    BY <1>1, <1>3 DEF RxTypeOK, Frames
  <2>4. \A l \in Loops : loop'[l] # "reading" => inbox'[l] = {} /\ buffer'[l] = {}
    BY <1>2, <1>3 DEF RxTypeOK, Readers
  <2> QED BY <1>3, <2>1, <2>2, <2>3, <2>4 DEF RxTypeOK
<1>5. OneRecorder' /\ EchoFlagged'
  BY <1>3 DEF OneRecorder, EchoFlagged, Engaged
<1>6. Unspawned'
  BY <1>2, <1>3 DEF Unspawned, Readers
<1>7. Arrived'
  <2> SUFFICES ASSUME NEW l \in Loops, NEW j \in Frames,
                      j \in inbox'[l] \/ j \in buffer'[l] \/ <<l, j>> \in handled'
               PROVE  j <= sent'[l[2]]
    BY DEF Arrived
  <2>0. l[2] \in Mids
    BY DEF Loops
  <2>1. sent[m] \in Nat /\ sent[l[2]] \in Nat
    BY <2>0 DEF RxTypeOK
  <2>2. sent'[l[2]] = IF l[2] = m THEN k ELSE sent[l[2]]
    BY <1>3, <2>0 DEF RxTypeOK
  <2>3. CASE j \in inbox[l] \/ j \in buffer[l] \/ <<l, j>> \in handled
    BY <2>1, <2>2, <2>3 DEF Arrived, Frames
  <2>4. CASE l \in R /\ j = k
    BY <1>1, <2>1, <2>2, <2>4 DEF Readers, Frames
  <2> QED BY <1>2, <1>3, <2>3, <2>4
<1>8. (Jitter \/ Exclusive)'
  <2> SUFFICES ASSUME ~Jitter, NEW a \in Agents, NEW n \in Mids, NEW j \in Frames,
                      Has(<<a, n>>, j)
               PROVE  j \notin inbox'[<<Echo, n>>] /\ ~Has(<<Echo, n>>, j)
    BY <1>3 DEF Exclusive
  <2>1. <<a, n>> \in Loops /\ <<Echo, n>> \in Loops
    BY DEF Loops
  <2>2. j <= sent[n]
    BY <2>1 DEF Arrived
  <2>3. n = m => j # k
    BY <2>2 DEF RxTypeOK, Frames
  <2>4. j \notin inbox[<<Echo, n>>] /\ ~Has(<<Echo, n>>, j)
    BY DEF Exclusive
  <2>5. <<Echo, n>> \in R => n = m
    BY DEF Readers
  <2> QED BY <1>2, <2>1, <2>3, <2>4, <2>5
<1> QED BY <1>4, <1>5, <1>6, <1>7, <1>8

\* A loop's own steps.
LEMMA LoopInv ==
  ASSUME RxIInv, NEW l \in Loops,
         \/ Yield(l) \/ Cancelled(l) \/ TrackEnds(l)
         \/ \E k \in Frames : Recv(l, k) \/ HandleFrame(l, k)
  PROVE  RxIInv'
<1> USE RxAssumption DEF RxIInv, Has, tasks, frames
<1>1. CASE Leave(l) /\ loop[l] = "reading"
  <2>1. RxTypeOK'
    BY <1>1 DEF Leave, RxTypeOK
  <2>2. OneRecorder'
    BY <1>1 DEF Leave, RxTypeOK, OneRecorder, Engaged, Loops
  <2>3. Unspawned' /\ EchoFlagged'
    BY <1>1 DEF Leave, RxTypeOK, Unspawned, EchoFlagged, Loops
  <2>4. Arrived' /\ (Jitter \/ Exclusive)'
    BY <1>1 DEF Leave, RxTypeOK, Arrived, Exclusive, Loops
  <2> QED BY <2>1, <2>2, <2>3, <2>4
<1>2. ASSUME NEW k \in Frames, Recv(l, k) PROVE RxIInv'
  <2>0. k \in inbox[l]
    BY <1>2 DEF Recv, Oldest
  <2>1. RxTypeOK'
    BY <1>2, <2>0 DEF Recv, RxTypeOK
  <2>2. OneRecorder' /\ EchoFlagged'
    BY <1>2 DEF Recv, OneRecorder, EchoFlagged, Engaged
  <2>3. Unspawned'
    BY <1>2 DEF Recv, Selecting, RxTypeOK, Unspawned
  <2>4. Arrived'
    BY <1>2, <2>0 DEF Recv, RxTypeOK, Arrived
  <2>5. (Jitter \/ Exclusive)'
    <3> SUFFICES ASSUME ~Jitter, NEW a \in Agents, NEW m \in Mids, NEW j \in Frames,
                        Has(<<a, m>>, j)'
                 PROVE  j \notin inbox'[<<Echo, m>>] /\ ~Has(<<Echo, m>>, j)'
      BY DEF Exclusive
    <3>0. <<a, m>> \in Loops /\ <<Echo, m>> \in Loops /\ <<a, m>> # <<Echo, m>>
      BY DEF Loops
    <3>1. CASE l = <<a, m>>
      <4>1. ~echo_active
        BY <1>2, <3>1 DEF Recv, Yields, RecordLoops
      <4>2. loop[<<Echo, m>>] = "none"
        BY <4>1 DEF EchoFlagged
      <4> QED BY <1>2, <3>0, <3>1, <4>2 DEF Recv, RxTypeOK, Unspawned
    <3>2. CASE l # <<a, m>>
      <4>1. Has(<<a, m>>, j)
        BY <1>2, <3>0, <3>2 DEF Recv, RxTypeOK
      <4> QED BY <1>2, <2>0, <3>0, <4>1 DEF Recv, RxTypeOK, Exclusive
    <3> QED BY <3>1, <3>2
  <2> QED BY <2>1, <2>2, <2>3, <2>4, <2>5
<1>3. ASSUME NEW k \in Frames, HandleFrame(l, k) PROVE RxIInv'
  <2>0. k \in buffer[l]
    BY <1>3 DEF HandleFrame, Oldest
  <2>1. RxTypeOK'
    BY <1>3, <2>0 DEF HandleFrame, RxTypeOK
  <2>2. OneRecorder' /\ EchoFlagged'
    BY <1>3 DEF HandleFrame, OneRecorder, EchoFlagged, Engaged
  <2>3. Unspawned'
    BY <1>3, <2>0 DEF HandleFrame, RxTypeOK, Unspawned
  <2>4. Arrived'
    BY <1>3, <2>0 DEF HandleFrame, RxTypeOK, Arrived
  <2>5. \A h \in Loops, j \in Frames : Has(h, j)' => Has(h, j)
    BY <1>3, <2>0 DEF HandleFrame, RxTypeOK
  <2>6. (Jitter \/ Exclusive)'
    BY <1>3, <2>5 DEF HandleFrame, Exclusive, Loops
  <2> QED BY <2>1, <2>2, <2>3, <2>4, <2>6
<1> QED BY <1>1, <1>2, <1>3 DEF Yield, Cancelled, TrackEnds, Selecting

\* Stuttering, and every step.
LEMMA NextRxIInv == RxIInv /\ [RxNext]_rxVars => RxIInv'
<1> SUFFICES ASSUME RxIInv, [RxNext]_rxVars PROVE RxIInv'
  OBVIOUS
<1>1. CASE UNCHANGED rxVars
  BY <1>1 DEF rxVars, tasks, frames, RxIInv, RxTypeOK, OneRecorder, Engaged, Unspawned,
              EchoFlagged, Arrived, Exclusive, Has
<1>2. CASE RxNext
  BY <1>2, TaskInv, ArriveInv, LoopInv DEF RxNext
<1> QED BY <1>1, <1>2

\* Two loops that have handled the same frame are the same loop.
LEMMA HandledOnceHolds == RxIInv /\ ~Jitter => HandledOnce
<1> SUFFICES ASSUME RxIInv, ~Jitter, NEW p \in handled, NEW q \in handled,
                    p[1][2] = q[1][2], p[2] = q[2]
             PROVE  p = q
  BY DEF HandledOnce
<1> DEFINE m == p[1][2]
           k == p[2]
           r == p[1][1]
           s == q[1][1]
<1>1. /\ p = <<<<r, m>>, k>> /\ q = <<<<s, m>>, k>> /\ m \in Mids /\ k \in Frames
      /\ r \in Agents \union {Echo} /\ s \in Agents \union {Echo}
  BY DEF RxIInv, RxTypeOK, Loops
<1>2. CASE r = Echo \/ s = Echo
  BY <1>1, <1>2 DEF RxIInv, Exclusive, Has
<1>3. CASE r \in Agents /\ s \in Agents
  <2>1. loop[<<r, m>>] # "none" /\ loop[<<s, m>>] # "none"
    BY <1>1, <1>3 DEF RxIInv, Unspawned, Loops
  <2> QED BY <1>1, <1>3, <2>1 DEF RxIInv, OneRecorder, Engaged
<1> QED BY <1>1, <1>2, <1>3

-----------------------------------------------------------------------------
\* The types, for any tracks and agents, with or without a jitter buffer.
THEOREM RxTypeCorrect == RxSpec => []RxTypeOK
<1>1. RxIInv => RxTypeOK
  BY DEF RxIInv
<1> QED BY InitRxIInv, NextRxIInv, <1>1, PTL DEF RxSpec

\* Without a jitter buffer no frame is counted, recorded or sent on by two
\* loops, for any number of tracks, agents and frames (tracked_mids,
\* echo_active, session_echo_yield).
THEOREM FramesHandledOnce == ASSUME ~Jitter PROVE RxSpec => []HandledOnce
<1>1. RxIInv => HandledOnce
  BY HandledOnceHolds
<1> QED BY InitRxIInv, NextRxIInv, <1>1, PTL DEF RxSpec

\* No frame is recorded by two record loops.
RecordedOnce ==
  \A p, q \in handled :
    p[1] \in RecordLoops /\ q[1] \in RecordLoops /\ p[1][2] = q[1][2] => p[1] = q[1]

\* Whoever comes across a track first, and with a jitter buffer as well, all
\* its recorded frames are recorded by one loop (tracked_mids); the second
\* loop that then handles a frame can only be the echo or bridge.
THEOREM OneLoopRecords == RxSpec => []RecordedOnce
<1>1. ASSUME RxIInv PROVE RecordedOnce
  <2> SUFFICES ASSUME NEW p \in handled, NEW q \in handled,
                      p[1] \in RecordLoops, q[1] \in RecordLoops, p[1][2] = q[1][2]
               PROVE  p[1] = q[1]
    BY DEF RecordedOnce
  <2> DEFINE a == p[1][1]
             b == q[1][1]
             m == p[1][2]
  <2>1. /\ p = <<<<a, m>>, p[2]>> /\ q = <<<<b, m>>, q[2]>>
        /\ a \in Agents /\ b \in Agents /\ m \in Mids
        /\ p[2] \in Frames /\ q[2] \in Frames
    BY <1>1 DEF RxIInv, RxTypeOK, Loops, RecordLoops
  <2>2. loop[<<a, m>>] # "none" /\ loop[<<b, m>>] # "none"
    BY <1>1, <2>1 DEF RxIInv, Unspawned, Loops
  <2>3. a = b
    BY <1>1, <2>1, <2>2 DEF RxIInv, OneRecorder, Engaged
  <2> QED BY <2>1, <2>3
<1> QED BY InitRxIInv, NextRxIInv, <1>1, PTL DEF RxSpec

\* A frame that came when the echo loop was reading reaches no record loop.
Unshared ==
  \A a \in Agents, m \in Mids, k \in Frames :
    <<m, k>> \in late => echo_active /\ ~Has(<<a, m>>, k)

LEMMA NextUnshared == ASSUME ~Jitter PROVE RxIInv /\ Unshared /\ [RxNext]_rxVars => Unshared'
<1> SUFFICES ASSUME RxIInv, Unshared, [RxNext]_rxVars,
                    NEW m \in Mids, NEW k \in Frames, <<m, k>> \in late',
                    NEW a \in Agents
             PROVE  echo_active' /\ ~Has(<<a, m>>, k)'
  BY DEF Unshared
<1> USE DEF Has, tasks, frames
<1>0. <<a, m>> \in Loops /\ <<a, m>> \in RecordLoops /\ <<Echo, m>> \in Loops
  BY DEF Loops, RecordLoops
<1>a. RxTypeOK /\ Arrived /\ EchoFlagged
  BY DEF RxIInv
<1>b. <<m, k>> \in late => echo_active /\ ~Has(<<a, m>>, k)
  BY DEF Unshared
<1>1. ASSUME NEW b \in Agents, Check(b) \/ Spawn(b) \/ \E n \in Mids : Track(b, n)
      PROVE  echo_active' /\ ~Has(<<a, m>>, k)'
  BY <1>b, <1>1 DEF Check, Spawn, Track
<1>2. CASE TakeOver \/ Stop
  BY <1>b, <1>2 DEF TakeOver, Stop
<1>3. ASSUME NEW n \in Mids, SpawnEcho(n) PROVE echo_active' /\ ~Has(<<a, m>>, k)'
  BY <1>b, <1>3 DEF SpawnEcho
<1>4. ASSUME NEW n \in Mids, Arrive(n) PROVE echo_active' /\ ~Has(<<a, m>>, k)'
  <2>1. UNCHANGED <<echo_active, buffer, handled>>
    BY <1>4 DEF Arrive
  <2>2. CASE <<m, k>> \notin late
    <3>1. n = m /\ k = sent[m] + 1 /\ loop[<<Echo, m>>] = "reading"
      BY <1>4, <2>2 DEF Arrive
    <3>2. echo_active
      BY <1>a, <3>1 DEF EchoFlagged
    <3>3. ~Has(<<a, m>>, k)
      <4>1. sent[m] \in Nat /\ <<a, m>>[2] = m
        BY <1>a, RxAssumption DEF RxTypeOK
      <4>2. Has(<<a, m>>, k) => k <= sent[m]
        BY <1>0, <1>a, <4>1 DEF Arrived
      <4> QED BY <3>1, <4>1, <4>2
    <3> QED BY <2>1, <3>2, <3>3
  <2> QED BY <1>b, <2>1, <2>2
<1>5. ASSUME NEW l \in Loops, NEW j \in Frames, Recv(l, j)
      PROVE  echo_active' /\ ~Has(<<a, m>>, k)'
  <2>1. <<m, k>> \in late /\ echo_active' /\ ~Has(<<a, m>>, k)
    BY <1>b, <1>5 DEF Recv
  <2>2. l # <<a, m>>
    BY <1>0, <1>5, <2>1 DEF Recv, Yields
  <2> QED BY <1>0, <1>a, <1>5, <2>1, <2>2 DEF Recv, RxTypeOK
<1>6. ASSUME NEW l \in Loops, NEW j \in Frames, HandleFrame(l, j)
      PROVE  echo_active' /\ ~Has(<<a, m>>, k)'
  BY <1>0, <1>a, <1>b, <1>6 DEF HandleFrame, Oldest, RxTypeOK
<1>7. ASSUME NEW l \in Loops, Leave(l) PROVE echo_active' /\ ~Has(<<a, m>>, k)'
  BY <1>0, <1>a, <1>b, <1>7 DEF Leave, RxTypeOK
<1>8. CASE UNCHANGED rxVars
  BY <1>b, <1>8 DEF rxVars
<1> QED
  BY <1>1, <1>2, <1>3, <1>4, <1>5, <1>6, <1>7, <1>8
  DEF RxNext, Yield, Cancelled, TrackEnds

\* Without a jitter buffer a record loop handles no frame that comes when the
\* echo loop reads the track, as the comment on echo_active says.
THEOREM RecordLoopsYield == ASSUME ~Jitter PROVE RxSpec => []RecordYields
<1>1. RxInit => Unshared
  BY DEF RxInit, Unshared
<1>2. ASSUME RxIInv, Unshared PROVE RecordYields
  <2> SUFFICES ASSUME NEW p \in handled, p[1] \in RecordLoops
               PROVE  <<p[1][2], p[2]>> \notin late
    BY DEF RecordYields
  <2>1. /\ p = <<<<p[1][1], p[1][2]>>, p[2]>> /\ p[1][1] \in Agents
        /\ p[1][2] \in Mids /\ p[2] \in Frames
    BY <1>2 DEF RxIInv, RxTypeOK, RecordLoops, Loops
  <2> QED BY <1>2, <2>1 DEF Unshared, Has
<1> QED BY InitRxIInv, NextRxIInv, NextUnshared, <1>1, <1>2, PTL DEF RxSpec

-----------------------------------------------------------------------------
\* The types of what the arguments below are about.
Types ==
  /\ echo \in BOOLEAN
  /\ peer \in [n : Nat, ts : Stamps]
  /\ net \subseteq [n : Nat, ts : Stamps, len : Ticks, event : BOOLEAN, again : BOOLEAN]
  /\ last_timestamp \in Stamps \union {None}
  /\ seen \in [last : Stamps \union {None}, raw : Stamps, len : Ticks \union {0},
               out : Stamps, mark : Marks, sent : BOOLEAN,
               before : Stamps \union {None}, gap : BOOLEAN]
  /\ audio_silent \in BOOLEAN /\ withheld \in BOOLEAN
  /\ echoed \in Stamps \union {None}

\* What the loop has made of the last frame.
Made ==
  seen.last # None =>
    /\ seen.len \in Ticks
    /\ seen.out = IF echo THEN Rewritten(seen.last, Expected(seen), seen.raw) ELSE seen.raw
    /\ seen.mark = Mark(seen.last, Expected(seen), seen.out)

\* What an echo has sent on: without a frame withheld since, it is the last one
\* handled.
Sent ==
  /\ echoed # None => last_timestamp # None
  /\ echoed # None /\ ~withheld => echoed = last_timestamp
  /\ seen.sent => echo
  /\ seen.before # None => seen.last # None
  /\ seen.before # None /\ ~seen.gap => seen.before = seen.last

IInv == Types /\ Made /\ Sent

-----------------------------------------------------------------------------
LEMMA HalfOfMod == HalfMax \in Nat /\ 2 * HalfMax <= TsMod - 1 /\ TsMod <= 2 * HalfMax + 2
  BY StatsAssumption DEF HalfMax

LEMMA PlusType ==
  ASSUME NEW a \in Stamps, NEW len \in Ticks
  PROVE  Plus(a, len) \in Stamps
  BY StatsAssumption, HalfOfMod DEF Stamps, Plus

LEMMA RewrittenType ==
  ASSUME NEW last \in Stamps, NEW expected \in Stamps, NEW ts \in Stamps
  PROVE  Rewritten(last, expected, ts) \in Stamps
  BY DEF Rewritten

LEMMA MarkType ==
  ASSUME NEW last, NEW expected, NEW ts
  PROVE  Mark(last, expected, ts) \in Marks
  BY DEF Mark, Marks

\* A timestamp that is neither far nor off lies in the arc of the tolerance.
LEMMA SmoothArc ==
  ASSUME NEW last \in Stamps, NEW len \in Ticks, NEW ts \in Stamps,
         ~Far(last, Plus(last, len), ts), ~Off(last, Plus(last, len), ts)
  PROVE  InArc(ts, Minus(last, Tolerance), len + 2 * Tolerance)
  BY StatsAssumption, HalfOfMod DEF Stamps, Far, Off, Plus, Minus, InArc

\* A timestamp that is not far lies in the arc of ten seconds, but for one.
LEMMA NearArc ==
  ASSUME NEW last \in Stamps, NEW len \in Ticks, NEW ts \in Stamps,
         ~Far(last, Plus(last, len), ts), Minus(ts, Plus(last, len)) # HalfMax
  PROVE  InArc(ts, Minus(last, Reasonable), len + 2 * Reasonable)
  BY StatsAssumption, HalfOfMod DEF Stamps, Far, Plus, Minus, InArc

\* The expected timestamp itself is in both.
LEMMA ExpectedArc ==
  ASSUME NEW last \in Stamps, NEW len \in Ticks
  PROVE  InArc(Plus(last, len), Minus(last, Reasonable), len + 2 * Reasonable)
  BY StatsAssumption, HalfOfMod DEF Stamps, Plus, Minus, InArc

-----------------------------------------------------------------------------
LEMMA InitInv == Init => IInv
<1> SUFFICES ASSUME Init PROVE IInv
  OBVIOUS
<1>1. 0 \in Stamps /\ BaseTs \in Stamps /\ Base \in Nat
  BY StatsAssumption DEF Stamps
<1>2. seen = [last |-> None, raw |-> 0, len |-> 0, out |-> 0, mark |-> "none",
              sent |-> FALSE, before |-> None, gap |-> FALSE]
  BY DEF Init
<1>3. Types
  <2>1. seen \in [last : Stamps \union {None}, raw : Stamps, len : Ticks \union {0},
                 out : Stamps, mark : Marks, sent : BOOLEAN,
                 before : Stamps \union {None}, gap : BOOLEAN]
    BY <1>1, <1>2 DEF Marks
  <2>2. peer = [n |-> Base, ts |-> BaseTs] /\ net = {}
    BY DEF Init
  <2>3. peer \in [n : Nat, ts : Stamps]
    BY <1>1, <2>2
  <2>4. echo \in BOOLEAN
    BY Zenon DEF Init
  <2>5. /\ audio_silent = FALSE /\ withheld = FALSE
        /\ echoed = None /\ last_timestamp = None
    BY DEF Init
  <2> QED BY <2>1, <2>2, <2>3, <2>4, <2>5 DEF Types
<1>4. Made /\ Sent
  BY <1>2 DEF Init, Made, Sent
<1> QED BY <1>3, <1>4 DEF IInv

LEMMA AudioInv ==
  ASSUME IInv, NEW p \in net, HandleAudio(p), UNCHANGED <<echo, peer, audio_silent>>,
         net' \subseteq net \union {[p EXCEPT !.again = TRUE]}
  PROVE  IInv'
<1> DEFINE expected == Plus(last_timestamp, p.len)
           ts == IF echo /\ last_timestamp # None
                   THEN Rewritten(last_timestamp, expected, p.ts) ELSE p.ts
<1>1. /\ p.ts \in Stamps /\ p.len \in Ticks
      /\ last_timestamp \in Stamps \union {None} /\ echo \in BOOLEAN
      /\ echoed \in Stamps \union {None} /\ withheld \in BOOLEAN /\ audio_silent \in BOOLEAN
  BY DEF IInv, Types
<1>2. /\ last_timestamp' = ts
      /\ seen' = [last |-> last_timestamp, raw |-> p.ts, len |-> p.len, out |-> ts,
                  mark |-> IF last_timestamp = None THEN "none"
                             ELSE Mark(last_timestamp, expected, ts),
                  sent |-> Sends, before |-> echoed, gap |-> withheld]
      /\ echoed' = (IF Sends THEN ts ELSE echoed) /\ withheld' = ~Sends
  BY DEF HandleAudio, SendOn
<1> HIDE DEF expected, ts
<1>3. ts \in Stamps
  <2>1. CASE echo /\ last_timestamp # None
    BY <1>1, <2>1, PlusType, RewrittenType DEF ts, expected
  <2>2. CASE ~(echo /\ last_timestamp # None)
    BY <1>1, <2>2 DEF ts
  <2> QED BY <2>1, <2>2
<1>8. Sends \in BOOLEAN
  BY <1>1, Zenon DEF Sends
<1>4. seen' \in [last : Stamps \union {None}, raw : Stamps, len : Ticks \union {0},
                 out : Stamps, mark : Marks, sent : BOOLEAN,
                 before : Stamps \union {None}, gap : BOOLEAN]
  BY <1>1, <1>2, <1>3, <1>8, MarkType DEF Marks
<1>5. net' \subseteq [n : Nat, ts : Stamps, len : Ticks, event : BOOLEAN, again : BOOLEAN]
  BY ZenonT(60) DEF IInv, Types
<1>9. echoed' \in Stamps \union {None} /\ withheld' \in BOOLEAN
  BY <1>1, <1>2, <1>3, <1>8
<1>6. Types'
  BY <1>1, <1>2, <1>3, <1>4, <1>5, <1>9 DEF IInv, Types
<1>7. Made'
  BY <1>1, <1>2 DEF Made, Expected, ts, expected
<1>10. Sent'
  <2>1. last_timestamp' # None
    BY <1>2, <1>3, StatsAssumption DEF Stamps, None
  <2>2. echoed' # None /\ ~withheld' => echoed' = last_timestamp'
    BY <1>2
  <2>3. seen'.sent => echo'
    BY <1>2 DEF Sends
  <2>4. seen'.before = echoed /\ seen'.last = last_timestamp /\ seen'.gap = withheld
    BY <1>2
  <2> QED BY <2>1, <2>2, <2>3, <2>4 DEF IInv, Sent
<1> QED BY <1>6, <1>7, <1>10 DEF IInv

LEMMA HandleInv ==
  ASSUME IInv, NEW p \in net, Handle(p), UNCHANGED <<echo, peer, audio_silent>>,
         net' \subseteq net \union {[p EXCEPT !.again = TRUE]}
  PROVE  IInv'
<1>1. CASE HandleAudio(p)
  BY <1>1, AudioInv
<1>2. CASE UNCHANGED counts
  <2>1. net' \subseteq [n : Nat, ts : Stamps, len : Ticks, event : BOOLEAN, again : BOOLEAN]
    BY ZenonT(60) DEF IInv, Types
  <2> QED BY <1>2, <2>1 DEF counts, IInv, Types, Made, Sent, Expected
<1> QED BY <1>1, <1>2 DEF Handle

LEMMA NextInv == IInv /\ [Next]_vars => IInv'
<1> SUFFICES ASSUME IInv, [Next]_vars PROVE IInv'
  OBVIOUS
<1>1. ASSUME NEW len \in Ticks, NEW event \in BOOLEAN, Send(len, event)
      PROVE  IInv'
  <2>1. Plus(peer.ts, len) \in Stamps
    BY PlusType DEF IInv, Types
  <2>2. peer.n \in Nat /\ peer.ts \in Stamps
    BY DEF IInv, Types
  <2>3. peer' \in [n : Nat, ts : Stamps]
    BY <1>1, <2>1, <2>2 DEF Send
  <2>4. net' \subseteq [n : Nat, ts : Stamps, len : Ticks, event : BOOLEAN, again : BOOLEAN]
    <3> DEFINE p == [n |-> peer.n, ts |-> peer.ts, len |-> len, event |-> event,
                     again |-> FALSE]
    <3>1. net' = net \union {p}
      BY <1>1 DEF Send
    <3>2. p \in [n : Nat, ts : Stamps, len : Ticks, event : BOOLEAN, again : BOOLEAN]
      BY <2>2
    <3> HIDE DEF p
    <3> QED BY <3>1, <3>2 DEF IInv, Types
  <2>5. Types'
    BY <1>1, <2>3, <2>4 DEF Send, counts, IInv, Types
  <2>6. Made'
    BY <1>1 DEF Send, counts, IInv, Made, Expected
  <2>7. Sent'
    BY <1>1 DEF Send, counts, IInv, Sent
  <2> QED BY <2>5, <2>6, <2>7 DEF IInv
<1>2. ASSUME NEW ts \in Stamps, Jump(ts)
      PROVE  IInv'
  BY <1>2 DEF Jump, counts, IInv, Types, Made, Sent, Expected
<1>3. ASSUME NEW p \in net, Lose(p)
      PROVE  IInv'
  BY <1>3 DEF Lose, outside, counts, IInv, Types, Made, Sent, Expected
<1>4. ASSUME NEW p \in net, Receive(p)
      PROVE  IInv'
  BY <1>4, HandleInv DEF Receive, outside
<1>5. ASSUME NEW p \in net, Duplicate(p)
      PROVE  IInv'
  BY <1>5, HandleInv DEF Duplicate, outside
<1>6. CASE Hold
  <2>1. audio_silent' \in BOOLEAN
    BY <1>6, Zenon DEF Hold, IInv, Types
  <2>2. UNCHANGED <<echo, peer, net, counts>>
    BY <1>6 DEF Hold, outside
  <2> QED BY <2>1, <2>2 DEF counts, IInv, Types, Made, Sent, Expected
<1>7. CASE UNCHANGED vars
  BY <1>7 DEF vars, outside, counts, IInv, Types, Made, Sent, Expected
<1> QED
  BY <1>1, <1>2, <1>3, <1>4, <1>5, <1>6, <1>7 DEF Next

LEMMA Inductive == Spec => []IInv
  BY InitInv, NextInv, PTL DEF Spec

-----------------------------------------------------------------------------
\* A frame that counts neither as a jump nor as a switch goes on smoothly,
\* wherever the timestamps wrap (record_ts_jump).
THEOREM UncountedIsSmooth == Spec => []QuietMeansSmooth
<1>1. IInv => QuietMeansSmooth
  <2> SUFFICES ASSUME IInv, seen.last # None, seen.mark = "none"
               PROVE  InArc(seen.out, Minus(seen.last, Tolerance), seen.len + 2 * Tolerance)
    BY DEF QuietMeansSmooth
  <2>1. seen.last \in Stamps /\ seen.len \in Ticks /\ seen.out \in Stamps
    BY DEF IInv, Types, Made
  <2>2. ~Far(seen.last, Expected(seen), seen.out) /\ ~Off(seen.last, Expected(seen), seen.out)
    BY DEF IInv, Made, Mark
  <2> QED BY <2>1, <2>2, SmoothArc DEF Expected
<1> QED BY <1>1, Inductive, PTL

\* A frame that an echo or bridge sends on is never more than ten seconds from
\* where the one sent before, or the last one that a hold withheld, goes on,
\* however far the peer's jump, but for one difference (process_sample).
THEOREM EchoGoesOn == Spec => []EchoContinuous
<1>1. IInv => EchoContinuous
  <2> SUFFICES ASSUME IInv, seen.sent, seen.before # None,
                      Minus(seen.raw, Expected(seen)) # HalfMax
               PROVE  InArc(seen.out, Minus(Before(seen), Reasonable),
                            seen.len + 2 * Reasonable)
    BY DEF EchoContinuous
  <2>0. echo /\ seen.last # None /\ Before(seen) = seen.last
    BY DEF IInv, Sent, Before
  <2>1. seen.last \in Stamps /\ seen.len \in Ticks /\ seen.raw \in Stamps
    BY <2>0 DEF IInv, Types, Made
  <2>2. seen.out = Rewritten(seen.last, Expected(seen), seen.raw)
    BY <2>0 DEF IInv, Made
  <2>3. CASE Far(seen.last, Expected(seen), seen.raw)
    BY <2>0, <2>1, <2>2, <2>3, ExpectedArc DEF Rewritten, Expected
  <2>4. CASE ~Far(seen.last, Expected(seen), seen.raw)
    BY <2>0, <2>1, <2>2, <2>4, NearArc DEF Rewritten, Expected
  <2> QED BY <2>3, <2>4
<1> QED BY <1>1, Inductive, PTL

-----------------------------------------------------------------------------
(***************************************************************************)
(* Sequence numbers.  The packets in flight are so close to those that     *)
(* have arrived that the difference of two sequence numbers, as an i16, is *)
(* that of the packets' numbers.                                           *)
(***************************************************************************)
LEMMA DivMod ==
  ASSUME NEW x \in Int, NEW m \in Nat \ {0}
  PROVE  /\ (x % m) \in 0 .. m - 1
         /\ (x \div m) \in Int
         /\ x = m * (x \div m) + (x % m)
  OBVIOUS

LEMMA SmallMultiple ==
  ASSUME NEW m \in Nat \ {0}, NEW k \in Int, m * k < m, -m < m * k
  PROVE  k = 0
<1>1. CASE k >= 1
  BY <1>1
<1>2. CASE k <= -1
  BY <1>2
<1> QED BY <1>1, <1>2

LEMMA ModUnique ==
  ASSUME NEW m \in Nat \ {0}, NEW x \in Int, NEW q \in Int, NEW r \in 0 .. m - 1,
         x = m * q + r
  PROVE  (x % m) = r
<1>1. PICK s \in 0 .. m - 1, p \in Int : s = (x % m) /\ x = m * p + s
  BY DivMod
<1>2. m * (p - q) = r - s
  BY <1>1
<1>3. p - q = 0
  <2> DEFINE k == p - q
  <2>1. k \in Int /\ m * k = r - s
    BY <1>2
  <2> HIDE DEF k
  <2>2. m * k < m /\ -m < m * k
    BY <2>1, <1>1
  <2>3. k = 0
    BY <2>1, <2>2, SmallMultiple
  <2> QED BY <2>3 DEF k
<1> QED BY <1>1, <1>3

LEMMA ModDifference ==
  ASSUME NEW m \in Nat \ {0}, NEW a \in Int, NEW b \in Int, NEW c \in 0 .. m - 1,
         \E q \in Int : a - b = m * q + c
  PROVE  (((a % m) - (b % m)) % m) = c
<1>1. PICK q \in Int : a - b = m * q + c
  OBVIOUS
<1>2. PICK qa \in Int, ra \in 0 .. m - 1 : a = m * qa + ra /\ ra = (a % m)
  BY DivMod
<1>3. PICK qb \in Int, rb \in 0 .. m - 1 : b = m * qb + rb /\ rb = (b % m)
  BY DivMod
<1>4. ra - rb = m * (q - qa + qb) + c
  BY <1>1, <1>2, <1>3
<1>5. ((ra - rb) % m) = c
  BY <1>4, ModUnique
<1> QED BY <1>2, <1>3, <1>5

LEMMA AheadIsDifference ==
  ASSUME NEW a \in Nat, NEW b \in Nat,
         a - b < SeqMod \div 2, b - a < SeqMod \div 2
  PROVE  Ahead(a % SeqMod, b % SeqMod) = a - b
<1> DEFINE half == SeqMod \div 2
<1>1. SeqMod \in Nat \ {0} /\ half \in Nat /\ 2 * half <= SeqMod
  BY StatsAssumption
<1> HIDE DEF half
<1> DEFINE c == IF a >= b THEN a - b ELSE a - b + SeqMod
<1>2. /\ c \in 0 .. SeqMod - 1
      /\ a - b = SeqMod * 0 + c \/ a - b = SeqMod * (-1) + c
      /\ a - b = IF c < half THEN c ELSE c - SeqMod
  BY <1>1 DEF half
<1>3. (((a % SeqMod) - (b % SeqMod)) % SeqMod) = c
  <2> HIDE DEF c
  <2>1. c \in 0 .. SeqMod - 1
    BY <1>2
  <2>2. \E q \in Int : a - b = SeqMod * q + c
    <3>1. CASE a - b = SeqMod * 0 + c
      BY <3>1
    <3>2. CASE a - b = SeqMod * (-1) + c
      BY <3>2
    <3> QED BY <3>1, <3>2, <1>2
  <2>3. SeqMod \in Nat \ {0} /\ a \in Int /\ b \in Int
    BY <1>1
  <2> QED BY <2>1, <2>2, <2>3, ModDifference, ZenonT(60)
<1> QED BY <1>2, <1>3 DEF Ahead, half

-----------------------------------------------------------------------------
\* Top is the highest number, if there is one.
LEMMA TopIs ==
  ASSUME NEW S, S \subseteq Int, NEW t \in S, \A k \in S : k <= t
  PROVE  (CHOOSE n \in S : \A k \in S : k <= n) = t
<1> DEFINE top == CHOOSE n \in S : \A k \in S : k <= n
<1>1. top \in S /\ \A k \in S : k <= top
  OBVIOUS
<1> HIDE DEF top
<1>2. top \in Int /\ t \in Int /\ top <= t /\ t <= top
  BY <1>1
<1> QED BY <1>2 DEF top

\* The packets missing between the first one and the highest.
Gap(f, t, S) == {n \in Numbers : f <= n /\ n <= t} \ S

LEMMA GapFinite ==
  ASSUME NEW f, NEW t, NEW S
  PROVE  IsFiniteSet(Gap(f, t, S)) /\ Cardinality(Gap(f, t, S)) \in Nat
<1>1. IsFiniteSet(Numbers)
  BY StatsAssumption, FS_Interval DEF Numbers
<1>2. Gap(f, t, S) \in SUBSET Numbers
  BY DEF Gap
<1>3. IsFiniteSet(Gap(f, t, S))
  BY <1>1, <1>2, FS_Subset
<1> QED BY <1>3, FS_CardinalityType

\* The first packet leaves no gap.
LEMMA GapFirst ==
  ASSUME NEW n \in Numbers
  PROVE  Cardinality(Gap(n, n, {n})) = 0
<1>1. Gap(n, n, {n}) = {}
  BY StatsAssumption DEF Gap, Numbers
<1> QED BY <1>1, FS_EmptySet

\* A packet ahead of all adds those it has passed over.
LEMMA GapGrows ==
  ASSUME NEW S, S \subseteq Numbers, NEW f \in Numbers, NEW t \in Numbers, NEW n \in Numbers,
         f <= t, \A k \in S : k <= t, t < n
  PROVE  Cardinality(Gap(f, n, S \union {n})) = Cardinality(Gap(f, t, S)) + n - t - 1
<1> DEFINE new == t + 1 .. n - 1
<1>0. /\ f \in Int /\ t \in Int /\ n \in Int
      /\ \A k \in Numbers : k \in Int
      /\ new \subseteq Numbers
  BY StatsAssumption DEF Numbers
<1>1. Gap(f, n, S \union {n}) = Gap(f, t, S) \union new
  <2>1. ASSUME NEW k \in Numbers
        PROVE  k \in Gap(f, n, S \union {n}) <=> k \in Gap(f, t, S) \union new
    <3>1. k \in Int /\ (k \in S => k <= t)
      BY <1>0
    <3> QED BY <1>0, <3>1 DEF Gap
  <2>2. Gap(f, n, S \union {n}) \subseteq Numbers /\ Gap(f, t, S) \subseteq Numbers
    BY DEF Gap
  <2> HIDE DEF new
  <2> QED BY <1>0, <2>1, <2>2
<1>2. Gap(f, t, S) \intersect new = {}
  BY <1>0 DEF Gap
<1>3. IsFiniteSet(new) /\ Cardinality(new) = n - t - 1
  <2> DEFINE a == t + 1
             b == n - 1
  <2>1. a \in Int /\ b \in Int /\ (IF a > b THEN 0 ELSE b - a + 1) = n - t - 1
    BY <1>0
  <2> HIDE DEF a, b
  <2>2. IsFiniteSet(a .. b) /\ Cardinality(a .. b) = n - t - 1
    BY <2>1, FS_Interval
  <2> QED BY <2>2 DEF a, b
<1>4. Cardinality({}) = 0
  BY FS_EmptySet
<1> HIDE DEF new
<1>5. Cardinality(Gap(f, t, S) \union new)
        = Cardinality(Gap(f, t, S)) + Cardinality(new) - Cardinality(Gap(f, t, S) \intersect new)
  BY <1>3, GapFinite, FS_Union
<1>6. Cardinality(Gap(f, t, S)) \in Nat
  BY GapFinite
<1>7. Cardinality(Gap(f, n, S \union {n})) = Cardinality(Gap(f, t, S)) + Cardinality(new) - 0
  BY <1>1, <1>2, <1>4, <1>5
<1> QED BY <1>0, <1>3, <1>6, <1>7

\* Another packet fills at most one place.
LEMMA GapShrinks ==
  ASSUME NEW S, NEW f, NEW t, NEW n
  PROVE  /\ Cardinality(Gap(f, t, S \union {n})) <= Cardinality(Gap(f, t, S))
         /\ Cardinality(Gap(f, t, S)) <= Cardinality(Gap(f, t, S \union {n})) + 1
         /\ n \in S => Gap(f, t, S \union {n}) = Gap(f, t, S)
<1>1. Gap(f, t, S \union {n}) = Gap(f, t, S) \ {n}
  BY DEF Gap
<1>2. Cardinality(Gap(f, t, S) \ {n})
        = IF n \in Gap(f, t, S) THEN Cardinality(Gap(f, t, S)) - 1 ELSE Cardinality(Gap(f, t, S))
  BY GapFinite, FS_RemoveElement
<1>3. n \in S => Gap(f, t, S \union {n}) = Gap(f, t, S)
  BY DEF Gap
<1>4. Cardinality(Gap(f, t, S)) \in Nat
  BY GapFinite
<1>5. Cardinality(Gap(f, t, S \union {n}))
        = IF n \in Gap(f, t, S) THEN Cardinality(Gap(f, t, S)) - 1 ELSE Cardinality(Gap(f, t, S))
  BY <1>1, <1>2
<1> QED BY <1>3, <1>4, <1>5

-----------------------------------------------------------------------------
\* The types of what is counted.
Typed ==
  /\ events \in 0 .. MaxEvents /\ jumps \in 0 .. MaxJumps
  /\ peer.n \in Base .. Base + MaxPackets
  /\ \A p \in net : p.n \in Numbers
  /\ last_seq \in 0 .. SeqMod - 1 \union {None}
  /\ rx_lost \in Nat /\ reordered \in Nat
  /\ first \in Numbers \union {None}
  /\ arrived \subseteq Numbers

\* The packets in flight were sent shortly ago ...
Recent ==
  /\ \A p \in net : p.n < peer.n /\ peer.n - p.n <= Window + 1
  /\ \A k \in arrived : k < peer.n

Unheard == arrived = {} /\ last_seq = None /\ rx_lost = 0 /\ reordered = 0

\* ... and are close to the highest that has arrived, whose sequence number
\* is last_seq; the counts agree with the gap below it.
Heard(t) ==
  /\ t \in arrived /\ \A k \in arrived : k <= t
  /\ first <= t
  /\ last_seq = (t % SeqMod)
  /\ \A p \in net : p.n - t < SeqMod \div 2
  /\ Cardinality(Gap(first, t, arrived)) <= rx_lost
  /\ rx_lost - reordered <= Cardinality(Gap(first, t, arrived))

Counted ==
  /\ Typed
  /\ Recent
  /\ first = None => Unheard
  /\ first # None => \E t \in Numbers : Heard(t)

LEMMA InitCounted == Init => Counted
  BY StatsAssumption DEF Init, Counted, Typed, Recent, Unheard, Numbers, None

\* What the loop does with packet n, and how it counts it.
LEMMA HandleCounted ==
  ASSUME Counted, NEW p \in net, HandleAudio(p), UNCHANGED outside,
         \A q \in net' : \E r \in net : q.n = r.n
  PROVE  Counted'
<1> DEFINE n == p.n
           half == SeqMod \div 2
<1>0. UNCHANGED <<peer, events, jumps>>
  BY DEF outside
<1>1. /\ n \in Numbers /\ n \in Nat /\ peer.n \in Nat
      /\ n < peer.n /\ peer.n - n <= Window + 1
      /\ SeqMod \in Nat \ {0} /\ Window \in Nat /\ half \in Nat /\ Window < half
      /\ \A k \in Numbers : k \in Nat
  BY StatsAssumption DEF Counted, Typed, Recent, Numbers
<1>2. /\ RecordSeqGap(n % SeqMod)
      /\ first' = IF first = None THEN n ELSE first
      /\ arrived' = arrived \union {n}
  BY DEF HandleAudio
<1>3. (n % SeqMod) \in 0 .. SeqMod - 1
  BY <1>1
<1>4. Recent'
  BY <1>0, <1>1, <1>2 DEF Counted, Recent
<1>5. \A q \in net' : q.n \in Numbers /\ q.n - n < half
  <2> SUFFICES ASSUME NEW q \in net'
               PROVE  q.n \in Numbers /\ q.n - n < half
    OBVIOUS
  <2>1. q.n \in Numbers /\ q.n < peer.n
    BY DEF Counted, Typed, Recent
  <2>2. q.n \in Nat
    BY <1>1, <2>1
  <2> HIDE DEF n, half
  <2> QED BY <1>1, <2>1, <2>2
<1> HIDE DEF n, half
<1>6. CASE first = None
  <2>1. Unheard /\ arrived' = {n} /\ first' = n
    BY <1>2, <1>6 DEF Counted, Unheard
  <2>2. last_seq' = (n % SeqMod) /\ rx_lost' = 0 /\ reordered' = 0
    BY <1>2, <2>1 DEF RecordSeqGap, Unheard
  <2>3. Typed'
    BY <1>0, <1>1, <1>2, <1>3, <1>5, <2>1, <2>2 DEF Counted, Typed
  <2>4. Cardinality(Gap(first', n, arrived')) = 0
    BY <1>1, <2>1, GapFirst
  <2>6. Heard(n)'
    BY <1>1, <1>5, <2>1, <2>2, <2>4 DEF Heard, half
  <2>7. first' # None
    BY <1>1, <2>1 DEF None
  <2> QED BY <1>1, <1>4, <2>3, <2>6, <2>7 DEF Counted
<1>7. CASE first # None
  <2>1. PICK t \in Numbers : Heard(t)
    BY <1>7 DEF Counted
  <2>2. /\ t \in Nat /\ n - t < half /\ t < peer.n /\ t - n < half
        /\ first \in Numbers /\ first \in Nat /\ first <= t /\ first' = first
        /\ arrived \subseteq Numbers
    BY <1>1, <1>2, <1>7, <2>1 DEF Heard, Counted, Typed, Recent, n, half
  <2>3. Ahead(n % SeqMod, last_seq) = n - t /\ last_seq # None
    <3>1. Ahead(n % SeqMod, t % SeqMod) = n - t
      BY <1>1, <2>2, AheadIsDifference DEF half
    <3>2. (t % SeqMod) \in 0 .. SeqMod - 1
      BY <1>1, <2>2
    <3> QED BY <3>1, <3>2, <2>1 DEF Heard, None
  <2>4. /\ last_seq' = IF n > t THEN (n % SeqMod) ELSE last_seq
        /\ rx_lost' = IF n > t + 1 THEN rx_lost + (n - t - 1) ELSE rx_lost
        /\ reordered' = IF n < t THEN reordered + 1 ELSE reordered
    BY <1>1, <1>2, <2>2, <2>3 DEF RecordSeqGap, Counted, Typed
  <2>5. /\ rx_lost \in Nat /\ reordered \in Nat /\ rx_lost' \in Nat /\ reordered' \in Nat
    BY <1>1, <2>2, <2>4 DEF Counted, Typed
  <2>6. Typed'
    BY <1>0, <1>1, <1>2, <1>3, <1>5, <2>2, <2>4, <2>5 DEF Counted, Typed
  <2> DEFINE gap == Cardinality(Gap(first, t, arrived))
  <2>7. gap \in Nat /\ gap <= rx_lost /\ rx_lost - reordered <= gap
    BY <2>1, GapFinite DEF Heard
  <2>8. CASE n > t
    <3>1. Cardinality(Gap(first', n, arrived')) = gap + n - t - 1
      <4>1. \A k \in arrived : k <= t
        BY <2>1 DEF Heard
      <4>2. Cardinality(Gap(first, n, arrived \union {n})) = gap + n - t - 1
        BY <1>1, <2>2, <2>8, <4>1, GapGrows
      <4> QED BY <1>2, <2>2, <4>2
    <3>2. rx_lost' = rx_lost + (n - t - 1) /\ reordered' = reordered
      BY <1>1, <2>2, <2>4, <2>5, <2>8
    <3>4. \A k \in arrived' : k <= n
      BY <1>1, <1>2, <2>1, <2>2, <2>8 DEF Heard
    <3>5. Heard(n)'
      <4> HIDE DEF gap
      <4> QED BY <1>1, <1>2, <1>5, <2>2, <2>4, <2>5, <2>7, <2>8, <3>1, <3>2, <3>4 DEF Heard, half
    <3> QED BY <1>1, <1>4, <1>7, <2>2, <2>6, <3>5 DEF Counted
  <2>9. CASE n <= t
    <3>1. /\ last_seq' = last_seq /\ rx_lost' = rx_lost
          /\ reordered' = IF n < t THEN reordered + 1 ELSE reordered
      BY <1>1, <2>2, <2>4, <2>9
    <3>2. \A q \in net' : q.n - t < half
      BY <2>1 DEF Heard, half
    <3>3. \A k \in arrived' : k <= t
      BY <1>2, <2>1, <2>9 DEF Heard
    <3> DEFINE gap2 == Cardinality(Gap(first', t, arrived'))
    <3>4. gap2 \in Nat /\ gap2 <= gap /\ gap <= gap2 + 1 /\ (n = t => gap2 = gap)
      BY <1>2, <2>1, <2>2, GapShrinks, GapFinite DEF Heard
    <3>5. gap2 <= rx_lost' /\ rx_lost' - reordered' <= gap2
      <4> HIDE DEF gap, gap2
      <4> QED BY <1>1, <2>2, <2>5, <2>7, <2>9, <3>1, <3>4
    <3>6. Heard(t)'
      BY <1>2, <2>1, <2>2, <3>1, <3>2, <3>3, <3>5 DEF Heard, half
    <3> QED BY <1>4, <1>7, <2>2, <2>6, <3>6 DEF Counted
  <2> QED BY <1>1, <2>2, <2>8, <2>9
<1> QED BY <1>6, <1>7

LEMMA SendCounted ==
  ASSUME Counted, NEW len \in Ticks, NEW event \in BOOLEAN, Send(len, event)
  PROVE  Counted'
<1>1. /\ peer.n \in Numbers /\ peer.n \in Nat /\ Window \in Nat
      /\ \A k \in Numbers : k \in Nat
  BY StatsAssumption DEF Send, Numbers
<1>2. /\ peer'.n = peer.n + 1
      /\ net' = net \union
           {[n |-> peer.n, ts |-> peer.ts, len |-> len, event |-> event, again |-> FALSE]}
      /\ \A p \in net : peer.n - p.n <= Window
      /\ UNCHANGED <<jumps, last_seq, rx_lost, reordered, first, arrived>>
  BY DEF Send, counts
<1>3. \A p \in net' : p \in net \/ p.n = peer.n
  BY <1>2
<1>4. peer'.n \in Base .. Base + MaxPackets
  BY <1>1, <1>2, StatsAssumption DEF Numbers
<1>8. events' \in 0 .. MaxEvents
  <2>1. events \in 0 .. MaxEvents /\ MaxEvents \in Nat
    BY StatsAssumption DEF Counted, Typed
  <2>2. CASE event
    BY <2>1, <2>2 DEF Send
  <2>3. CASE ~event
    BY <2>1, <2>3 DEF Send
  <2> QED BY <2>2, <2>3
<1>5. Typed'
  BY <1>1, <1>2, <1>3, <1>4, <1>8 DEF Counted, Typed
<1>6. Recent'
  <2>1. \A p \in net' : p.n \in Nat
    BY <1>1, <1>3 DEF Counted, Typed
  <2>2. \A p \in net' : p.n < peer'.n /\ peer'.n - p.n <= Window + 1
    BY <1>1, <1>2, <1>3, <2>1 DEF Counted, Recent
  <2>3. \A k \in arrived : k \in Nat /\ k < peer.n
    BY <1>1 DEF Counted, Typed, Recent
  <2>4. \A k \in arrived' : k < peer'.n
    BY <1>1, <1>2, <2>3
  <2> QED BY <2>2, <2>4 DEF Recent
<1>7. ASSUME NEW t \in Numbers, Heard(t)
      PROVE  Heard(t)'
  <2>1. arrived \subseteq Int /\ t \in arrived /\ \A k \in arrived : k <= t
    BY <1>1, <1>7 DEF Heard, Counted, Typed
  <2>2. peer.n - t < SeqMod \div 2
    BY <2>1, TopIs DEF Send, Top
  <2> QED BY <1>2, <1>3, <1>7, <2>2 DEF Heard
<1> QED BY <1>2, <1>5, <1>6, <1>7 DEF Counted, Unheard

\* Of a telephone event the counts hear nothing.
LEMMA PassCounted ==
  ASSUME Counted, NEW p \in net, Handle(p), UNCHANGED outside,
         \A q \in net' : \E r \in net : q.n = r.n
  PROVE  Counted'
<1>1. CASE HandleAudio(p)
  BY <1>1, HandleCounted
<1>2. CASE UNCHANGED counts
  <2>1. /\ UNCHANGED <<peer, events, jumps>>
        /\ UNCHANGED <<last_seq, rx_lost, reordered, first, arrived>>
    BY <1>2 DEF outside, counts
  <2>2. Typed' /\ Recent'
    BY <2>1 DEF Counted, Typed, Recent
  <2>3. \A t \in Numbers : Heard(t) => Heard(t)'
    BY <2>1 DEF Heard
  <2> QED BY <2>1, <2>2, <2>3 DEF Counted, Unheard
<1> QED BY <1>1, <1>2 DEF Handle

LEMMA NextCounted == IInv /\ Counted /\ [Next]_vars => Counted'
<1> SUFFICES ASSUME IInv, Counted, [Next]_vars PROVE Counted'
  OBVIOUS
<1>1. ASSUME NEW len \in Ticks, NEW event \in BOOLEAN, Send(len, event)
      PROVE  Counted'
  BY <1>1, SendCounted
<1>2. ASSUME NEW ts \in Stamps, Jump(ts)
      PROVE  Counted'
  <2>1. peer'.n = peer.n /\ jumps' \in 0 .. MaxJumps
    BY <1>2, StatsAssumption DEF Jump, Counted, Typed
  <2> QED BY <1>2, <2>1 DEF Jump, counts, Counted, Typed, Recent, Unheard, Heard
<1>3. ASSUME NEW p \in net, Lose(p)
      PROVE  Counted'
  BY <1>3 DEF Lose, outside, counts, Counted, Typed, Recent, Unheard, Heard
<1>4. ASSUME NEW p \in net, Receive(p)
      PROVE  Counted'
  <2>1. \A q \in net' : \E r \in net : q.n = r.n
    BY <1>4 DEF Receive
  <2> QED BY <1>4, <2>1, PassCounted DEF Receive
<1>5. ASSUME NEW p \in net, Duplicate(p)
      PROVE  Counted'
  <2>1. \A q \in net' : \E r \in net : q.n = r.n
    <3>1. net' = (net \ {p}) \union {[p EXCEPT !.again = TRUE]}
      BY <1>5 DEF Duplicate
    <3>2. [p EXCEPT !.again = TRUE].n = p.n
      <4>1. p \in [n : Nat, ts : Stamps, len : Ticks, event : BOOLEAN, again : BOOLEAN]
        BY DEF IInv, Types
      <4> QED BY <4>1
    <3> QED BY <3>1, <3>2
  <2> QED BY <1>5, <2>1, PassCounted DEF Duplicate
<1>6. CASE Hold \/ UNCHANGED vars
  BY <1>6 DEF Hold, vars, outside, counts, Counted, Typed, Recent, Unheard, Heard
<1> QED
  BY <1>1, <1>2, <1>3, <1>4, <1>5, <1>6 DEF Next

LEMMA AlwaysCounted == Spec => []Counted
  BY InitCounted, NextCounted, Inductive, PTL DEF Spec

\* The loss that is counted covers the packets that are missing, lost ones and
\* telephone events, and exceeds them by no more than those counted as out of
\* order, for every width of the sequence numbers and whatever is lost,
\* duplicated or reordered within half of their range (record_seq_gap).
THEOREM LossIsAccounted == Spec => []LossAccounted
<1>1. Counted => LossAccounted
  <2> SUFFICES ASSUME Counted, first # None
               PROVE  /\ Cardinality(Missing) <= rx_lost
                      /\ rx_lost - reordered <= Cardinality(Missing)
    BY DEF LossAccounted
  <2>1. PICK t \in Numbers : Heard(t)
    BY DEF Counted
  <2>2. arrived \subseteq Int
    BY StatsAssumption DEF Counted, Typed, Numbers
  <2>3. Top = t
    BY <2>1, <2>2, TopIs DEF Top, Heard
  <2>4. Missing = Gap(first, t, arrived)
    BY <2>3 DEF Missing, Gap
  <2> QED BY <2>1, <2>4 DEF Heard
<1> QED BY <1>1, AlwaysCounted, PTL

\* The variables keep their types: no count goes below zero, and no number or
\* timestamp leaves its range.
THEOREM TypeCorrect == Spec => []TypeOK
<1>1. IInv /\ Counted => TypeOK
  <2> SUFFICES ASSUME IInv, Counted PROVE TypeOK
    OBVIOUS
  <2>1. peer \in [n : Base .. Base + MaxPackets, ts : Stamps]
    BY DEF IInv, Types, Counted, Typed
  <2>2. net \subseteq Packet
    BY DEF IInv, Types, Counted, Typed, Packet
  <2> QED BY <2>1, <2>2 DEF IInv, Types, Counted, Typed, TypeOK
<1> QED BY <1>1, Inductive, AlwaysCounted, PTL
=============================================================================

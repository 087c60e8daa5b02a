------------------------- MODULE OutboundCallProofs -------------------------
(***************************************************************************)
(* Theorems about OutboundCall, for any number of calls, any probability   *)
(* and any bound: the transport outlives the calls, and a call that ends   *)
(* well leaves no answered dialog behind.                                  *)
(***************************************************************************)
EXTENDS OutboundCall, SequenceTheorems, TLAPS

-----------------------------------------------------------------------------
\* The inductive invariant.

\* An end that lies unread is the dialog's end: what Monitor acts on is true.
Told ==
  \A c \in Calls : \A i \in 1 .. Len(rx[c]) :
    rx[c][i] = "terminated" => dlg[c] = "terminated"

\* A dialog is answered only while its task has yet to hang up.
Held ==
  \A c \in Calls :
    dlg[c] = "confirmed" => pc[c] \in {"answer", "talk", "bye", "failed"}

\* The INVITE phase is about a dialog that has no final response, and what
\* follows about one that has; before it there is no dialog.
Waiting ==
  \A c \in Calls :
    /\ pc[c] = "none" => dlg[c] = "none"
    /\ pc[c] \in {"invite", "cancelling", "aborting"} => dlg[c] = "none" \/ Pending(c)
    /\ pc[c] \in {"answer", "talk", "bye", "closing"} =>
          dlg[c] \in {"confirmed", "terminated"}

\* Calls beyond the last spawned have no task; once the spawning is over there
\* will be no more of them.
Unspawned == \A c \in Calls : c > started => pc[c] = "none"

\* Only a stop gives up an INVITE.
GivenUp == \A c \in Calls : pc[c] = "aborting" => stop

IInv ==
  /\ TypeOK
  /\ Told
  /\ Held
  /\ Waiting
  /\ Unspawned
  /\ GivenUp
  /\ CloseAfterCalls

\* The state of one call.
own(c) == <<pc[c], will[c], known[c], rx[c], dlg[c], bye[c]>>

-----------------------------------------------------------------------------
\* A channel holds what it held and the new event, or lacks its first.
LEMMA ChannelAppend ==
  ASSUME NEW s \in Seq(Events), NEW e \in Events
  PROVE  /\ Append(s, e) \in Seq(Events)
         /\ \A i \in 1 .. Len(Append(s, e)) :
              Append(s, e)[i] = e \/ (i \in 1 .. Len(s) /\ Append(s, e)[i] = s[i])
  BY SMT

LEMMA ChannelTail ==
  ASSUME NEW s \in Seq(Events), s # <<>>
  PROVE  /\ Tail(s) \in Seq(Events)
         /\ Head(s) = s[1] /\ 1 \in 1 .. Len(s)
         /\ \A i \in 1 .. Len(Tail(s)) : i + 1 \in 1 .. Len(s) /\ Tail(s)[i] = s[i + 1]
  BY SMT

LEMMA InitInv == Init => IInv
<1> SUFFICES ASSUME Init PROVE IInv
  OBVIOUS
<1>1. TypeOK
  <2>1. <<>> \in Seq(Events)
    OBVIOUS
  <2>2. rx \in [Calls -> Seq(Events)]
    BY <2>1 DEF Init
  <2>3. started \in 0 .. Total
    BY OutboundAssumption DEF Init
  <2> QED BY <2>2, <2>3 DEF Init, TypeOK, Events, Over
<1>2. Told
  BY SMT DEF Init, Told
<1>3. Held /\ Waiting /\ Unspawned /\ GivenUp /\ CloseAfterCalls
  BY DEF Init, Held, Waiting, Unspawned, GivenUp, CloseAfterCalls
<1> QED BY <1>1, <1>2, <1>3 DEF IInv

\* The steps of run_call.
LEMMA BotInv ==
  ASSUME IInv, Spawn \/ Spawned \/ EndListen \/ Stop \/ Close
  PROVE  IInv'
<1> USE OutboundAssumption DEF Calls, GivenUp
<1>1. CASE Spawn
  <2> DEFINE n == started + 1
  <2>1. n \in Calls /\ pc[n] = "none"
    BY <1>1 DEF Spawn, Left, IInv, TypeOK, Unspawned
  <2>2. TypeOK'
    BY <1>1, <2>1, Zenon, SMT DEF Spawn, Left, Goto, IInv, TypeOK
  <2>3. Told'
    BY <1>1 DEF Spawn, IInv, Told
  <2>4. (Held /\ Waiting)'
    BY <1>1, <2>1 DEF Spawn, Goto, IInv, TypeOK, Held, Waiting, Pending
  <2>5. Unspawned'
    BY <1>1, <2>1 DEF Spawn, Left, Goto, IInv, TypeOK, Unspawned
  <2>6. CloseAfterCalls'
    BY <1>1 DEF Spawn, CloseAfterCalls
  <2>7. GivenUp'
    BY <1>1, <2>1 DEF Spawn, Goto, IInv, TypeOK
  <2> QED BY <2>2, <2>3, <2>4, <2>5, <2>6, <2>7 DEF IInv
<1>2. CASE Spawned
  BY <1>2 DEF Spawned, IInv, TypeOK, Told, Held, Waiting, Pending, Unspawned, CloseAfterCalls
<1>3. CASE EndListen
  BY <1>3 DEF EndListen, IInv, TypeOK, Told, Held, Waiting, Pending, Unspawned, CloseAfterCalls
<1>4. CASE Stop
  BY <1>4 DEF Stop, IInv, TypeOK, Told, Held, Waiting, Pending, Unspawned, CloseAfterCalls
<1>5. CASE Close
  <2>1. CloseAfterCalls'
    BY <1>5 DEF Close, CallsOver, IInv, TypeOK, Unspawned, CloseAfterCalls, Over
  <2> QED
    BY <1>5, <2>1 DEF Close, IInv, TypeOK, Told, Held, Waiting, Pending, Unspawned
<1> QED BY <1>1, <1>2, <1>3, <1>4, <1>5

\* An event told of a dialog whose end it is, if it is one.
LEMMA TellInv ==
  ASSUME IInv, NEW c \in Calls, NEW e \in Events, Tell(c, e),
         e = "terminated" => dlg'[c] = "terminated",
         dlg[c] = "terminated" => dlg'[c] = "terminated",
         \A d \in Calls \ {c} : dlg'[d] = dlg[d]
  PROVE  rx' \in [Calls -> Seq(Events)] /\ Told'
<1>1. rx \in [Calls -> Seq(Events)]
  BY DEF IInv, TypeOK
<1>2. rx'[c] = Append(rx[c], e) /\ \A d \in Calls \ {c} : rx'[d] = rx[d]
  BY <1>1 DEF Tell
<1>3. /\ Append(rx[c], e) \in Seq(Events)
      /\ \A i \in 1 .. Len(Append(rx[c], e)) :
           Append(rx[c], e)[i] = e \/ (i \in 1 .. Len(rx[c]) /\ Append(rx[c], e)[i] = rx[c][i])
  BY <1>1, ChannelAppend
<1>4. rx' \in [Calls -> Seq(Events)]
  BY <1>1, <1>3 DEF Tell
<1>5. Told'
  <2> SUFFICES ASSUME NEW d \in Calls, NEW i \in 1 .. Len(rx'[d]), rx'[d][i] = "terminated"
               PROVE  dlg'[d] = "terminated"
    BY DEF Told
  <2>1. CASE d = c
    <3>1. i \in 1 .. Len(Append(rx[c], e))
      BY <1>2, <2>1
    <3>2. \/ e = "terminated"
          \/ i \in 1 .. Len(rx[c]) /\ rx[c][i] = "terminated"
      BY <1>2, <1>3, <2>1, <3>1
    <3> QED BY <2>1, <3>2 DEF IInv, Told
  <2>2. CASE d # c
    BY <1>2, <2>2 DEF IInv, Told
  <2> QED BY <2>1, <2>2
<1> QED BY <1>4, <1>5

\* What is left to read still tells the truth.
LEMMA ReadInv ==
  ASSUME IInv, NEW c \in Calls, rx[c] # <<>>, rx' = [rx EXCEPT ![c] = Tail(@)],
         \A d \in Calls : dlg[d] = "terminated" => dlg'[d] = "terminated"
  PROVE  rx' \in [Calls -> Seq(Events)] /\ Told' /\ Head(rx[c]) \in Events
<1>1. rx \in [Calls -> Seq(Events)]
  BY DEF IInv, TypeOK
<1>2. rx'[c] = Tail(rx[c]) /\ \A d \in Calls \ {c} : rx'[d] = rx[d]
  BY <1>1
<1>3. /\ Tail(rx[c]) \in Seq(Events)
      /\ Head(rx[c]) = rx[c][1] /\ 1 \in 1 .. Len(rx[c])
      /\ \A i \in 1 .. Len(Tail(rx[c])) :
           i + 1 \in 1 .. Len(rx[c]) /\ Tail(rx[c])[i] = rx[c][i + 1]
  BY <1>1, ChannelTail
<1>4. rx' \in [Calls -> Seq(Events)]
  BY <1>1, <1>3
<1>5. Told'
  <2> SUFFICES ASSUME NEW d \in Calls, NEW i \in 1 .. Len(rx'[d]), rx'[d][i] = "terminated"
               PROVE  dlg'[d] = "terminated"
    BY DEF Told
  <2>1. CASE d = c
    <3>1. i \in 1 .. Len(Tail(rx[c])) /\ Tail(rx[c])[i] = "terminated"
      BY <1>2, <2>1
    <3>2. i + 1 \in 1 .. Len(rx[c]) /\ rx[c][i + 1] = "terminated"
      BY <1>3, <3>1
    <3> QED BY <2>1, <3>2 DEF IInv, Told
  <2>2. CASE d # c
    BY <1>2, <2>2 DEF IInv, Told
  <2> QED BY <2>1, <2>2
<1>6. Head(rx[c]) \in Events
  BY <1>1, <1>3
<1> QED BY <1>4, <1>5, <1>6

\* What the library does by itself.
LEMMA LibraryInv ==
  ASSUME IInv, NEW c \in Calls,
         \/ SendInvite(c) \/ Answered(c) \/ Refused(c) \/ PeerBye(c) \/ HandleBye(c)
         \/ \E e \in {"trying", "early"} : Provisional(c, e)
  PROVE  IInv'
<1> USE DEF IInv, TypeOK, Held, Waiting, Unspawned, GivenUp, CloseAfterCalls, Over, Events
<1>1. CASE SendInvite(c)
  BY <1>1 DEF SendInvite, bot, Told, Pending
<1>2. CASE Answered(c)
  <2>1. (rx \in [Calls -> Seq(Events)] /\ Told)'
    BY <1>2, TellInv DEF Answered, Pending
  <2> QED BY <1>2, <2>1 DEF Answered, bot, Goto, Pending
<1>3. CASE Refused(c)
  <2>1. (rx \in [Calls -> Seq(Events)] /\ Told)'
    BY <1>3, TellInv DEF Refused
  <2>2. /\ dlg' = [dlg EXCEPT ![c] = "terminated"] /\ pc[c] = "invite"
        /\ \E s \in {"done", "failed"} : pc' = [pc EXCEPT ![c] = s]
        /\ UNCHANGED <<bot, will, known, bye>>
    BY <1>3 DEF Refused, Goto
  <2>3. TypeOK' /\ Held' /\ Waiting'
    BY <2>1, <2>2 DEF bot, Pending
  <2>4. Unspawned' /\ GivenUp' /\ CloseAfterCalls'
    BY <2>2 DEF bot
  <2> QED BY <2>1, <2>3, <2>4
<1>4. CASE PeerBye(c)
  BY <1>4 DEF PeerBye, bot, Told, Pending
<1>5. CASE HandleBye(c)
  <2>1. (rx \in [Calls -> Seq(Events)] /\ Told)'
    BY <1>5, TellInv DEF HandleBye
  <2>2. /\ dlg' = [dlg EXCEPT ![c] = "terminated"] /\ dlg[c] = "confirmed"
        /\ UNCHANGED <<bot, pc, will, known, bye>>
    BY <1>5 DEF HandleBye
  <2>3. TypeOK' /\ Held' /\ Waiting'
    BY <2>1, <2>2 DEF bot, Pending
  <2>4. Unspawned' /\ GivenUp' /\ CloseAfterCalls'
    BY <2>2 DEF bot
  <2> QED BY <2>1, <2>3, <2>4
<1>6. ASSUME NEW e \in {"trying", "early"}, Provisional(c, e)
      PROVE  IInv'
  <2>1. (rx \in [Calls -> Seq(Events)] /\ Told)'
    BY <1>6, TellInv DEF Provisional, Pending
  <2> QED BY <1>6, <2>1 DEF Provisional, bot, Pending
<1> QED BY <1>1, <1>2, <1>3, <1>4, <1>5, <1>6

\* What the call's own task does.
LEMMA TaskInv ==
  ASSUME IInv, NEW c \in Calls,
         SetupFails(c) \/ Event(c) \/ Abort(c) \/ TalkOver(c) \/ Monitor(c) \/ Task(c)
  PROVE  IInv'
<1> USE DEF IInv, TypeOK, Held, Waiting, Unspawned, GivenUp, CloseAfterCalls, Over, Events
<1>1. CASE SetupFails(c)
  BY <1>1 DEF SetupFails, bot, Goto, Told, Pending
<1>2. CASE Event(c)
  <2>1. dlg' = dlg
    BY <1>2 DEF Event, Hangup, Pending
  <2>2. (rx \in [Calls -> Seq(Events)] /\ Told)'
    BY <1>2, <2>1, ReadInv DEF Event
  <2>3. pc[c] = "invite" /\ UNCHANGED <<bot, bye>>
    BY <1>2 DEF Event
  <2>4. known' \in [Calls -> BOOLEAN]
    BY <1>2 DEF Event
  <2>5. CASE Goto(c, "cancelling") /\ will' = [will EXCEPT ![c] = "no"]
    BY <2>1, <2>2, <2>3, <2>4, <2>5 DEF bot, Goto, Pending
  <2>6. CASE UNCHANGED <<will, pc>>
    BY <2>1, <2>2, <2>3, <2>4, <2>6 DEF bot, Pending
  <2> QED BY <1>2, <2>5, <2>6 DEF Event
<1>3. CASE Abort(c)
  <2>1. dlg' = dlg
    BY <1>3 DEF Abort, Hangup, Pending
  <2>2. Goto(c, "aborting") \/ Goto(c, "done")
    BY <1>3 DEF Abort
  <2>3. Told'
    BY <1>3, <2>1 DEF Abort, Told
  <2>4. ASSUME NEW s \in {"aborting", "done"}, Goto(c, s)
        PROVE  IInv'
    BY <1>3, <2>1, <2>3, <2>4 DEF Abort, bot, Goto, Pending
  <2> QED BY <2>2, <2>4
<1>4. CASE TalkOver(c)
  BY <1>4 DEF TalkOver, bot, Goto, Told, Pending
<1>5. CASE Monitor(c)
  <2>1. (rx \in [Calls -> Seq(Events)] /\ Told)'
    BY <1>5, ReadInv DEF Monitor
  <2>2. Head(rx[c]) = "terminated" => dlg[c] = "terminated"
    BY <1>5, ChannelTail DEF Monitor, Told
  <2>3. CASE Ends(Head(rx[c]))
    <3>1. Goto(c, "done") /\ dlg[c] = "terminated"
      BY <1>5, <2>2, <2>3 DEF Monitor, Ends
    <3> QED BY <1>5, <2>1, <3>1 DEF Monitor, bot, Goto, Pending
  <2>4. CASE ~Ends(Head(rx[c]))
    BY <1>5, <2>1, <2>4 DEF Monitor, bot, Pending
  <2> QED BY <2>3, <2>4
<1>6. CASE Cancelled(c)
  BY <1>6 DEF Cancelled, bot, Goto, Told, Pending
<1>7. CASE Aborted(c)
  BY <1>7 DEF Aborted, bot, Goto, Told, Pending
<1>8. CASE Answer(c)
  <2>1. ASSUME NEW s \in {"talk", "failed"}, Goto(c, s)
        PROVE  IInv'
    BY <1>8, <2>1 DEF Answer, bot, Goto, Told, Pending
  <2> QED BY <1>8, <2>1 DEF Answer
<1>9. CASE SayBye(c)
  <2>1. Told'
    BY <1>9 DEF SayBye, Hangup, Told
  <2> QED BY <1>9, <2>1 DEF SayBye, Hangup, bot, Goto, Pending
<1>10. CASE ByeDone(c)
  <2>1. ASSUME NEW s \in {"done", "failed"}, Goto(c, s)
        PROVE  IInv'
    BY <1>10, <2>1 DEF ByeDone, bot, Goto, Told, Pending
  <2> QED BY <1>10, <2>1 DEF ByeDone
<1> QED
  BY <1>1, <1>2, <1>3, <1>4, <1>5, <1>6, <1>7, <1>8, <1>9, <1>10 DEF Task

LEMMA NextInv == IInv /\ [Next]_vars => IInv'
<1> SUFFICES ASSUME IInv, [Next]_vars PROVE IInv'
  OBVIOUS
<1>1. CASE UNCHANGED vars
  BY <1>1 DEF vars, bot, IInv, TypeOK, Told, Held, Waiting, Pending, Unspawned, GivenUp,
              CloseAfterCalls
<1>2. CASE Next
  BY <1>2, BotInv, LibraryInv, TaskInv DEF Next
<1> QED BY <1>1, <1>2

LEMMA Invariance == Spec => []IInv
  BY InitInv, NextInv, PTL DEF Spec

-----------------------------------------------------------------------------
\* The transport is never closed under a call: run_call waits for every task
\* it spawned, and it spawns no more once it waits.
THEOREM TransportOutlivesCalls == Spec => []CloseAfterCalls
<1>1. IInv => CloseAfterCalls
  BY DEF IInv
<1> QED BY <1>1, Invariance, PTL

\* A make_call that returns Ok leaves no answered call behind, in whatever
\* order the answer, the peer's BYE, the timer and the stop of the bot come.
THEOREM NoAnsweredCallLeft == Spec => []NobodyLeft
<1>1. IInv => NobodyLeft
  BY DEF IInv, Held, NobodyLeft
<1> QED BY <1>1, Invariance, PTL

-----------------------------------------------------------------------------
\* The bot keeps the promise of CallService.

\* Every variable keeps its type.
THEOREM TypeCorrect == Spec => []TypeOK
<1>1. IInv => TypeOK
  BY DEF IInv
<1> QED BY <1>1, Invariance, PTL

\* What is seen of a call depends on its task and its dialog.
LEMMA SeenSame ==
  ASSUME NEW d \in Calls, pc'[d] = pc[d], dlg'[d] = dlg[d]
  PROVE  Seen(d)' = Seen(d)
BY DEF Seen, Pending

\* A step of one call is a turn of that call ...
LEMMA SeenTurn ==
  ASSUME NEW c \in Calls, NEW from, NEW to,
         phase # "closed", phase' = phase, stop' = stop,
         \A d \in Calls \ {c} : pc'[d] = pc[d] /\ dlg'[d] = dlg[d],
         Seen(c) \in from, Seen(c)' = to
  PROVE  Service!Turn(c, from, to)
<1> DEFINE S == [d \in Calls |-> Seen(d)]
<1>1. \A d \in Calls \ {c} : Seen(d)' = Seen(d)
  BY SeenSame
<1>2. S' = [S EXCEPT ![c] = to]
  BY <1>1
<1>3. S[c] \in from
  OBVIOUS
<1>4. QED
  BY <1>2, <1>3 DEF Service!Turn

\* ... or is not seen.
LEMMA Unseen ==
  ASSUME NEW c \in Calls, phase' = phase, stop' = stop,
         \A d \in Calls \ {c} : pc'[d] = pc[d] /\ dlg'[d] = dlg[d],
         Seen(c)' = Seen(c)
  PROVE  UNCHANGED Service!vars
<1>1. \A d \in Calls : Seen(d)' = Seen(d)
  BY SeenSame
<1>2. QED
  BY <1>1 DEF Service!vars

LEMMA InitService == Init => Service!Init
BY DEF Init, Service!Init, Seen, Pending

\* A task that has begun and not returned has an open transport.
LEMMA Open ==
  ASSUME IInv, NEW c \in Calls, pc[c] \notin {"none"} \union Over
  PROVE  phase # "closed"
BY DEF IInv, CloseAfterCalls

\* What run_call does is not seen, but for the close.
LEMMA BotStep ==
  ASSUME IInv, Spawn \/ Spawned \/ EndListen \/ Stop \/ Close
  PROVE  [Service!Next]_Service!vars
<1>1. CASE Spawn
  <2> DEFINE n == started + 1
  <2>1. n \in Calls /\ pc[n] = "none"
    BY <1>1, OutboundAssumption DEF Spawn, Left, IInv, TypeOK, Unspawned, Calls
  <2>2. /\ pc' = [pc EXCEPT ![n] = "invite"]
        /\ dlg' = dlg /\ phase' = phase /\ stop' = stop
    BY <1>1 DEF Spawn, Goto
  <2>3. dlg[n] = "none"
    BY <2>1 DEF IInv, Waiting
  <2>4. \A d \in Calls : Seen(d)' = Seen(d)
    <3>1. ASSUME NEW d \in Calls, d # n PROVE Seen(d)' = Seen(d)
      <4>1. pc'[d] = pc[d] /\ dlg'[d] = dlg[d]
        BY <2>1, <2>2, <3>1 DEF IInv, TypeOK
      <4> QED BY <4>1, SeenSame
    <3>2. ASSUME NEW d \in Calls, d = n PROVE Seen(d)' = Seen(d)
      <4>1. dlg[d] = "none" /\ dlg'[d] = "none"
        BY <2>2, <2>3, <3>2
      <4> QED BY <4>1 DEF Seen
    <3> QED BY <3>1, <3>2
  <2>5. UNCHANGED Service!vars
    BY <2>2, <2>4 DEF Service!vars
  <2> QED BY <2>5
<1>2. CASE Spawned \/ EndListen
  <2>1. pc' = pc /\ dlg' = dlg /\ stop' = stop /\ (phase' # "closed" <=> phase # "closed")
    BY <1>2 DEF Spawned, EndListen
  <2>2. \A d \in Calls : Seen(d)' = Seen(d)
    BY <2>1, SeenSame
  <2> QED BY <2>1, <2>2 DEF Service!vars
<1>3. CASE Stop
  <2>1. pc' = pc /\ dlg' = dlg /\ phase' = phase /\ stop' = TRUE
    BY <1>3 DEF Stop
  <2>2. \A d \in Calls : Seen(d)' = Seen(d)
    BY <2>1, SeenSame
  <2>3. Service!Stop
    BY <2>1, <2>2 DEF Service!Stop
  <2> QED BY <2>3 DEF Service!Next
<1>4. CASE Close
  <2>1. phase # "closed" /\ phase' = "closed" /\ pc' = pc /\ dlg' = dlg /\ stop' = stop
    BY <1>4 DEF Close
  <2>2. ASSUME NEW c \in Calls PROVE Seen(c) \notin {"calling", "up"}
    <3>1. pc[c] \in {"none"} \union Over
      BY <1>4 DEF Close, CallsOver, IInv, TypeOK, Unspawned, Calls
    <3>2. CASE pc[c] = "none"
      BY <3>2 DEF IInv, Waiting, Seen
    <3>3. CASE pc[c] \in Over
      BY <3>3 DEF IInv, Held, Seen, Over, Pending
    <3> QED BY <3>1, <3>2, <3>3
  <2>3. \A c \in Calls : Seen(c)' = Seen(c)
    BY <2>1, SeenSame
  <2>4. Service!Close
    BY <2>1, <2>2, <2>3 DEF Service!Close
  <2> QED BY <2>4 DEF Service!Next
<1> QED BY <1>1, <1>2, <1>3, <1>4

\* The library's steps begin, answer and end calls.
LEMMA LibraryStep ==
  ASSUME IInv, NEW c \in Calls,
         \/ SendInvite(c) \/ Answered(c) \/ Refused(c) \/ PeerBye(c) \/ HandleBye(c)
         \/ \E e \in {"trying", "early"} : Provisional(c, e)
  PROVE  [Service!Next]_Service!vars
<1> USE DEF IInv, TypeOK, Goto, bot
<1>1. CASE SendInvite(c)
  <2>1. Seen(c) \in {"idle"} /\ Seen(c)' = "calling"
    BY <1>1 DEF SendInvite, Seen, Pending, Over
  <2>2. phase # "closed"
    BY <1>1, Open DEF SendInvite, Over
  <2>3. Service!Begin(c)
    BY <1>1, <2>1, <2>2, SeenTurn DEF SendInvite, Service!Begin
  <2> QED BY <2>3 DEF Service!Next
<1>2. CASE Answered(c)
  <2>1. Seen(c) \in {"calling"} /\ Seen(c)' = "up"
    BY <1>2 DEF Answered, Seen, Pending, Over
  <2>2. phase # "closed"
    BY <1>2, Open DEF Answered, Over
  <2>3. Service!Answer(c)
    BY <1>2, <2>1, <2>2, SeenTurn DEF Answered, Service!Answer
  <2> QED BY <2>3 DEF Service!Next
<1>3. CASE Refused(c)
  <2>1. Seen(c) \in {"calling", "up", "lost"} /\ Seen(c)' = "ended"
    BY <1>3 DEF Refused, Seen, Pending, Over
  <2>2. phase # "closed"
    BY <1>3, Open DEF Refused, Over
  <2>3. Service!End(c)
    BY <1>3, <2>1, <2>2, SeenTurn DEF Refused, Service!End
  <2> QED BY <2>3 DEF Service!Next
<1>4. CASE PeerBye(c)
  <2>1. pc' = pc /\ dlg' = dlg /\ phase' = phase /\ stop' = stop
    BY <1>4 DEF PeerBye
  <2>2. UNCHANGED Service!vars
    BY <2>1, SeenSame, Unseen
  <2> QED BY <2>2
<1>5. CASE HandleBye(c)
  <2>1. Seen(c) \in {"calling", "up", "lost"} /\ Seen(c)' = "ended"
    BY <1>5 DEF HandleBye, Seen, Pending
  <2>2. phase # "closed"
    BY <1>5 DEF HandleBye
  <2>3. Service!End(c)
    BY <1>5, <2>1, <2>2, SeenTurn DEF HandleBye, Service!End
  <2> QED BY <2>3 DEF Service!Next
<1>6. ASSUME NEW e \in {"trying", "early"}, Provisional(c, e)
      PROVE  [Service!Next]_Service!vars
  <2>1. Seen(c)' = Seen(c)
    BY <1>6 DEF Provisional, Seen, Pending, Over
  <2>2. UNCHANGED Service!vars
    BY <1>6, <2>1, Unseen DEF Provisional
  <2> QED BY <2>2
<1> QED BY <1>1, <1>2, <1>3, <1>4, <1>5, <1>6

\* A step of a task that has not returned ends the call, loses it, or is not
\* seen.
LEMMA TaskSeen ==
  ASSUME IInv, NEW c \in Calls,
         SetupFails(c) \/ Event(c) \/ Abort(c) \/ TalkOver(c) \/ Monitor(c) \/ Task(c)
  PROVE  /\ phase # "closed" /\ phase' = phase /\ stop' = stop
         /\ \A d \in Calls \ {c} : pc'[d] = pc[d] /\ dlg'[d] = dlg[d]
         /\ \/ Seen(c)' = Seen(c)
            \/ Seen(c) \in {"calling", "up", "lost"} /\ Seen(c)' = "ended"
            \/ Seen(c) \in {"up"} /\ Seen(c)' = "lost"
            \/ stop /\ Seen(c) \in {"calling"} /\ Seen(c)' = "lost"
<1> USE DEF IInv, TypeOK, Goto, bot, Over
<1>1. phase # "closed"
  BY Open DEF SetupFails, Event, Abort, TalkOver, Monitor, Task, Cancelled, Aborted,
              Answer, SayBye, ByeDone
<1>2. CASE SetupFails(c)
  BY <1>1, <1>2 DEF SetupFails, Seen
<1>3. CASE Event(c)
  <2>1. dlg' = dlg
    BY <1>3 DEF Event, Hangup, Waiting, Pending
  <2>2. pc[c] = "invite" /\ (pc' = pc \/ pc' = [pc EXCEPT ![c] = "cancelling"])
    BY <1>3 DEF Event
  <2>3. UNCHANGED bot
    BY <1>3 DEF Event
  <2> QED BY <1>1, <2>1, <2>2, <2>3 DEF Seen, Pending
<1>4. CASE Abort(c)
  <2>1. dlg' = dlg
    BY <1>4 DEF Abort, Hangup, Waiting, Pending
  <2>2. pc[c] = "invite" /\ \E s \in {"aborting", "done"} : pc' = [pc EXCEPT ![c] = s]
    BY <1>4 DEF Abort
  <2>3. UNCHANGED bot /\ stop /\ (dlg[c] = "none" \/ Pending(c))
    BY <1>4 DEF Abort, Waiting
  <2> QED BY <1>1, <2>1, <2>2, <2>3 DEF Seen, Pending
<1>5. CASE TalkOver(c)
  BY <1>1, <1>5 DEF TalkOver, Seen, Pending
<1>6. CASE Monitor(c)
  <2>1. Head(rx[c]) = "terminated" => dlg[c] = "terminated"
    BY <1>6, ChannelTail DEF Monitor, Told
  <2>2. CASE Ends(Head(rx[c]))
    BY <1>1, <1>6, <2>1, <2>2 DEF Monitor, Ends, Seen, Pending
  <2>3. CASE ~Ends(Head(rx[c]))
    BY <1>1, <1>6, <2>3 DEF Monitor, Seen, Pending
  <2> QED BY <2>2, <2>3
<1>7. CASE Cancelled(c)
  BY <1>1, <1>7 DEF Cancelled, Seen, Pending
<1>8. CASE Aborted(c)
  <2>1. pc[c] = "aborting" /\ pc' = [pc EXCEPT ![c] = "done"] /\ dlg' = dlg
    BY <1>8 DEF Aborted
  <2>2. stop /\ (dlg[c] = "none" \/ Pending(c))
    BY <2>1 DEF GivenUp, Waiting
  <2>3. UNCHANGED bot
    BY <1>8 DEF Aborted
  <2> QED BY <1>1, <2>1, <2>2, <2>3 DEF Seen, Pending
<1>9. CASE Answer(c)
  BY <1>1, <1>9 DEF Answer, Waiting, Seen, Pending
<1>10. CASE SayBye(c)
  BY <1>1, <1>10 DEF SayBye, Hangup, Seen, Pending
<1>11. CASE ByeDone(c)
  BY <1>1, <1>11 DEF ByeDone, Held, Waiting, Seen, Pending
<1> QED
  BY <1>2, <1>3, <1>4, <1>5, <1>6, <1>7, <1>8, <1>9, <1>10, <1>11 DEF Task

LEMMA TaskStep ==
  ASSUME IInv, NEW c \in Calls,
         SetupFails(c) \/ Event(c) \/ Abort(c) \/ TalkOver(c) \/ Monitor(c) \/ Task(c)
  PROVE  [Service!Next]_Service!vars
<1>1. CASE Seen(c)' = Seen(c)
  BY <1>1, TaskSeen, Unseen
<1>2. CASE Seen(c) \in {"calling", "up", "lost"} /\ Seen(c)' = "ended"
  <2>1. Service!End(c)
    BY <1>2, TaskSeen, SeenTurn DEF Service!End
  <2> QED BY <2>1 DEF Service!Next
<1>3. CASE Seen(c) \in {"up"} /\ Seen(c)' = "lost"
  <2>1. Service!Lose(c)
    BY <1>3, TaskSeen, SeenTurn DEF Service!Lose
  <2> QED BY <2>1 DEF Service!Next
<1>4. CASE stop /\ Seen(c) \in {"calling"} /\ Seen(c)' = "lost"
  <2>1. Service!GiveUp(c)
    BY <1>4, TaskSeen, SeenTurn DEF Service!GiveUp
  <2> QED BY <2>1 DEF Service!Next
<1> QED BY <1>1, <1>2, <1>3, <1>4, TaskSeen

\* OutboundCall implements CallService.
THEOREM KeepsCallService == Spec => ServiceSpec
<1>1. ASSUME IInv, [Next]_vars PROVE [Service!Next]_Service!vars
  <2>1. CASE UNCHANGED vars
    <3>1. pc' = pc /\ dlg' = dlg /\ phase' = phase /\ stop' = stop
      BY <2>1 DEF vars, bot
    <3>2. \A c \in Calls : Seen(c)' = Seen(c)
      BY <3>1, SeenSame
    <3> QED BY <3>1, <3>2 DEF Service!vars
  <2>2. CASE Next
    BY <1>1, <2>2, BotStep, LibraryStep, TaskStep DEF Next
  <2> QED BY <1>1, <2>1, <2>2
<1> QED BY <1>1, InitService, Invariance, PTL DEF Spec, ServiceSpec, Service!Spec
=============================================================================

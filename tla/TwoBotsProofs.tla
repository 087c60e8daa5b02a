--------------------------- MODULE TwoBotsProofs ---------------------------
(***************************************************************************)
(* A sipbot that calls a sipbot, for any configurations, draws, timers and *)
(* stops.  Each side is a behaviour of its module, so that what is proved  *)
(* of OutboundCall and InboundCall holds of the two together; and what one *)
(* side knows of the end of the call is true of the other, or a message on *)
(* its way will make it so.                                                *)
(***************************************************************************)
EXTENDS TwoBots, SequenceTheorems, TLAPS

-----------------------------------------------------------------------------
\* The two sides.

\* Every step of the two bots is, for the caller, a step of OutboundCall or
\* none (make_call, run_call).
THEOREM CallerIsOutbound == Spec => Out!Spec
<1>1. Init => Out!Init
  BY DEF Init
<1>2. C \in Out!Calls
  BY DEF C, Out!Calls
<1>3. [Next]_vars => [Out!Next]_Out!vars
  <2> SUFFICES ASSUME [Next]_vars PROVE Out!Next \/ UNCHANGED Out!vars
    OBVIOUS
  <2>1. UNCHANGED caller => UNCHANGED Out!vars
    BY DEF caller, Out!vars, Out!bot
  <2>2. CASE CallerRuns
    BY <1>2, <2>2 DEF CallerRuns, Caller, Out!Next
  <2>3. CASE CalleeRuns
    BY <2>1, <2>3 DEF CalleeRuns, Callee, Respond
  <2>4. CASE Arrival
    BY <1>2, <2>1, <2>4 DEF Arrival, CallerHears, CallerMisses, CalleeHears, TimesOut, Out!Next
  <2>5. CASE StopOne
    BY <2>1, <2>5 DEF StopOne, Caller, Callee, Out!Next
  <2>6. CASE UNCHANGED vars
    BY <2>1, <2>6 DEF vars
  <2> QED BY <2>2, <2>3, <2>4, <2>5, <2>6 DEF Next
<1> QED BY <1>1, <1>3, PTL DEF Spec, Out!Spec

\* Every step of the two bots is, for the callee, a step of InboundCall or
\* none (handle_invite, run_wait).
THEOREM CalleeIsInbound == Spec => In!Spec
<1>1. Init => In!Init
  BY DEF Init
<1>2. [Next]_vars => [In!Next]_In!vars
  <2> SUFFICES ASSUME [Next]_vars PROVE In!Next \/ UNCHANGED In!vars
    OBVIOUS
  <2>1. UNCHANGED callee => UNCHANGED In!vars
    BY DEF callee, In!vars, In!dialog, In!tokens, In!record, In!media, In!process
  <2>2. CASE CallerRuns
    BY <2>1, <2>2 DEF CallerRuns, Caller
  <2>3. CASE CalleeRuns
    BY <2>3 DEF CalleeRuns, Callee, Respond, In!Next
  <2>4. CASE Arrival
    BY <2>1, <2>4
    DEF Arrival, CallerHears, CallerMisses, CalleeHears, HearInvite, TimesOut, In!Next
  <2>5. CASE StopOne
    BY <2>1, <2>5 DEF StopOne, Caller, Callee, In!Next
  <2>6. CASE UNCHANGED vars
    BY <2>1, <2>6 DEF vars
  <2> QED BY <2>2, <2>3, <2>4, <2>5, <2>6 DEF Next
<1> QED BY <1>1, <1>2, PTL DEF Spec, In!Spec

-----------------------------------------------------------------------------
\* The inductive invariant.

Requests == {"INVITE", "CANCEL", "ACK", "BYE"}
Answers  == {"100", "1xx", "200", "refused", "BYE"}

Flying(s, m) == \E i \in 1 .. Len(s) : s[i] = m

\* No ACK follows a BYE.
AckFirst(s) == \A i, j \in 1 .. Len(s) : s[i] = "ACK" /\ s[j] = "BYE" => i < j

\* A response of kind k is queued at the callee.
Queued(s, k) == \E i \in 1 .. Len(s) : Kind(s[i]) = k

Answered == {"confirmed", "terminated"}

CallerTypes ==
  /\ started \in {0, 1}
  /\ task \in [Out!Calls -> {"none", "invite", "cancelling", "aborting", "answer",
                             "talk", "bye", "closing"} \union Out!Over]
  /\ line \in [Out!Calls -> {"none", "calling"} \union Out!Events]
  /\ bye \in [Out!Calls -> BOOLEAN]

CalleeTypes ==
  /\ cfg \in [{C} -> In!Config]
  /\ pc \in [{C} -> In!Stages]
  /\ dlg \in [{C} -> {"none", "early", "accepted", "confirmed", "terminated"}]
  /\ out \in [{C} -> Seq(Nat)]
  /\ bot \in {"listen", "drain", "closed"} /\ late \in BOOLEAN

Types ==
  /\ CallerTypes /\ CalleeTypes
  /\ toCallee \in Seq(Requests) /\ toCaller \in Seq(Answers)

\* The caller's task is past the INVITE when it has been answered or refused.
CallerPast ==
  /\ started = 0 => task[C] = "none" /\ line[C] = "none"
  /\ line[C] \in Answered => task[C] \notin {"none", "invite", "cancelling", "aborting"}

\* The callee has no dialog before its INVITE, and its transport is closed
\* under no task unless run_wait gave up.
CalleePast ==
  /\ pc[C] = "none" => dlg[C] = "none"
  /\ bot = "closed" /\ ~late => pc[C] \in {"none", "done"}
  /\ late => bot = "closed"

\* What is on its way to the callee is what the caller has made of the call.
Asked ==
  /\ AckFirst(toCallee)
  /\ Flying(toCallee, "BYE") => line[C] = "terminated"
  /\ Flying(toCallee, "ACK") => line[C] \in Answered

\* What is queued or on its way to the caller is what the callee has made of
\* the call.
Told ==
  /\ Flying(toCaller, "refused") \/ Queued(out[C], "refused") => dlg[C] = "terminated"
  /\ Flying(toCaller, "200") \/ Queued(out[C], "200")
       => dlg[C] \in {"accepted", "confirmed", "terminated"}
  /\ Flying(toCaller, "BYE") \/ bye[C] => dlg[C] = "terminated"

\* How the two dialogs go together, as long as the callee listens.
Agree ==
  bot = "listen" =>
    /\ line[C] = "terminated" => dlg[C] = "terminated" \/ Flying(toCallee, "BYE")
    /\ line[C] \in Answered => dlg[C] \in {"accepted", "confirmed", "terminated"}
    /\ line[C] \in Answered /\ dlg[C] = "accepted" => Flying(toCallee, "ACK")

IInv ==
  /\ Types /\ CallerPast /\ CalleePast /\ Asked /\ Told /\ Agree
  /\ dlg[C] = "confirmed" => line[C] \in Answered

-----------------------------------------------------------------------------
\* Channels.

LEMMA AppendFlying ==
  ASSUME NEW S, NEW s \in Seq(S), NEW m \in S
  PROVE  /\ Append(s, m) \in Seq(S) /\ s \o <<m>> = Append(s, m) /\ Append(s, m) # <<>>
         /\ \A k : Flying(Append(s, m), k) <=> Flying(s, k) \/ k = m
         /\ \A k : Queued(Append(s, m), k) <=> Queued(s, k) \/ k = Kind(m)
<1>1. /\ Append(s, m) \in Seq(S) /\ Len(s) \in Nat
      /\ Len(Append(s, m)) = Len(s) + 1
      /\ \A i \in 1 .. Len(s) : Append(s, m)[i] = s[i]
      /\ Append(s, m)[Len(s) + 1] = m
  BY AppendProperties, LenProperties
<1>2. Append(s, m) # <<>>
  BY <1>1, EmptySeq
<1>3. \A i : i \in 1 .. Len(s) + 1 <=> i \in 1 .. Len(s) \/ i = Len(s) + 1
  BY <1>1
<1>4. \A k : Flying(Append(s, m), k) <=> Flying(s, k) \/ k = m
  BY <1>1, <1>3 DEF Flying
<1>5. \A k : Queued(Append(s, m), k) <=> Queued(s, k) \/ k = Kind(m)
  BY <1>1, <1>3 DEF Queued
<1>6. s \o <<m>> = Append(s, m)
  BY AppendIsConcat
<1> QED BY <1>1, <1>2, <1>4, <1>5, <1>6

LEMMA TailFlying ==
  ASSUME NEW S, NEW s \in Seq(S), s # <<>>
  PROVE  /\ Tail(s) \in Seq(S) /\ Head(s) \in S
         /\ \A k : Flying(s, k) <=> Flying(Tail(s), k) \/ k = Head(s)
         /\ \A k : Queued(s, k) <=> Queued(Tail(s), k) \/ k = Kind(Head(s))
<1>1. /\ Tail(s) \in Seq(S) /\ Head(s) \in S /\ Len(s) \in Nat \ {0}
      /\ Len(Tail(s)) = Len(s) - 1 /\ Head(s) = s[1]
      /\ \A i \in 1 .. Len(Tail(s)) : Tail(s)[i] = s[i + 1] /\ i + 1 \in 1 .. Len(s)
  BY HeadTailProperties, EmptySeq, LenProperties
<1>2. \A i \in 1 .. Len(s) : i = 1 \/ (i - 1 \in 1 .. Len(Tail(s)) /\ Tail(s)[i - 1] = s[i])
  BY <1>1
<1>3. 1 \in 1 .. Len(s)
  BY <1>1
<1>4. \A k : Flying(s, k) <=> Flying(Tail(s), k) \/ k = Head(s)
  BY <1>1, <1>2, <1>3 DEF Flying
<1>5. \A k : Queued(s, k) <=> Queued(Tail(s), k) \/ k = Kind(Head(s))
  BY <1>1, <1>2, <1>3 DEF Queued
<1> QED BY <1>1, <1>4, <1>5

LEMMA AckFirstAppend ==
  ASSUME NEW S, NEW s \in Seq(S), NEW m \in S, AckFirst(s),
         m = "ACK" => ~Flying(s, "BYE")
  PROVE  AckFirst(Append(s, m))
<1>1. /\ Len(s) \in Nat /\ Len(Append(s, m)) = Len(s) + 1
      /\ \A i \in 1 .. Len(s) : Append(s, m)[i] = s[i]
      /\ Append(s, m)[Len(s) + 1] = m
  BY AppendProperties, LenProperties
<1>2. \A i : i \in 1 .. Len(s) + 1 <=> i \in 1 .. Len(s) \/ i = Len(s) + 1
  BY <1>1
<1>3. \A i \in 1 .. Len(s) : i < Len(s) + 1
  BY <1>1
<1> QED BY <1>1, <1>2, <1>3 DEF AckFirst, Flying

LEMMA AckFirstTail ==
  ASSUME NEW S, NEW s \in Seq(S), s # <<>>, AckFirst(s)
  PROVE  AckFirst(Tail(s)) /\ (Head(s) = "BYE" => ~Flying(s, "ACK"))
<1>1. /\ Len(s) \in Nat \ {0} /\ Len(Tail(s)) = Len(s) - 1 /\ Head(s) = s[1]
      /\ \A i \in 1 .. Len(Tail(s)) : Tail(s)[i] = s[i + 1] /\ i + 1 \in 1 .. Len(s)
  BY HeadTailProperties, EmptySeq, LenProperties
<1>2. ASSUME NEW i \in 1 .. Len(Tail(s)), NEW j \in 1 .. Len(Tail(s)),
             Tail(s)[i] = "ACK", Tail(s)[j] = "BYE"
      PROVE  i < j
  <2>1. i + 1 < j + 1
    BY <1>1, <1>2 DEF AckFirst
  <2> QED BY <1>1, <2>1
<1>3. ASSUME Head(s) = "BYE", NEW i \in 1 .. Len(s), s[i] = "ACK" PROVE FALSE
  <2>1. i < 1 /\ i >= 1
    BY <1>1, <1>3 DEF AckFirst
  <2> QED BY <1>1, <2>1
<1> QED BY <1>2, <1>3 DEF AckFirst, Flying

LEMMA EmptyFlying ==
  /\ \A k : ~Flying(<<>>, k) /\ ~Queued(<<>>, k)
  /\ AckFirst(<<>>)
  BY DEF Flying, Queued, AckFirst

-----------------------------------------------------------------------------
LEMMA OneCall == C \in Out!Calls /\ \A n \in {0, 1} : n < 1 => n = 0 /\ n + 1 = C
  BY DEF C, Out!Calls

LEMMA InitInv == Init => IInv
<1> SUFFICES ASSUME Init PROVE IInv
  OBVIOUS
<1>1. toCallee = <<>> /\ toCaller = <<>> /\ out[C] = <<>>
  BY DEF Init, In!Init
<1>2. line[C] = "none" /\ task[C] = "none" /\ bye[C] = FALSE
  BY OneCall DEF Init, Out!Init
<1>3. dlg[C] = "none" /\ pc[C] = "none" /\ bot = "listen" /\ late = FALSE
  BY DEF Init, In!Init
<1>4. CallerTypes
  BY DEF Init, Out!Init, CallerTypes
<1>5. CalleeTypes
  <2>1. out = [c \in {C} |-> <<>>] /\ <<>> \in Seq(Nat)
    BY EmptySeq DEF Init, In!Init
  <2>2. out \in [{C} -> Seq(Nat)]
    BY <2>1
  <2> QED BY <2>2, TwoBotsAssumption DEF Init, In!Init, CalleeTypes, In!Stages
<1> QED
  BY <1>1, <1>2, <1>3, <1>4, <1>5, EmptyFlying, EmptySeq
  DEF IInv, Types, CallerPast, CalleePast, Asked, Told, Agree, Answered

-----------------------------------------------------------------------------
\* The caller's own steps.

\* What a step of the caller does that the callee may come to know.
CallerDoes ==
  \/ /\ line'[C] = line[C] /\ bye'[C] = bye[C] /\ toCallee' = toCallee
  \/ /\ line[C] = "none" /\ line'[C] = "calling" /\ bye'[C] = bye[C]
     /\ toCallee' = Append(toCallee, "INVITE")
  \/ /\ line[C] \notin Answered /\ line'[C] = line[C] /\ bye'[C] = bye[C]
     /\ toCallee' = Append(toCallee, "CANCEL")
  \/ /\ line[C] = "confirmed" /\ line'[C] = "terminated" /\ bye'[C] = bye[C]
     /\ toCallee' = Append(toCallee, "BYE")
  \/ /\ line[C] = "confirmed" /\ line'[C] = "terminated" /\ bye[C] /\ bye'[C] = bye[C]
     /\ toCallee' = toCallee

LEMMA CallerStep ==
  ASSUME Types, CallerPast, toCallee' = toCallee \o Sends,
         \/ Out!Spawn \/ Out!Spawned \/ Out!EndListen \/ Out!Close \/ Out!HandleBye(C)
         \/ Out!SendInvite(C) \/ Out!Event(C) \/ Out!Abort(C) \/ Out!Stop
         \/ Out!TalkOver(C) \/ Out!Monitor(C) \/ Out!Task(C)
  PROVE  CallerDoes /\ CallerTypes' /\ CallerPast' /\ (phase = "closed" => phase' = "closed")
<1> USE OneCall DEF Types, CallerTypes, CallerPast
<1>0. /\ toCallee \o <<>> = toCallee
      /\ toCallee \o <<"INVITE">> = Append(toCallee, "INVITE")
      /\ toCallee \o <<"CANCEL">> = Append(toCallee, "CANCEL")
      /\ toCallee \o <<"BYE">> = Append(toCallee, "BYE")
  BY AppendFlying, ConcatEmptySeq DEF Requests
<1>1. CASE Out!Spawn
  <2>1. started = 0 /\ started + 1 = C /\ line[C] = "none" /\ UNCHANGED <<phase, line, bye>>
    BY <1>1 DEF Out!Spawn, Out!Left
  <2>2. task' = [task EXCEPT ![started + 1] = "invite"] /\ started' = started + 1
    BY <1>1 DEF Out!Spawn, Out!Goto
  <2>3. Sends = <<>>
    BY <2>1, <2>2 DEF Sends, Out!Pending
  <2> QED BY <1>0, <2>1, <2>2, <2>3 DEF CallerDoes, Answered
<1>2. CASE Out!Spawned \/ Out!EndListen \/ Out!Close \/ Out!Stop
  <2>1. UNCHANGED <<started, task, line, bye>> /\ (phase = "closed" => phase' = "closed")
    BY <1>2 DEF Out!Spawned, Out!EndListen, Out!Close, Out!Stop
  <2>2. Sends = <<>>
    BY <2>1 DEF Sends
  <2> QED BY <1>0, <2>1, <2>2 DEF CallerDoes
<1>3. CASE Out!HandleBye(C)
  <2>1. /\ bye[C] /\ line[C] = "confirmed" /\ line' = [line EXCEPT ![C] = "terminated"]
        /\ UNCHANGED <<started, phase, task, bye>>
    BY <1>3 DEF Out!HandleBye, Out!bot
  <2>2. Sends = <<>>
    BY <2>1 DEF Sends, Out!Pending
  <2> QED BY <1>0, <2>1, <2>2 DEF CallerDoes, Out!Events, Answered
<1>4. CASE Out!SendInvite(C)
  <2>1. /\ task[C] = "invite" /\ line[C] = "none" /\ line' = [line EXCEPT ![C] = "calling"]
        /\ UNCHANGED <<started, phase, task, bye>>
    BY <1>4 DEF Out!SendInvite, Out!bot
  <2>2. Sends = <<"INVITE">>
    BY <2>1 DEF Sends
  <2> QED BY <1>0, <2>1, <2>2 DEF CallerDoes, Answered
<1>5. CASE Out!Event(C) \/ Out!Abort(C)
  <2>1. /\ task[C] = "invite" /\ line[C] \notin Answered /\ line' = line
        /\ UNCHANGED <<started, phase, bye>>
    BY <1>5 DEF Out!Event, Out!Abort, Out!bot, Out!Hangup, Answered
  <2>2. \/ task' = task
        \/ \E s \in {"cancelling", "aborting", "done"} : task' = [task EXCEPT ![C] = s]
    BY <1>5 DEF Out!Event, Out!Abort, Out!Goto
  <2>3. Sends \in {<<"CANCEL">>, <<>>}
    BY <2>1 DEF Sends, Answered
  <2> QED BY <1>0, <2>1, <2>2, <2>3 DEF CallerDoes, Out!Over
<1>6. CASE Out!TalkOver(C) \/ Out!Monitor(C)
  <2>1. task[C] = "talk" /\ UNCHANGED <<started, phase, line, bye>>
    BY <1>6 DEF Out!TalkOver, Out!Monitor, Out!bot
  <2>2. \/ task' = task
        \/ \E s \in {"bye", "done"} : task' = [task EXCEPT ![C] = s]
    BY <1>6 DEF Out!TalkOver, Out!Monitor, Out!Goto
  <2>3. Sends = <<>>
    BY <2>1, <2>2 DEF Sends
  <2> QED BY <1>0, <2>1, <2>2, <2>3 DEF CallerDoes, Out!Over
<1>7. CASE Out!Cancelled(C) \/ Out!Aborted(C) \/ Out!Answer(C) \/ Out!ByeDone(C)
  <2>1. /\ task[C] \in {"cancelling", "aborting", "answer", "closing"}
        /\ UNCHANGED <<started, phase, line, bye>>
    BY <1>7 DEF Out!Cancelled, Out!Aborted, Out!Answer, Out!ByeDone, Out!bot
  <2>2. \E s \in {"invite", "talk", "failed", "done"} :
          /\ task' = [task EXCEPT ![C] = s]
          /\ s = "invite" => task[C] = "cancelling"
    BY <1>7 DEF Out!Cancelled, Out!Aborted, Out!Answer, Out!ByeDone, Out!Goto
  <2>3. Sends = <<>>
    BY <2>1, <2>2 DEF Sends
  <2> QED BY <1>0, <2>1, <2>2, <2>3 DEF CallerDoes, Out!Over
<1>8. CASE Out!SayBye(C)
  <2>1. /\ task[C] = "bye" /\ task' = [task EXCEPT ![C] = "closing"]
        /\ line' = [line EXCEPT ![C] = IF @ = "confirmed" THEN "terminated" ELSE @]
        /\ UNCHANGED <<started, phase, bye>>
    BY <1>8 DEF Out!SayBye, Out!Goto, Out!Hangup, Out!bot
  <2>2. Sends = IF line[C] = "confirmed" THEN <<"BYE">> ELSE <<>>
    BY <2>1 DEF Sends, Out!Pending
  <2> QED BY <1>0, <2>1, <2>2 DEF CallerDoes, Out!Events, Answered
<1> QED BY <1>1, <1>2, <1>3, <1>4, <1>5, <1>6, <1>7, <1>8 DEF Out!Task

\* They keep the invariant.
LEMMA CallerKeeps ==
  ASSUME IInv, CallerDoes, CallerTypes', CallerPast', UNCHANGED <<callee, toCaller>>
  PROVE  IInv'
<1> USE DEF IInv, Answered
<1>0. UNCHANGED <<cfg, pc, dlg, out, bot, late>>
  BY DEF callee
<1>1. CASE toCallee' = toCallee
  BY <1>0, <1>1 DEF CallerDoes, Types, CalleeTypes, CalleePast, Asked, Told, Agree
<1>2. ASSUME NEW m \in {"INVITE", "CANCEL", "BYE"}, toCallee' = Append(toCallee, m),
             m = "BYE" => line'[C] = "terminated",
             line[C] \in Answered => line'[C] \in Answered,
             line[C] = "terminated" => line'[C] = "terminated",
             line'[C] \in Answered => line[C] \in Answered,
             line'[C] = "terminated" => line[C] = "terminated" \/ m = "BYE",
             bye'[C] = bye[C]
      PROVE  IInv'
  <2>1. /\ toCallee' \in Seq(Requests) /\ AckFirst(toCallee')
        /\ \A k : Flying(toCallee', k) <=> Flying(toCallee, k) \/ k = m
    BY <1>2, AppendFlying, AckFirstAppend DEF Types, Asked, Requests
  <2>2. Types' /\ CalleePast'
    BY <1>0, <2>1 DEF Types, CalleeTypes, CalleePast
  <2>3. Asked' /\ Told' /\ Agree'
    BY <1>0, <1>2, <2>1 DEF Asked, Told, Agree
  <2> QED BY <1>0, <1>2, <2>2, <2>3
<1> QED BY <1>1, <1>2 DEF CallerDoes

-----------------------------------------------------------------------------
\* The callee's own steps.

\* What a step of the callee does that the caller may come to know.
CalleeDoes ==
  \/ /\ dlg'[C] = dlg[C] /\ out'[C] = out[C] /\ toCaller' = toCaller
  \/ /\ dlg[C] = "early" /\ toCaller' = toCaller
     /\ \E code \in Nat :
          /\ out'[C] = Append(out[C], code)
          /\ \/ dlg'[C] = "early" /\ Kind(code) = "1xx"
             \/ dlg'[C] = "accepted" /\ Kind(code) = "200"
             \/ dlg'[C] = "terminated" /\ Kind(code) \in {"1xx", "refused"}
  \/ /\ dlg[C] \in {"accepted", "confirmed"} /\ dlg'[C] = "terminated"
     /\ out'[C] = out[C]
     /\ \/ toCaller' = Append(toCaller, "BYE")
        \/ toCaller' = toCaller /\ late /\ late'

\* A task that is past its INVITE goes from stage to stage.
Walks ==
  /\ pc[C] \notin {"none", "done"}
  /\ \E s \in In!Stages \ {"none"} : pc' = [pc EXCEPT ![C] = s]

\* The dialog, the queue and the stage.
LEMMA QuietStep ==
  ASSUME Types, CalleePast,
         \/ In!Setup(C) \/ In!Release(C) \/ In!Finish(C) \/ In!Decide(C) \/ In!Jump(C)
         \/ In!Announce(C) \/ In!Talk(C) \/ In!StopSessions(C) \/ In!ByeDone(C)
         \/ In!Drop(C) \/ In!Join(C)
  PROVE  Walks /\ UNCHANGED <<cfg, dlg, out, bot, late>> /\ ~SaysBye
<1> USE DEF Walks, In!Goto, In!dialog, In!process, In!Stages, Types, CalleeTypes, SaysBye
<1>1. CASE In!Setup(C) \/ In!Release(C) \/ In!Finish(C) \/ In!Decide(C)
  BY <1>1 DEF In!Setup, In!Release, In!Finish, In!Decide
<1>2. CASE In!Jump(C) \/ In!Announce(C)
  BY <1>2 DEF In!Jump, In!Announce
<1>3. CASE In!Talk(C) \/ In!StopSessions(C)
  BY <1>3 DEF In!Talk, In!StopSessions
<1>4. CASE In!ByeDone(C) \/ In!Drop(C) \/ In!Join(C)
  BY <1>4 DEF In!ByeDone, In!Drop, In!Join
<1> QED BY <1>1, <1>2, <1>3, <1>4

\* A rejection, with whatever code.
LEMMA RejectDoes ==
  ASSUME CalleeTypes, NEW code \in {0} \union 300 .. 699, In!Reject(C, code),
         toCaller' = toCaller
  PROVE  /\ CalleeDoes
         /\ dlg' \in [{C} -> {"none", "early", "accepted", "confirmed", "terminated"}]
         /\ out' \in [{C} -> Seq(Nat)]
<1>1. CASE dlg[C] = "early"
  <2>1. out[C] \in Seq(Nat) /\ code \in Nat
    BY DEF CalleeTypes
  <2>2. Append(out[C], code) \in Seq(Nat)
    BY <2>1, AppendProperties
  <2>3. /\ out' = [out EXCEPT ![C] = Append(@, code)]
        /\ dlg' = [dlg EXCEPT ![C] = "terminated"]
    BY <1>1 DEF In!Reject
  <2>4. Kind(code) \in {"1xx", "refused"}
    BY DEF Kind
  <2> QED BY <1>1, <2>1, <2>2, <2>3, <2>4 DEF CalleeDoes, CalleeTypes
<1>2. CASE dlg[C] # "early"
  BY <1>2 DEF In!Reject, In!dialog, CalleeDoes, CalleeTypes
<1> QED BY <1>1, <1>2

LEMMA RejectStep ==
  ASSUME Types, CalleePast, toCaller' = IF SaysBye THEN Append(toCaller, "BYE") ELSE toCaller,
         In!Screen(C) \/ In!Media(C) \/ In!RejectAfterTone(C) \/ In!RejectStopped(C)
  PROVE  /\ CalleeDoes /\ Walks /\ UNCHANGED <<cfg, bot, late>>
         /\ dlg' \in [{C} -> {"none", "early", "accepted", "confirmed", "terminated"}]
         /\ out' \in [{C} -> Seq(Nat)]
<1>0. cfg[C] \in In!Config /\ CalleeTypes
  BY DEF Types, CalleeTypes
<1>1. Walks /\ UNCHANGED <<cfg, bot, late>> /\ ~SaysBye
  BY DEF In!Screen, In!Media, In!RejectAfterTone, In!RejectStopped, In!RejectWith, Walks,
         In!Goto, In!Stages, Types, CalleeTypes, In!process, SaysBye
<1> DEFINE S == {0} \union 300 .. 699
<1>2. \/ UNCHANGED <<dlg, out>>
      \/ \E code \in S : In!Reject(C, code)
  <2>1. cfg[C].reject \in S /\ cfg[C].random \in S
    <3>1. \A k \in In!Config : k.reject \in S /\ k.random \in S
      BY ZenonT(60) DEF In!Config
    <3> HIDE DEF S
    <3> QED BY <1>0, <3>1
  <2>2. 403 \in S /\ 480 \in S /\ 486 \in S
    OBVIOUS
  <2> HIDE DEF S
  <2>3. ASSUME NEW code \in In!Codes(C) PROVE code \in S
    <3>1. code \in {403, cfg[C].random, cfg[C].reject}
      BY Zenon DEF In!Codes
    <3> QED BY <2>1, <2>2, <3>1
  <2>4. CASE In!Screen(C)
    <3>1. \/ UNCHANGED <<dlg, out>>
          \/ \E code \in In!Codes(C) : In!Reject(C, code)
      BY <2>4 DEF In!Screen, In!dialog
    <3> QED BY <2>3, <3>1, Zenon
  <2>5. CASE In!Media(C)
    BY <2>2, <2>5 DEF In!Media, In!dialog
  <2>6. CASE In!RejectAfterTone(C)
    <3>1. In!Reject(C, cfg[C].reject)
      BY <2>6, Zenon DEF In!RejectAfterTone, In!RejectWith
    <3> QED BY <2>1, <3>1, Zenon
  <2>7. CASE In!RejectStopped(C)
    BY <2>2, <2>7 DEF In!RejectStopped, In!RejectWith
  <2> QED BY <2>4, <2>5, <2>6, <2>7
<1> QED BY <1>0, <1>1, <1>2, RejectDoes, ZenonT(60) DEF CalleeDoes, CalleeTypes

\* A provisional response, or none.
LEMMA PlayStep ==
  ASSUME Types, CalleePast, toCaller' = IF SaysBye THEN Append(toCaller, "BYE") ELSE toCaller,
         In!Tone(C) \/ In!Early(C) \/ In!Ring(C)
  PROVE  /\ CalleeDoes /\ UNCHANGED <<cfg, bot, late>>
         /\ pc[C] \notin {"none", "done"} /\ (Walks \/ UNCHANGED pc)
         /\ dlg' \in [{C} -> {"none", "early", "accepted", "confirmed", "terminated"}]
         /\ out' \in [{C} -> Seq(Nat)]
<1>0. cfg[C] \in In!Config /\ CalleeTypes
  BY DEF Types, CalleeTypes
<1>1. PICK s \in In!Stages \ {"none", "done", "uibye", "bye"}, code \in {0, 180, 183},
           fatal \in BOOLEAN, next \in In!Stages \ {"none"} :
        In!Play(C, s, code, fatal, next)
  <2>1. In!ToneCode(C) \in {0, 180, 183} /\ In!EarlyCode(C) \in {0, 180, 183}
        /\ In!RingCode(C) \in {0, 180, 183}
    BY <1>0 DEF In!ToneCode, In!EarlyCode, In!RingCode, In!Config
  <2> QED BY <2>1 DEF In!Tone, In!Early, In!Ring, In!Stages
<1>2. pc[C] \notin {"none", "done"} /\ (Walks \/ UNCHANGED pc) /\ ~SaysBye
  BY <1>1 DEF In!Play, In!Goto, Walks, In!Stages, Types, CalleeTypes, SaysBye
<1>3. UNCHANGED <<cfg, bot, late>>
  BY <1>1 DEF In!Play, In!process
<1>4. UNCHANGED dlg /\ (UNCHANGED out \/ (dlg[C] = "early" /\ code # 0
                                         /\ out' = [out EXCEPT ![C] = Append(@, code)]))
  BY <1>1 DEF In!Play, In!Alert, In!dialog
<1>5. Kind(code) = "1xx" /\ code \in Nat
  BY DEF Kind
<1>6. out[C] \in Seq(Nat) /\ Append(out[C], code) \in Seq(Nat)
  BY <1>0, <1>5, AppendProperties DEF CalleeTypes
<1> QED BY <1>0, <1>2, <1>3, <1>4, <1>5, <1>6 DEF CalleeDoes, CalleeTypes

LEMMA AcceptStep ==
  ASSUME Types, CalleePast, toCaller' = IF SaysBye THEN Append(toCaller, "BYE") ELSE toCaller,
         In!Accept(C)
  PROVE  /\ CalleeDoes /\ Walks /\ UNCHANGED <<cfg, bot, late>>
         /\ dlg' \in [{C} -> {"none", "early", "accepted", "confirmed", "terminated"}]
         /\ out' \in [{C} -> Seq(Nat)]
<1>0. CalleeTypes
  BY DEF Types
<1>1. Walks /\ UNCHANGED <<cfg, bot, late>> /\ ~SaysBye
  BY DEF In!Accept, Walks, In!Goto, In!Stages, Types, CalleeTypes, In!process, SaysBye
<1>2. CASE dlg[C] = "early"
  <2>1. out' = [out EXCEPT ![C] = Append(@, 200)] /\ dlg' = [dlg EXCEPT ![C] = "accepted"]
    BY <1>2 DEF In!Accept
  <2>2. out[C] \in Seq(Nat) /\ Append(out[C], 200) \in Seq(Nat)
    BY <1>0, AppendProperties DEF CalleeTypes
  <2>3. Kind(200) = "200"
    BY DEF Kind
  <2> QED BY <1>0, <1>1, <1>2, <2>1, <2>2, <2>3 DEF CalleeDoes, CalleeTypes
<1>3. CASE dlg[C] # "early"
  BY <1>0, <1>1, <1>3 DEF In!Accept, In!dialog, CalleeDoes, CalleeTypes
<1> QED BY <1>2, <1>3

\* A BYE goes out while the transport is open; it is closed under a task only
\* if run_wait gave up.
LEMMA ByeStep ==
  ASSUME Types, CalleePast, toCaller' = IF SaysBye THEN Append(toCaller, "BYE") ELSE toCaller,
         In!HangUp(C) \/ In!SayBye(C)
  PROVE  /\ CalleeDoes /\ Walks /\ UNCHANGED <<cfg, bot, late>>
         /\ dlg' \in [{C} -> {"none", "early", "accepted", "confirmed", "terminated"}]
         /\ out' \in [{C} -> Seq(Nat)]
<1>0. CalleeTypes /\ pc[C] \in {"uibye", "bye"} /\ UNCHANGED <<cfg, bot, late>>
  BY DEF Types, In!HangUp, In!SayBye, In!process
<1>1. \/ \E s \in {"stop", "drop"} : pc' = [pc EXCEPT ![C] = s] /\ UNCHANGED <<dlg, out>>
      \/ /\ dlg[C] \in {"accepted", "confirmed"}
         /\ dlg' = [dlg EXCEPT ![C] = "terminated"]
         /\ pc' = [pc EXCEPT ![C] = "closing"] /\ UNCHANGED out
  BY DEF In!HangUp, In!SayBye, In!Bye, In!Goto, In!dialog
<1>2. CASE \E s \in {"stop", "drop"} : pc' = [pc EXCEPT ![C] = s] /\ UNCHANGED <<dlg, out>>
  <2>1. ~SaysBye
    BY <1>0, <1>2 DEF SaysBye, CalleeTypes
  <2> QED BY <1>0, <1>2, <2>1 DEF CalleeDoes, CalleeTypes, Walks, In!Stages
<1>3. CASE /\ dlg[C] \in {"accepted", "confirmed"}
           /\ dlg' = [dlg EXCEPT ![C] = "terminated"]
           /\ pc' = [pc EXCEPT ![C] = "closing"] /\ UNCHANGED out
  <2>1. bot = "closed" => late /\ late'
    BY <1>0 DEF CalleePast
  <2>2. SaysBye <=> bot # "closed"
    BY <1>0, <1>3 DEF SaysBye, CalleeTypes
  <2> QED BY <1>0, <1>3, <2>1, <2>2 DEF CalleeDoes, CalleeTypes, Walks, In!Stages
<1> QED BY <1>1, <1>2, <1>3

\* run_wait, the monitor and the guard.
LEMMA BotStep ==
  ASSUME Types, CalleePast,
         In!EndListen \/ In!Close \/ In!Stop \/ In!GuardStop(C) \/ In!Monitor(C)
  PROVE  /\ UNCHANGED <<cfg, pc, dlg, out>> /\ ~SaysBye
         /\ bot' \in {"listen", "drain", "closed"} /\ late' \in BOOLEAN
         /\ (bot' = "listen" => bot = "listen") /\ (late => late') /\ CalleePast'
<1> USE DEF Types, CalleeTypes, CalleePast, In!dialog, SaysBye
<1>1. CASE In!EndListen \/ In!Stop
  BY <1>1 DEF In!EndListen, In!Stop
<1>2. CASE In!Close
  <2>1. /\ late' = (In!Current # {}) /\ bot = "drain" /\ bot' = "closed"
        /\ UNCHANGED <<cfg, pc, dlg, out>>
    BY <1>2 DEF In!Close
  <2>2. In!Current = {} => pc[C] \in {"none", "done"}
    BY DEF In!Current
  <2> QED BY <2>1, <2>2
<1>3. CASE In!GuardStop(C) \/ In!Monitor(C)
  BY <1>3 DEF In!GuardStop, In!Monitor, In!process
<1> QED BY <1>1, <1>2, <1>3

\* Any of them.
LEMMA CalleeStep ==
  ASSUME Types, CalleePast, toCaller' = IF SaysBye THEN Append(toCaller, "BYE") ELSE toCaller,
         \/ In!EndListen \/ In!Close \/ In!Stop
         \/ In!Task(C) \/ In!GuardStop(C) \/ In!Monitor(C)
  PROVE  /\ CalleeDoes /\ CalleeTypes' /\ CalleePast'
         /\ (bot' = "listen" => bot = "listen") /\ (late => late')
<1>1. CASE In!EndListen \/ In!Close \/ In!Stop \/ In!GuardStop(C) \/ In!Monitor(C)
  BY <1>1, BotStep DEF CalleeDoes, CalleeTypes, Types
<1>2. CASE In!Task(C)
  <2>1. /\ CalleeDoes /\ UNCHANGED <<cfg, bot, late>>
        /\ pc[C] \notin {"none", "done"} /\ (Walks \/ UNCHANGED pc)
        /\ dlg' \in [{C} -> {"none", "early", "accepted", "confirmed", "terminated"}]
        /\ out' \in [{C} -> Seq(Nat)]
    <3>1. CASE \/ In!Setup(C) \/ In!Release(C) \/ In!Finish(C) \/ In!Decide(C) \/ In!Jump(C)
               \/ In!Announce(C) \/ In!Talk(C) \/ In!StopSessions(C) \/ In!ByeDone(C)
               \/ In!Drop(C) \/ In!Join(C)
      BY <3>1, QuietStep DEF CalleeDoes, Walks, Types, CalleeTypes
    <3>2. CASE In!Screen(C) \/ In!Media(C) \/ In!RejectAfterTone(C) \/ In!RejectStopped(C)
      BY <3>2, RejectStep DEF Walks
    <3>3. CASE In!Tone(C) \/ In!Early(C) \/ In!Ring(C)
      BY <3>3, PlayStep
    <3>4. CASE In!Accept(C) \/ In!HangUp(C) \/ In!SayBye(C)
      BY <3>4, AcceptStep, ByeStep DEF Walks
    <3> QED BY <1>2, <3>1, <3>2, <3>3, <3>4 DEF In!Task
  <2>2. pc' \in [{C} -> In!Stages] /\ pc'[C] # "none"
    BY <2>1 DEF Walks, Types, CalleeTypes
  <2> QED BY <2>1, <2>2 DEF CalleeTypes, CalleePast, Types
<1> QED BY <1>1, <1>2

\* What the dialog does, and that what it tells the caller is true.
LEMMA ToldKeeps ==
  ASSUME Types, Told, CalleeDoes, UNCHANGED bye
  PROVE  /\ Told' /\ toCaller' \in Seq(Answers)
         /\ \/ dlg'[C] = dlg[C]
            \/ dlg[C] = "early" /\ dlg'[C] \in {"accepted", "terminated"}
            \/ dlg[C] \in {"accepted", "confirmed"} /\ dlg'[C] = "terminated"
<1>1. /\ toCaller' \in Seq(Answers)
      /\ \A k : Flying(toCaller', k) => Flying(toCaller, k) \/ (k = "BYE" /\ dlg'[C] = "terminated")
  <2>1. toCaller \in Seq(Answers) /\ "BYE" \in Answers
    BY DEF Types, Answers
  <2>2. /\ Append(toCaller, "BYE") \in Seq(Answers)
        /\ \A k : Flying(Append(toCaller, "BYE"), k) <=> Flying(toCaller, k) \/ k = "BYE"
    BY <2>1, AppendFlying
  <2>3. toCaller' = toCaller \/ (toCaller' = Append(toCaller, "BYE") /\ dlg'[C] = "terminated")
    BY DEF CalleeDoes
  <2> QED BY <2>1, <2>2, <2>3
<1>2. \/ dlg'[C] = dlg[C]
      \/ dlg[C] = "early" /\ dlg'[C] \in {"accepted", "terminated"}
      \/ dlg[C] \in {"accepted", "confirmed"} /\ dlg'[C] = "terminated"
  BY DEF CalleeDoes
<1>3. \/ out'[C] = out[C]
      \/ \E code \in Nat :
           /\ \A k : Queued(out'[C], k) <=> Queued(out[C], k) \/ k = Kind(code)
           /\ \/ dlg'[C] = "early" /\ Kind(code) = "1xx"
              \/ dlg'[C] = "accepted" /\ Kind(code) = "200"
              \/ dlg'[C] = "terminated"
  <2>1. out[C] \in Seq(Nat)
    BY DEF Types, CalleeTypes
  <2>2. \A code \in Nat : \A k :
          Queued(Append(out[C], code), k) <=> Queued(out[C], k) \/ k = Kind(code)
    BY <2>1, AppendFlying
  <2> QED BY <2>2 DEF CalleeDoes
<1> QED BY <1>1, <1>2, <1>3 DEF Told

\* They keep the invariant.
LEMMA CalleeKeeps ==
  ASSUME IInv, CalleeDoes, CalleeTypes', CalleePast', UNCHANGED <<caller, toCallee>>,
         bot' = "listen" => bot = "listen"
  PROVE  IInv'
<1> USE DEF IInv
<1>0. UNCHANGED <<started, task, line, bye>>
  BY DEF caller
<1>1. CallerTypes' /\ CallerPast' /\ Asked'
  BY <1>0 DEF Types, CallerTypes, CallerPast, Asked
<1>2. /\ Told' /\ toCaller' \in Seq(Answers)
      /\ \/ dlg'[C] = dlg[C]
         \/ dlg[C] = "early" /\ dlg'[C] \in {"accepted", "terminated"}
         \/ dlg[C] \in {"accepted", "confirmed"} /\ dlg'[C] = "terminated"
  BY <1>0, ToldKeeps
<1>3. Agree' /\ (dlg'[C] = "confirmed" => line'[C] \in Answered)
  BY <1>0, <1>2 DEF Agree
<1> QED BY <1>1, <1>2, <1>3 DEF Types

-----------------------------------------------------------------------------
\* Messages.

\* A response leaves the queue.
LEMMA RespondKeeps ==
  ASSUME IInv, Respond
  PROVE  IInv'
<1> USE DEF IInv
<1>0. /\ UNCHANGED <<started, task, line, bye, cfg, pc, dlg, bot, late, toCallee>>
      /\ out[C] # <<>> /\ out' = [out EXCEPT ![C] = Tail(@)]
      /\ toCaller' = Append(toCaller, Kind(Head(out[C])))
  BY DEF Respond, caller, In!Send, In!process
<1>1. /\ out[C] \in Seq(Nat) /\ out'[C] = Tail(out[C]) /\ out' \in [{C} -> Seq(Nat)]
      /\ \A k : Queued(out[C], k) <=> Queued(out'[C], k) \/ k = Kind(Head(out[C]))
  <2>1. out[C] \in Seq(Nat)
    BY DEF Types, CalleeTypes
  <2> QED BY <1>0, <2>1, TailFlying DEF Types, CalleeTypes
<1>2. /\ toCaller' \in Seq(Answers)
      /\ \A k : Flying(toCaller', k) <=> Flying(toCaller, k) \/ k = Kind(Head(out[C]))
  <2>1. Kind(Head(out[C])) \in Answers \ {"BYE"}
    BY DEF Kind, Answers
  <2> QED BY <1>0, <2>1, AppendFlying DEF Types
<1>3. Types' /\ CallerPast' /\ CalleePast' /\ Asked' /\ Agree'
  BY <1>0, <1>1, <1>2 DEF Types, CallerTypes, CalleeTypes, CallerPast, CalleePast, Asked, Agree
<1>4. Kind(Head(out[C])) # "BYE"
  BY DEF Kind
<1>5. Told'
  BY <1>0, <1>1, <1>2, <1>4 DEF Told
<1> QED BY <1>0, <1>3, <1>5

\* A message reaches the callee, or finds nobody there.
LEMMA CalleeHearsKeeps ==
  ASSUME IInv, CalleeHears
  PROVE  IInv'
<1> USE DEF IInv
<1>0. /\ UNCHANGED <<started, task, line, bye, phase>>
      /\ toCallee # <<>> /\ toCallee' = Tail(toCallee)
  BY DEF CalleeHears, HearInvite, Arrives, caller
<1>1. /\ toCallee' \in Seq(Requests) /\ Asked' /\ CallerTypes' /\ CallerPast'
      /\ \A k : Flying(toCallee, k) <=> Flying(toCallee', k) \/ k = Head(toCallee)
      /\ Head(toCallee) = "BYE" => ~Flying(toCallee, "ACK")
  BY <1>0, TailFlying, AckFirstTail DEF Types, CallerTypes, CallerPast, Asked
<1>2. CASE HearInvite
  <2>1. /\ bot = "listen" /\ dlg[C] = "none"
        /\ dlg' = [dlg EXCEPT ![C] = "early"] /\ pc' = [pc EXCEPT ![C] = "setup"]
        /\ UNCHANGED <<cfg, out, bot, late>>
    BY <1>2 DEF HearInvite, In!Invite, In!Goto, In!process, CalleePast
  <2>2. line[C] \notin Answered
    BY <2>1 DEF Agree
  <2>3. toCaller' \in Seq(Answers) /\ \A k : Flying(toCaller', k) => Flying(toCaller, k) \/ k = "100"
    <3>1. toCaller \in Seq(Answers) /\ "100" \in Answers
      BY DEF Types, Answers
    <3>2. /\ Append(toCaller, "100") \in Seq(Answers)
          /\ \A k : Flying(Append(toCaller, "100"), k) <=> Flying(toCaller, k) \/ k = "100"
      BY <3>1, AppendFlying
    <3> QED BY <1>2, <3>1, <3>2 DEF HearInvite
  <2>4. CalleeTypes' /\ CalleePast'
    BY <2>1 DEF Types, CalleeTypes, CalleePast, In!Stages
  <2>5. Told' /\ Agree' /\ dlg'[C] # "confirmed"
    BY <1>0, <2>1, <2>2, <2>3 DEF Types, CalleeTypes, Told, Agree, Answered
  <2> QED BY <1>1, <2>3, <2>4, <2>5 DEF Types
<1>3. CASE Arrives("CANCEL") /\ In!Cancel(C) /\ UNCHANGED toCaller
  <2>1. In!Reject(C, 487) /\ UNCHANGED <<cfg, pc, bot, late>> /\ dlg[C] # "none"
    BY <1>3 DEF In!Cancel, In!process
  <2>2. CalleeDoes /\ CalleeTypes' /\ Told' /\ toCaller' \in Seq(Answers)
    BY <1>0, <1>3, <2>1, RejectDoes, ToldKeeps DEF Types, CalleeTypes
  <2>3. dlg'[C] = dlg[C] \/ dlg'[C] = "terminated"
    BY <1>3, <2>1 DEF In!Reject, In!dialog, Types, CalleeTypes
  <2>4. CalleePast'
    BY <2>1 DEF CalleePast
  <2>5. Head(toCallee) = "CANCEL"
    BY <1>3 DEF Arrives
  <2>6. Agree' /\ (dlg'[C] = "confirmed" => line'[C] \in Answered)
    BY <1>0, <1>1, <2>1, <2>3, <2>5 DEF Agree
  <2> QED BY <1>1, <2>2, <2>4, <2>6 DEF Types
<1>4. CASE Arrives("ACK") /\ In!Ack(C) /\ UNCHANGED toCaller
  <2>1. /\ dlg' = [dlg EXCEPT ![C] = "confirmed"] /\ dlg[C] = "accepted"
        /\ UNCHANGED <<cfg, pc, out, bot, late>>
    BY <1>4 DEF In!Ack, In!process
  <2>2. line[C] \in Answered
    BY <1>0, <1>1, <1>4 DEF Arrives, Asked
  <2>3. CalleeTypes' /\ CalleePast' /\ dlg'[C] = "confirmed"
    BY <2>1 DEF Types, CalleeTypes, CalleePast
  <2>4. Told' /\ Agree'
    <3>1. Head(toCallee) = "ACK"
      BY <1>4 DEF Arrives
    <3> QED BY <1>0, <1>1, <1>4, <2>1, <2>3, <3>1 DEF Told, Agree
  <2> QED BY <1>0, <1>1, <1>4, <2>2, <2>3, <2>4 DEF Types
<1>5. CASE Arrives("BYE") /\ In!RemoteBye(C) /\ UNCHANGED toCaller
  <2>1. /\ dlg[C] = "confirmed" /\ UNCHANGED <<cfg, pc, out, bot, late>>
        /\ dlg' = IF bot = "listen" THEN [dlg EXCEPT ![C] = "terminated"] ELSE dlg
    BY <1>5 DEF In!RemoteBye, In!process
  <2>2. CalleeTypes' /\ CalleePast'
    BY <2>1 DEF Types, CalleeTypes, CalleePast
  <2>3. dlg'[C] = IF bot = "listen" THEN "terminated" ELSE dlg[C]
    BY <2>1 DEF Types, CalleeTypes
  <2>4. Told' /\ Agree'
    BY <1>0, <1>5, <2>1, <2>3 DEF Told, Agree
  <2> QED BY <1>0, <1>1, <1>5, <2>1, <2>2, <2>3, <2>4 DEF Types
<1>6. ASSUME NEW m \in Requests, Arrives(m), Missed(m), UNCHANGED <<callee, toCaller>>
      PROVE  IInv'
  <2>1. UNCHANGED <<cfg, pc, dlg, out, bot, late>> /\ Head(toCallee) = m
    BY <1>6 DEF callee, Arrives
  <2>2. CalleeTypes' /\ CalleePast' /\ Told'
    BY <1>0, <1>6, <2>1 DEF Types, CalleeTypes, CalleePast, Told
  <2>3. Agree'
    BY <1>0, <1>1, <1>6, <2>1 DEF Agree, Missed, Answered
  <2> QED BY <1>0, <1>1, <1>6, <2>1, <2>2, <2>3 DEF Types
<1> QED BY <1>2, <1>3, <1>4, <1>5, <1>6 DEF CalleeHears, Requests

\* A response or a BYE reaches the caller.
LEMMA CallerHearsKeeps ==
  ASSUME IInv, CallerHears
  PROVE  IInv'
<1> USE OneCall DEF IInv
<1> DEFINE m == Head(toCaller)
<1>0. /\ toCaller # <<>> /\ toCaller' = Tail(toCaller)
      /\ UNCHANGED <<cfg, pc, dlg, out, bot, late>>
      /\ toCallee' = IF m = "200" THEN Append(toCallee, "ACK") ELSE toCallee
  BY DEF CallerHears, Comes, callee
<1>1. /\ toCaller' \in Seq(Answers) /\ CalleeTypes' /\ CalleePast'
      /\ \A k : Flying(toCaller, k) <=> Flying(toCaller', k) \/ k = m
  BY <1>0, TailFlying DEF Types, CalleeTypes, CalleePast
<1>2. ASSUME NEW e \in {"trying", "early"}, Out!Provisional(C, e), m # "200"
      PROVE  IInv'
  <2>1. /\ UNCHANGED <<started, task, bye>> /\ line[C] \notin Answered
        /\ line' = [line EXCEPT ![C] = e] /\ task[C] = "invite"
    BY <1>2 DEF Out!Provisional, Out!Pending, Out!bot, Answered
  <2>2. CallerTypes' /\ CallerPast' /\ line'[C] \notin Answered
    BY <2>1 DEF Types, CallerTypes, CallerPast, Out!Events, Answered
  <2>3. Asked' /\ Told' /\ Agree'
    BY <1>0, <1>1, <1>2, <2>1, <2>2 DEF Asked, Told, Agree, Answered
  <2> QED BY <1>0, <1>1, <1>2, <2>1, <2>2, <2>3 DEF Types
<1>3. CASE m = "200" /\ Out!Answered(C)
  <2>1. /\ UNCHANGED <<started, bye>> /\ line[C] \notin Answered
        /\ line' = [line EXCEPT ![C] = "confirmed"] /\ task[C] = "invite"
        /\ task' = [task EXCEPT ![C] = "answer"]
    BY <1>3 DEF Out!Answered, Out!Pending, Out!bot, Out!Goto, Answered
  <2>2. CallerTypes' /\ CallerPast' /\ line'[C] = "confirmed"
    BY <2>1 DEF Types, CallerTypes, CallerPast, Out!Events, Answered
  <2>3. /\ toCallee' \in Seq(Requests) /\ AckFirst(toCallee')
        /\ \A k : Flying(toCallee', k) <=> Flying(toCallee, k) \/ k = "ACK"
    BY <1>0, <1>3, <2>1, AppendFlying, AckFirstAppend DEF Types, Asked, Requests, Answered
  <2>4. dlg[C] \in {"accepted", "confirmed", "terminated"}
    BY <1>1, <1>3 DEF Told
  <2>5. Asked' /\ Told' /\ Agree'
    BY <1>0, <1>1, <2>1, <2>2, <2>3, <2>4 DEF Asked, Told, Agree, Answered
  <2> QED BY <1>0, <1>1, <2>2, <2>3, <2>5 DEF Types, Answered
<1>4. CASE m = "refused" /\ Out!Refused(C)
  <2>1. /\ UNCHANGED <<started, bye>> /\ task[C] = "invite"
        /\ line' = [line EXCEPT ![C] = "terminated"]
        /\ \E s \in {"done", "failed"} : task' = [task EXCEPT ![C] = s]
    BY <1>4 DEF Out!Refused, Out!bot, Out!Goto
  <2>2. CallerTypes' /\ CallerPast' /\ line'[C] = "terminated"
    BY <2>1 DEF Types, CallerTypes, CallerPast, Out!Events, Out!Over, Answered
  <2>3. dlg[C] = "terminated"
    BY <1>1, <1>4 DEF Told
  <2>4. Asked' /\ Told' /\ Agree'
    BY <1>0, <1>1, <1>4, <2>1, <2>2, <2>3 DEF Asked, Told, Agree, Answered
  <2> QED BY <1>0, <1>1, <1>4, <2>2, <2>3, <2>4 DEF Types
<1>5. CASE m = "BYE" /\ Out!PeerBye(C)
  <2>1. UNCHANGED <<started, task, line>> /\ bye' = [bye EXCEPT ![C] = TRUE]
    BY <1>5 DEF Out!PeerBye, Out!bot
  <2>2. CallerTypes' /\ CallerPast'
    BY <2>1 DEF Types, CallerTypes, CallerPast
  <2>3. dlg[C] = "terminated"
    BY <1>1, <1>5 DEF Told
  <2>4. Asked' /\ Told' /\ Agree'
    BY <1>0, <1>1, <1>5, <2>1, <2>3 DEF Asked, Told, Agree
  <2> QED BY <1>0, <1>1, <1>5, <2>2, <2>3, <2>4 DEF Types
<1> QED BY <1>2, <1>3, <1>4, <1>5 DEF CallerHears, Comes

\* Nobody listens at the caller.
LEMMA CallerMissesKeeps ==
  ASSUME IInv, CallerMisses
  PROVE  IInv'
<1> USE DEF IInv
<1>0. /\ toCaller # <<>> /\ toCaller' = Tail(toCaller)
      /\ UNCHANGED <<started, task, line, bye, cfg, pc, dlg, out, bot, late, toCallee>>
  BY DEF CallerMisses, Comes, caller, callee
<1>1. /\ toCaller' \in Seq(Answers)
      /\ \A k : Flying(toCaller, k) <=> Flying(toCaller', k) \/ k = Head(toCaller)
  BY <1>0, TailFlying DEF Types
<1> QED BY <1>0, <1>1 DEF Types, CallerTypes, CalleeTypes, CallerPast, CalleePast, Asked,
                          Told, Agree

LEMMA TimesOutKeeps ==
  ASSUME IInv, TimesOut
  PROVE  IInv'
<1> USE OneCall DEF IInv
<1>1. /\ UNCHANGED <<started, bye, cfg, pc, dlg, out, bot, late, toCallee, toCaller>>
      /\ task[C] = "invite" /\ bot # "listen" /\ toCallee = <<>>
      /\ line' = [line EXCEPT ![C] = "terminated"]
      /\ \E s \in {"done", "failed"} : task' = [task EXCEPT ![C] = s]
  BY DEF TimesOut, Out!Refused, Out!bot, Out!Goto, callee, net
<1>2. CallerTypes' /\ CallerPast' /\ line'[C] = "terminated"
  BY <1>1 DEF Types, CallerTypes, CallerPast, Out!Events, Out!Over, Answered
<1>3. CalleeTypes' /\ CalleePast' /\ Asked' /\ Told' /\ Agree'
  BY <1>1, <1>2, EmptyFlying DEF Types, CalleeTypes, CalleePast, Asked, Told, Agree
<1> QED BY <1>1, <1>2, <1>3 DEF Types, Answered

-----------------------------------------------------------------------------
LEMMA NextInv == IInv /\ [Next]_vars => IInv'
<1> SUFFICES ASSUME IInv, [Next]_vars PROVE IInv'
  OBVIOUS
<1>1. CASE CallerRuns \/ (StopOne /\ Caller(Out!Stop))
  <2>1. CallerDoes /\ CallerTypes' /\ CallerPast' /\ UNCHANGED <<callee, toCaller>>
    BY <1>1, CallerStep DEF CallerRuns, Caller, IInv
  <2> QED BY <2>1, CallerKeeps
<1>2. CASE (CalleeRuns /\ ~Respond) \/ (StopOne /\ Callee(In!Stop))
  <2>1. /\ CalleeDoes /\ CalleeTypes' /\ CalleePast' /\ UNCHANGED <<caller, toCallee>>
        /\ bot' = "listen" => bot = "listen"
    BY <1>2, CalleeStep DEF CalleeRuns, Callee, IInv
  <2> QED BY <2>1, CalleeKeeps
<1>3. CASE Respond
  BY <1>3, RespondKeeps
<1>4. CASE Arrival
  BY <1>4, CallerHearsKeeps, CallerMissesKeeps, CalleeHearsKeeps, TimesOutKeeps DEF Arrival
<1>5. CASE UNCHANGED vars
  BY <1>5 DEF vars, caller, callee, net, IInv, Types, CallerTypes, CalleeTypes, CallerPast,
              CalleePast, Asked, Told, Agree
<1> QED BY <1>1, <1>2, <1>3, <1>4, <1>5 DEF Next, StopOne

LEMMA Inductive == Spec => []IInv
  BY InitInv, NextInv, PTL DEF Spec

-----------------------------------------------------------------------------
\* A caller that knows the dialog has heard of a callee that has the INVITE,
\* so that its CANCEL does not come before it.

Heard == line[C] \notin {"none", "calling"}

Cancels ==
  /\ known \in [Out!Calls -> BOOLEAN]
  /\ known[C] \/ rx[C] # <<>> => Heard
  /\ bot = "listen" /\ (Heard \/ toCaller # <<>> \/ out[C] # <<>>) => dlg[C] # "none"
  /\ task[C] \in {"answer", "talk", "bye", "closing"} => line[C] \in Answered
  /\ bot = "listen" /\ known[C] /\ Out!Pending(C) /\ task[C] \in {"aborting"} \union Out!Over
       => dlg[C] \in {"accepted", "terminated"} \/ Flying(toCallee, "CANCEL")

LEMMA InitCancels == Init => Cancels
  BY OneCall DEF Init, Out!Init, In!Init, Cancels, Heard, Out!Over

LEMMA CancelFlies ==
  ASSUME NEW s \in Seq(Requests)
  PROVE  Flying(s \o <<"CANCEL">>, "CANCEL")
<1>1. "CANCEL" \in Requests
  BY DEF Requests
<1>2. s \o <<"CANCEL">> = Append(s, "CANCEL")
  BY <1>1, AppendFlying
<1>3. Flying(Append(s, "CANCEL"), "CANCEL")
  BY <1>1, AppendFlying
<1> QED BY <1>2, <1>3

LEMMA CallerCancels ==
  ASSUME IInv, Cancels, toCallee' = toCallee \o Sends, UNCHANGED <<callee, toCaller>>,
         \/ Out!Spawn \/ Out!Spawned \/ Out!EndListen \/ Out!Close \/ Out!HandleBye(C)
         \/ Out!SendInvite(C) \/ Out!Event(C) \/ Out!Abort(C) \/ Out!Stop
         \/ Out!TalkOver(C) \/ Out!Monitor(C) \/ Out!Task(C)
  PROVE  Cancels'
<1> USE OneCall DEF IInv, Types, CallerTypes, CallerPast, Cancels, Heard, Answered
<1>0. /\ UNCHANGED <<bot, dlg, out, toCaller>>
      /\ Flying(toCallee, "CANCEL") => Flying(toCallee', "CANCEL")
  <2>1. CallerDoes
    BY CallerStep
  <2>2. \A m \in Requests : Flying(toCallee, "CANCEL") => Flying(Append(toCallee, m), "CANCEL")
    BY AppendFlying
  <2> QED BY <2>1, <2>2 DEF CallerDoes, Requests, callee
<1>1. CASE Out!Spawn
  <2>1. started = 0 /\ started + 1 = C /\ line[C] = "none" /\ UNCHANGED <<line, known, rx>>
    BY <1>1 DEF Out!Spawn, Out!Left
  <2>2. task'[C] = "invite"
    BY <1>1, <2>1 DEF Out!Spawn, Out!Goto
  <2> QED BY <1>0, <2>1, <2>2 DEF Out!Over, Out!Pending
<1>2. CASE Out!Spawned \/ Out!EndListen \/ Out!Close \/ Out!Stop
  <2>1. UNCHANGED <<task, line, known, rx>>
    BY <1>2 DEF Out!Spawned, Out!EndListen, Out!Close, Out!Stop
  <2> QED BY <1>0, <2>1 DEF Out!Pending
<1>3. CASE Out!HandleBye(C)
  <2>1. line[C] = "confirmed" /\ line'[C] = "terminated" /\ UNCHANGED <<task, known>>
    BY <1>3 DEF Out!HandleBye
  <2> QED BY <1>0, <2>1 DEF Out!Pending
<1>4. CASE Out!SendInvite(C)
  <2>1. /\ task[C] = "invite" /\ line[C] = "none" /\ line'[C] = "calling"
        /\ UNCHANGED <<task, known, rx>>
    BY <1>4 DEF Out!SendInvite
  <2> QED BY <1>0, <2>1 DEF Out!Over
<1>5. CASE Out!Event(C)
  <2>1. task[C] = "invite" /\ rx[C] # <<>> /\ known' \in [Out!Calls -> BOOLEAN]
    BY <1>5 DEF Out!Event
  <2>2. line' = line
    BY <1>5, <2>1 DEF Out!Event, Out!Hangup
  <2>3. task'[C] \in {"invite", "cancelling"}
    BY <1>5, <2>1 DEF Out!Event, Out!Goto
  <2> QED BY <1>0, <2>1, <2>2, <2>3 DEF Out!Over
<1>6. CASE Out!Abort(C)
  <2>1. task[C] = "invite" /\ UNCHANGED <<known, rx>>
    BY <1>6 DEF Out!Abort
  <2>2. line' = line
    BY <1>6, <2>1 DEF Out!Abort, Out!Hangup
  <2>3. CASE known[C] /\ Out!Pending(C)
    <3>1. task'[C] = "aborting" /\ Sends = <<"CANCEL">>
      BY <1>6, <2>1, <2>3 DEF Out!Abort, Out!Goto, Sends, Out!Pending
    <3>2. Flying(toCallee', "CANCEL")
      BY <3>1, CancelFlies
    <3> QED BY <1>0, <2>1, <2>2, <3>1, <3>2
  <2>4. CASE ~(known[C] /\ Out!Pending(C))
    <3>1. task'[C] \in {"aborting", "done"}
      BY <1>6, <2>1 DEF Out!Abort, Out!Goto
    <3> QED BY <1>0, <2>1, <2>2, <2>4, <3>1 DEF Out!Pending
  <2> QED BY <2>3, <2>4
<1>7. CASE Out!TalkOver(C) \/ Out!Monitor(C)
  <2>1. task[C] = "talk" /\ UNCHANGED <<line, known>>
    BY <1>7 DEF Out!TalkOver, Out!Monitor
  <2> QED BY <1>0, <2>1 DEF Out!Pending
<1>8. CASE Out!Cancelled(C) \/ Out!Aborted(C)
  <2>1. \/ task[C] = "cancelling" /\ task'[C] = "invite"
        \/ task[C] = "aborting" /\ task'[C] = "done"
    <3>1. Out!Cancelled(C) => task[C] = "cancelling" /\ task'[C] = "invite"
      BY DEF Out!Cancelled, Out!Goto
    <3>2. Out!Aborted(C) => task[C] = "aborting" /\ task'[C] = "done"
      BY DEF Out!Aborted, Out!Goto
    <3> QED BY <1>8, <3>1, <3>2
  <2>2. UNCHANGED <<line, known, rx>>
    BY <1>8 DEF Out!Cancelled, Out!Aborted
  <2> QED BY <1>0, <2>1, <2>2 DEF Out!Over, Out!Pending
<1>9. CASE Out!Answer(C) \/ Out!ByeDone(C)
  <2>1. task[C] \in {"answer", "closing"} /\ UNCHANGED <<line, known, rx>>
    BY <1>9 DEF Out!Answer, Out!ByeDone
  <2> QED BY <1>0, <2>1 DEF Out!Pending
<1>10. CASE Out!SayBye(C)
  <2>1. task[C] = "bye" /\ UNCHANGED <<known, rx>> /\ line'[C] \in Answered
    BY <1>10 DEF Out!SayBye, Out!Hangup
  <2> QED BY <1>0, <2>1 DEF Out!Pending
<1> QED
  BY <1>1, <1>2, <1>3, <1>4, <1>5, <1>6, <1>7, <1>8, <1>9, <1>10 DEF Out!Task

\* The callee's own steps, and the messages that reach it.
LEMMA CalleeCancels ==
  ASSUME IInv, Cancels, UNCHANGED caller,
         \/ /\ CalleeDoes /\ UNCHANGED toCallee
            /\ bot' = "listen" => bot = "listen"
         \/ Respond \/ CalleeHears
  PROVE  Cancels'
<1> USE DEF Cancels, Heard, Out!Pending
<1>0. UNCHANGED <<task, line, known, rx>>
  BY DEF caller
<1>1. CASE CalleeDoes /\ UNCHANGED toCallee /\ (bot' = "listen" => bot = "listen")
  <2>1. dlg[C] # "none" => dlg'[C] # "none"
    BY <1>1 DEF CalleeDoes
  <2>2. toCaller' # <<>> \/ out'[C] # <<>> =>
          toCaller # <<>> \/ out[C] # <<>> \/ dlg'[C] # "none"
    BY <1>1 DEF CalleeDoes
  <2>3. dlg[C] \in {"accepted", "terminated"} => dlg'[C] \in {"accepted", "terminated"}
    BY <1>1 DEF CalleeDoes
  <2> QED BY <1>0, <1>1, <2>1, <2>2, <2>3
<1>2. CASE Respond
  <2>1. out[C] # <<>> /\ UNCHANGED <<bot, dlg, toCallee>>
    BY <1>2 DEF Respond, In!Send, In!process
  <2> QED BY <1>0, <2>1
<1>3. CASE CalleeHears
  <2>0. /\ toCallee # <<>> /\ toCallee' = Tail(toCallee)
        /\ \A k : Flying(toCallee, k) <=> Flying(toCallee', k) \/ k = Head(toCallee)
    BY <1>3, TailFlying, ZenonT(60) DEF CalleeHears, HearInvite, Arrives, IInv, Types
  <2>1. CASE HearInvite
    <3>1. /\ bot = "listen" /\ bot' = bot /\ dlg[C] = "none" /\ dlg'[C] = "early"
      BY <2>1 DEF HearInvite, In!Invite, In!process, IInv, CalleePast, Types, CalleeTypes
    <3> QED BY <1>0, <3>1
  <2>2. CASE Arrives("CANCEL") /\ In!Cancel(C) /\ UNCHANGED toCaller
    <3>1. bot' = bot /\ dlg[C] \notin {"none", "confirmed"} /\ In!Reject(C, 487)
      BY <2>2 DEF In!Cancel, In!process
    <3>2. dlg'[C] \in {"accepted", "terminated"}
      BY <3>1 DEF In!Reject, In!dialog, IInv, Types, CalleeTypes
    <3> QED BY <1>0, <3>1, <3>2
  <2>3. CASE Arrives("ACK") /\ In!Ack(C) /\ UNCHANGED toCaller
    <3>1. bot' = bot /\ dlg'[C] = "confirmed" /\ UNCHANGED out
      BY <2>3 DEF In!Ack, In!process, IInv, Types, CalleeTypes
    <3>2. line[C] \in Answered
      BY <2>0, <2>3 DEF Arrives, IInv, Asked
    <3> QED BY <1>0, <3>1, <3>2 DEF Answered
  <2>4. CASE Arrives("BYE") /\ In!RemoteBye(C) /\ UNCHANGED toCaller
    <3>1. /\ bot' = bot /\ dlg[C] = "confirmed" /\ UNCHANGED out
          /\ dlg'[C] = IF bot = "listen" THEN "terminated" ELSE dlg[C]
      BY <2>4 DEF In!RemoteBye, In!process, IInv, Types, CalleeTypes
    <3> QED BY <1>0, <3>1
  <2>5. ASSUME NEW m \in Requests, Arrives(m), Missed(m), UNCHANGED <<callee, toCaller>>
        PROVE  Cancels'
    <3>1. UNCHANGED <<bot, dlg, out, toCaller>> /\ Head(toCallee) = m
      BY <2>5 DEF callee, Arrives
    <3>2. bot = "listen" /\ Heard => dlg[C] # "none"
      OBVIOUS
    <3>3. bot = "listen" /\ Heard /\ Flying(toCallee, "CANCEL") => Flying(toCallee', "CANCEL")
      BY <2>0, <2>5, <3>1, <3>2 DEF Missed
    <3> QED BY <1>0, <3>1, <3>3
  <2> QED BY <1>3, <2>1, <2>2, <2>3, <2>4, <2>5 DEF CalleeHears, Requests
<1> QED BY <1>1, <1>2, <1>3

\* The messages that reach the caller.
LEMMA ArrivalCancels ==
  ASSUME IInv, Cancels, CallerHears \/ CallerMisses \/ TimesOut
  PROVE  Cancels'
<1> USE OneCall DEF IInv, Types, CallerTypes, Cancels, Heard, Answered, Out!Pending
<1>0. UNCHANGED <<bot, dlg, out>>
  BY DEF CallerHears, CallerMisses, TimesOut, callee
<1>1. CASE CallerHears
  <2>1. toCaller # <<>> /\ UNCHANGED known
    BY <1>1 DEF CallerHears, Comes, Out!Provisional, Out!Answered, Out!Refused, Out!PeerBye
  <2>2. CASE \E e \in {"trying", "early"} : Out!Provisional(C, e)
    <3>1. task[C] = "invite" /\ UNCHANGED task /\ line'[C] \in {"trying", "early"}
      BY <2>2 DEF Out!Provisional
    <3> QED BY <1>0, <2>1, <3>1 DEF Out!Over
  <2>3. CASE Out!Answered(C) \/ Out!Refused(C)
    <3>1. line'[C] \in Answered
      BY <2>3 DEF Out!Answered, Out!Refused
    <3> QED BY <1>0, <2>1, <3>1
  <2>4. CASE Out!PeerBye(C)
    <3>1. line[C] = "confirmed" /\ UNCHANGED <<task, line, rx>>
      BY <2>4 DEF Out!PeerBye
    <3> QED BY <1>0, <2>1, <3>1
  <2> QED BY <1>1, <2>2, <2>3, <2>4 DEF CallerHears
<1>2. CASE CallerMisses
  <2>1. UNCHANGED <<task, line, known, rx, toCallee>> /\ toCaller # <<>>
    BY <1>2 DEF CallerMisses, Comes, caller
  <2> QED BY <1>0, <2>1
<1>3. CASE TimesOut
  <2>1. bot # "listen" /\ line'[C] = "terminated" /\ UNCHANGED known
    BY <1>3 DEF TimesOut, Out!Refused
  <2> QED BY <1>0, <2>1
<1> QED BY <1>1, <1>2, <1>3

LEMMA NextCancels == IInv /\ Cancels /\ [Next]_vars => Cancels'
<1> SUFFICES ASSUME IInv, Cancels, [Next]_vars PROVE Cancels'
  OBVIOUS
<1>1. CASE CallerRuns \/ (StopOne /\ Caller(Out!Stop))
  BY <1>1, CallerCancels DEF CallerRuns, Caller
<1>2. CASE (CalleeRuns /\ ~Respond) \/ (StopOne /\ Callee(In!Stop))
  <2>1. CalleeDoes /\ UNCHANGED <<caller, toCallee>> /\ (bot' = "listen" => bot = "listen")
    BY <1>2, CalleeStep DEF CalleeRuns, Callee, IInv
  <2> QED BY <2>1, CalleeCancels
<1>3. CASE Respond \/ CalleeHears
  BY <1>3, CalleeCancels DEF Respond, CalleeHears
<1>4. CASE CallerHears \/ CallerMisses \/ TimesOut
  BY <1>4, ArrivalCancels
<1>5. CASE UNCHANGED vars
  BY <1>5 DEF vars, caller, callee, net, Cancels, Heard, Out!Pending
<1> QED BY <1>1, <1>2, <1>3, <1>4, <1>5 DEF Next, StopOne, Arrival

\* A call that has ended at the caller is over at a callee that listens, one
\* that a stop of the caller has cancelled is over or was accepted before the
\* CANCEL came, or a message on its way will make it so, for any configuration
\* of the called bot and any cancellation, timer and stop of either
\* (make_call, handle_invite).
THEOREM CallerEndIsKnown == Spec => []CallerEndKnown
<1>1. IInv /\ Cancels => CallerEndKnown
  BY EmptyFlying DEF IInv, Agree, Cancels, Cancelled, CallerEndKnown
<1> QED BY <1>1, InitCancels, NextCancels, Inductive, PTL DEF Spec

-----------------------------------------------------------------------------
\* From the ACK on the caller knows of the callee's end, or will hear of it.
Shown ==
  /\ dlg[C] \in Answered /\ line[C] \in Answered
  /\ dlg[C] = "terminated" =>
       \/ line[C] = "terminated" \/ bye[C] \/ Flying(toCaller, "BYE")
       \/ phase = "closed" \/ late

LEMMA NextShown == IInv /\ Shown /\ [Next]_vars => Shown'
<1> SUFFICES ASSUME IInv, Shown, [Next]_vars PROVE Shown'
  OBVIOUS
<1> USE OneCall DEF IInv, Shown, Answered
<1>1. CASE CallerRuns \/ (StopOne /\ Caller(Out!Stop))
  <2>1. /\ CallerDoes /\ UNCHANGED <<dlg, late, toCaller>>
        /\ phase = "closed" => phase' = "closed"
    BY <1>1, CallerStep DEF CallerRuns, Caller, callee
  <2> QED BY <2>1 DEF CallerDoes
<1>2. CASE (CalleeRuns /\ ~Respond) \/ (StopOne /\ Callee(In!Stop))
  <2>1. CalleeDoes /\ (late => late') /\ UNCHANGED <<line, bye, phase>>
    BY <1>2, CalleeStep DEF CalleeRuns, Callee, caller
  <2>2. toCaller \in Seq(Answers) /\ "BYE" \in Answers
    BY DEF Types, Answers
  <2>3. Flying(Append(toCaller, "BYE"), "BYE")
    BY <2>2, AppendFlying
  <2> QED BY <2>1, <2>3 DEF CalleeDoes
<1>3. CASE Respond
  <2>1. /\ UNCHANGED <<line, bye, phase, dlg, late>>
        /\ toCaller' = Append(toCaller, Kind(Head(out[C])))
    BY <1>3 DEF Respond, caller, In!Send, In!process
  <2>2. toCaller \in Seq(Answers) /\ Kind(Head(out[C])) \in Answers
    BY DEF Types, Answers, Kind
  <2>3. Flying(toCaller, "BYE") => Flying(toCaller', "BYE")
    BY <2>1, <2>2, AppendFlying
  <2> QED BY <2>1, <2>3
<1>4. CASE CalleeHears
  <2>1. UNCHANGED <<line, bye, phase>> /\ toCallee # <<>>
    BY <1>4 DEF CalleeHears, HearInvite, Arrives, caller
  <2>2. ~HearInvite /\ ~In!Ack(C)
    BY DEF HearInvite, In!Invite, In!Ack, CalleePast
  <2>3. CASE In!Cancel(C) /\ UNCHANGED toCaller
    BY <2>1, <2>3 DEF In!Cancel, In!Reject, In!dialog, In!process
  <2>4. CASE Arrives("BYE") /\ In!RemoteBye(C) /\ UNCHANGED toCaller
    <3>1. line[C] = "terminated"
      BY <2>1, <2>4, TailFlying DEF Arrives, Types, Asked
    <3>2. dlg'[C] \in Answered
      BY <2>4 DEF In!RemoteBye, Types, CalleeTypes
    <3> QED BY <2>1, <3>1, <3>2
  <2>5. CASE UNCHANGED <<callee, toCaller>>
    BY <2>1, <2>5 DEF callee
  <2> QED BY <1>4, <2>2, <2>3, <2>4, <2>5 DEF CalleeHears
<1>5. CASE CallerHears
  <2>1. UNCHANGED <<dlg, late>>
    BY <1>5 DEF CallerHears, callee
  <2>2. Out!PeerBye(C)
    BY <1>5 DEF CallerHears, Out!Provisional, Out!Answered, Out!Refused, Out!Pending
  <2>3. bye'[C] /\ UNCHANGED line
    BY <2>2 DEF Out!PeerBye, Types, CallerTypes
  <2> QED BY <2>1, <2>3
<1>6. CASE CallerMisses
  <2>1. /\ UNCHANGED <<line, bye, phase, dlg, late>>
        /\ toCaller # <<>> /\ toCaller' = Tail(toCaller)
        /\ Head(toCaller) = "BYE" => phase = "closed" \/ line[C] # "confirmed"
    BY <1>6 DEF CallerMisses, Comes, caller, callee
  <2>2. Flying(toCaller, "BYE") => Flying(toCaller', "BYE") \/ Head(toCaller) = "BYE"
    BY <2>1, TailFlying DEF Types
  <2> QED BY <2>1, <2>2
<1>7. CASE TimesOut
  BY <1>7 DEF TimesOut, Out!Refused, Out!Pending
<1>8. CASE UNCHANGED vars
  BY <1>8 DEF vars, caller, callee, net
<1> QED BY <1>1, <1>2, <1>3, <1>4, <1>5, <1>6, <1>7, <1>8 DEF Next, StopOne, Arrival

\* A call that the callee has seen acknowledged and that is over there is over
\* at the caller, or the BYE is on its way or read, until the caller's
\* transport is closed; unless run_wait gave up on the call.
THEOREM CalleeEndIsKnown == Spec => CalleeEndKnown
<1>1. IInv /\ dlg[C] = "confirmed" => Shown
  BY DEF IInv, Shown, Answered
<1>2. Shown => (dlg[C] = "terminated" /\ toCaller = <<>> =>
                  line[C] = "terminated" \/ bye[C] \/ phase = "closed" \/ late)
  BY EmptyFlying DEF Shown
<1> QED BY <1>1, <1>2, Inductive, NextShown, PTL DEF Spec, CalleeEndKnown
=============================================================================

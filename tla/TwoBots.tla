------------------------------ MODULE TwoBots ------------------------------
(***************************************************************************)
(* A sipbot that calls another sipbot (README.md "Hold/Resume Testing",    *)
(* tests/call_test.rs): the make_call task of OutboundCall and the call    *)
(* task of InboundCall, joined by the messages of one dialog.  What either *)
(* module leaves to its environment (the peer's answer, CANCEL, ACK, BYE)  *)
(* is here what the other side has sent, with everything that crosses it   *)
(* on the way.                                                             *)
(*                                                                         *)
(* Messages of one direction arrive in order, and while the receiver's     *)
(* transport is open none is lost: retransmission and the transaction      *)
(* layer are the library's.  One is lost on a closed transport, or if the  *)
(* task that it is for has given its INVITE up.                            *)
(***************************************************************************)
EXTENDS Naturals, Sequences

CONSTANTS
  Configs,      \* InboundCall: configurations of the called bot
  CancelProb, Draws, Timer, Endless, MaxEvents,  \* OutboundCall
  MaxStops      \* bound: of the two bots, so many are stopped

VARIABLES
  \* the caller, OutboundCall (task: its pc, line: its dlg, quit: its stop)
  started, phase, quit, task, will, known, rx, line, bye,
  \* the callee, InboundCall
  cfg, pc, playing, end, dlg, out, event, token, control, said, rec, timers, saved,
  live, guard, running, dropped, stop, bot, late,
  \* the messages on their way
  toCallee, toCaller

caller == <<started, phase, quit, task, will, known, rx, line, bye>>

callee == <<cfg, pc, playing, end, dlg, out, event, token, control, said, rec, timers,
            saved, live, guard, running, dropped, stop, bot, late>>

net == <<toCallee, toCaller>>

vars == <<caller, callee, net>>

\* The one call.
C == 1

Out == INSTANCE OutboundCall
         WITH Total <- 1, stop <- quit, pc <- task, dlg <- line

In == INSTANCE InboundCall WITH Calls <- {C}

ASSUME TwoBotsAssumption ==
  /\ Configs \subseteq In!Config
  /\ CancelProb \in 0 .. 99 /\ Draws \subseteq 0 .. 99
  /\ Timer \in BOOLEAN /\ Endless \in BOOLEAN /\ MaxEvents \in Nat /\ MaxStops \in Nat

Stops == (IF quit THEN 1 ELSE 0) + (IF stop THEN 1 ELSE 0)

Init == Out!Init /\ In!Init /\ toCallee = <<>> /\ toCaller = <<>>

-----------------------------------------------------------------------------
\* What a step of the caller sends: its INVITE, the CANCEL of a pending one,
\* the BYE of an answered one.
Sends ==
  CASE line[C] = "none" /\ line'[C] = "calling" -> <<"INVITE">>
    [] Out!Pending(C) /\ task'[C] \in {"cancelling", "aborting"} /\ task'[C] # task[C]
                                                -> <<"CANCEL">>
    [] task[C] = "bye" /\ task'[C] # "bye" /\ line[C] = "confirmed" -> <<"BYE">>
    [] OTHER                                    -> <<>>

\* A step of the caller that no message brings about.
Caller(A) ==
  /\ A
  /\ toCallee' = toCallee \o Sends
  /\ UNCHANGED <<callee, toCaller>>

\* Mutant: a BYE is not sent once the listen loop has ended.
SaysByeListening == pc[C] \in {"uibye", "bye"} /\ pc'[C] = "closing" /\ bot = "listen"

\* A BYE the callee says reaches the peer while its transport is open.
SaysBye == pc[C] \in {"uibye", "bye"} /\ pc'[C] = "closing" /\ bot # "closed"

Callee(A) ==
  /\ A
  /\ toCaller' = IF SaysBye THEN Append(toCaller, "BYE") ELSE toCaller
  /\ UNCHANGED <<caller, toCallee>>

Kind(code) == IF code < 200 THEN "1xx" ELSE IF code < 300 THEN "200" ELSE "refused"

\* A queued response goes out.
Respond ==
  /\ In!Send(C)
  /\ toCaller' = Append(toCaller, Kind(Head(out[C])))
  /\ UNCHANGED <<caller, toCallee>>

-----------------------------------------------------------------------------
\* Arrivals at the callee.
Arrives(m) == toCallee # <<>> /\ Head(toCallee) = m /\ toCallee' = Tail(toCallee)

\* The INVITE, which the transaction layer may answer 100 by itself.
HearInvite ==
  /\ Arrives("INVITE") /\ In!Invite(C)
  /\ toCaller' \in {toCaller, Append(toCaller, "100")}

\* Nothing is there to take the message: it is lost, or answered 481.
Missed(m) ==
  \/ bot = "closed"
  \/ m = "INVITE" /\ bot # "listen"
  \/ m = "CANCEL" /\ dlg[C] = "none"
  \/ m = "ACK" /\ dlg[C] # "accepted"
  \/ m = "BYE" /\ dlg[C] # "confirmed"

CalleeHears ==
  /\ \/ HearInvite
     \/ /\ \/ Arrives("CANCEL") /\ In!Cancel(C)
           \/ Arrives("ACK") /\ In!Ack(C)
           \/ Arrives("BYE") /\ In!RemoteBye(C)
           \/ \E m \in {"INVITE", "CANCEL", "ACK", "BYE"} :
                Arrives(m) /\ Missed(m) /\ UNCHANGED callee
        /\ UNCHANGED toCaller
  /\ UNCHANGED caller

-----------------------------------------------------------------------------
\* Arrivals at the caller.
Comes(m) == toCaller # <<>> /\ Head(toCaller) = m /\ toCaller' = Tail(toCaller)

\* A response that finds do_invite being polled, and a BYE.
CallerHears ==
  /\ \/ Comes("100") /\ Out!Provisional(C, "trying")
     \/ Comes("1xx") /\ Out!Provisional(C, "early")
     \/ Comes("200") /\ Out!Answered(C)
     \/ Comes("refused") /\ Out!Refused(C)
     \/ Comes("BYE") /\ Out!PeerBye(C)
  /\ toCallee' = IF Head(toCaller) = "200" THEN Append(toCallee, "ACK") ELSE toCallee
  /\ UNCHANGED callee

\* Nobody listens any more: the task has left the INVITE, or the BYE finds no
\* answered dialog.
CallerMisses ==
  /\ \/ \E m \in {"100", "1xx", "200", "refused"} :
          Comes(m) /\ task[C] \in {"aborting"} \union Out!Over
     \/ Comes("BYE") /\ (phase = "closed" \/ line[C] # "confirmed")
  /\ UNCHANGED <<caller, callee, toCallee>>

\* No answer is on its way, nor will one be: the INVITE times out.
TimesOut ==
  /\ toCallee = <<>> /\ toCaller = <<>>
  /\ bot = "closed" \/ (bot # "listen" /\ pc[C] = "none")
  /\ Out!Refused(C)
  /\ UNCHANGED <<callee, net>>

-----------------------------------------------------------------------------
\* run_call, its listen loop, and the task of the call.
CallerRuns ==
  Caller(\/ Out!Spawn \/ Out!Spawned \/ Out!EndListen \/ Out!Close \/ Out!HandleBye(C)
         \/ Out!SendInvite(C) \/ Out!Event(C) \/ Out!Abort(C)
         \/ Out!TalkOver(C) \/ Out!Monitor(C) \/ Out!Task(C))

\* run_wait, the task of the call, its monitor and transaction handler.
CalleeRuns ==
  \/ Callee(\/ In!EndListen \/ In!Close
            \/ In!Task(C) \/ In!GuardStop(C) \/ In!Monitor(C))
  \/ Respond

Arrival == CallerHears \/ CallerMisses \/ CalleeHears \/ TimesOut

StopOne == Stops < MaxStops /\ (Caller(Out!Stop) \/ Callee(In!Stop))

Next == CallerRuns \/ CalleeRuns \/ Arrival \/ StopOne

\* Both bots run, and what is sent arrives.
Fairness == WF_vars(CallerRuns) /\ WF_vars(CalleeRuns) /\ WF_vars(Arrival)

Spec == Init /\ [][Next]_vars

FairSpec == Spec /\ Fairness

-----------------------------------------------------------------------------
\* A caller that was stopped before the answer: its task has returned, and has
\* cancelled the INVITE, which it could because the dialog was known.  It
\* does not hear what becomes of the INVITE.
Cancelled == known[C] /\ Out!Pending(C) /\ task[C] \in Out!Over

\* While the callee listens and nothing is on its way to it, a call that has
\* ended at the caller (a BYE, a refusal it has seen) is over at the callee,
\* and one that a stop of the caller has cancelled is over too, or had been
\* accepted when the CANCEL came: nothing that crosses leaves the callee
\* ringing.  A callee that has been stopped hears no BYE any more and says
\* its own.  A caller that is stopped before it knows the dialog sends no
\* CANCEL, and promises nothing.
CallerEndKnown ==
  toCallee = <<>> /\ bot = "listen" =>
    /\ line[C] = "terminated" => dlg[C] = "terminated"
    /\ Cancelled => dlg[C] \in {"accepted", "terminated"}

\* From its ACK on, a call that is over at the callee is over at the caller,
\* or the BYE that says so is on its way or read, until the caller's transport
\* is closed; unless run_wait gave up on the call.  (A BYE that the callee
\* says before the ACK may overtake its 200.)
CalleeEndKnown ==
  [](dlg[C] = "confirmed" =>
       [](dlg[C] = "terminated" /\ toCaller = <<>> =>
            line[C] = "terminated" \/ bye[C] \/ phase = "closed" \/ late))

\* The callee's task has returned and left no session, and its record shows
\* the end, unless the transport is closed, where the inspector sees nothing
\* more.
Gone ==
  /\ pc[C] \in {"none", "done"} /\ running[C] = {}
  /\ rec[C] \in In!Terminal \union {"None"} \/ bot = "closed"

\* An accepted call whose ACK will not come: the task has returned on its own,
\* or waits for a BYE, as its mode is "remote" or its media never ends.
LeftAccepted ==
  dlg[C] = "accepted" /\ (pc[C] = "done" \/ ~In!MediaOver(C))

\* Whatever crosses on the way, a call the caller has ended (a BYE, a refusal
\* it has seen) ends at the callee too, and so does one that a stop of the
\* caller has cancelled, unless its 200 crossed the CANCEL.
CallerEndsCallee ==
  /\ line[C] = "terminated" ~> Gone
  /\ Cancelled ~> Gone \/ LeftAccepted

\* A call the callee has seen acknowledged and then ends, ends at the caller,
\* whose timer does not: unless run_wait gave up on it, or the hangup was
\* left to the caller, its BYE arrives.
CalleeEndsCaller ==
  dlg[C] = "confirmed" ~> (task[C] \in Out!Over \/ late \/ [](dlg[C] = "confirmed"))

=============================================================================

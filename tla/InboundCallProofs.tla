------------------------- MODULE InboundCallProofs -------------------------
(***************************************************************************)
(* Proofs about the inbound calls of a bot, for any number of calls and    *)
(* any configurations: what run_wait may rely on when it closes the        *)
(* transport, which sessions a call task leaves behind, and what the       *)
(* record of a call shows when it is over.                                 *)
(***************************************************************************)
EXTENDS InboundCall, SequenceTheorems, TLAPS

\* The variables the arguments below are about, with their types.
Types ==
  /\ cfg \in [Calls -> Config]
  /\ pc \in [Calls -> Stages]
  /\ dlg \in [Calls -> {"none", "early", "accepted", "confirmed", "terminated"}]
  /\ said \in [Calls -> BOOLEAN]
  /\ live \in [Calls -> SUBSET Sessions]
  /\ guard \in [Calls -> Sessions \union {NoSession}]
  /\ running \in [Calls -> SUBSET Sessions]
  /\ dropped \in [Calls -> BOOLEAN]

\* Up to the answer the dialog is early, or the caller has ended it; from
\* there on a task only leaves with the dialog ended or BYE said.
Parted(c) == dlg[c] = "terminated" \/ said[c] \/ cfg[c].mode = "remote"

DialogOk(c) ==
  /\ pc[c] = "none" => dlg[c] = "none"
  /\ pc[c] \in {"setup", "screen", "media", "tone", "early", "ring", "reject",
                "decide", "jump", "accept"} => dlg[c] \in {"early", "terminated"}
  /\ pc[c] \in {"release", "finish"} => dlg[c] = "terminated"
  /\ pc[c] \in {"closing", "drop", "join", "done"} => Parted(c)

\* The sessions a task may have running at each of its stages.
SessionsOk(c) ==
  /\ pc[c] \in {"none", "setup", "screen", "media"}
       => live[c] = {} /\ guard[c] = NoSession /\ running[c] = {}
  /\ pc[c] \in {"tone", "early", "ring", "reject", "release", "decide", "jump", "accept"}
       => live[c] \subseteq {guard[c]}
  /\ pc[c] \in {"finish", "bye"} \/ (pc[c] = "closing" /\ cfg[c].mode # "remote")
       => running[c] = {}
  /\ pc[c] = "uibye" => cfg[c].mode = "remote"
  /\ pc[c] \notin {"drop", "join", "done"} => running[c] \subseteq live[c] /\ ~dropped[c]
  /\ pc[c] = "drop" => running[c] \subseteq {guard[c]} /\ ~dropped[c]
  /\ pc[c] \in {"join", "done"}
       => running[c] \subseteq (IF dropped[c] THEN {guard[c]} ELSE {})

\* Once the transport is closed in time, no call is active, and none starts.
Drained == bot = "closed" /\ ~late => Current = {}

IInv ==
  /\ Types
  /\ \A c \in Calls : DialogOk(c)
  /\ \A c \in Calls : SessionsOk(c)
  /\ Drained

-----------------------------------------------------------------------------
LEMMA InitIInv == Init => IInv
<1> SUFFICES ASSUME Init PROVE IInv
  OBVIOUS
<1>1. Types
  BY InboundAssumption DEF Init, Types, Stages, NoSession
<1>2. \A c \in Calls : DialogOk(c) /\ SessionsOk(c)
  BY DEF Init, DialogOk, SessionsOk
<1>3. Drained
  BY DEF Init, Drained
<1> QED
  BY <1>1, <1>2, <1>3 DEF IInv

\* A call is untouched by a step that leaves its part of these variables.
Untouched(c) ==
  /\ cfg'[c] = cfg[c] /\ pc'[c] = pc[c] /\ dlg'[c] = dlg[c] /\ said'[c] = said[c]
  /\ live'[c] = live[c] /\ guard'[c] = guard[c] /\ running'[c] = running[c]
  /\ dropped'[c] = dropped[c]

LEMMA UntouchedOk ==
  ASSUME NEW c \in Calls, DialogOk(c), SessionsOk(c), Untouched(c)
  PROVE  DialogOk(c)' /\ SessionsOk(c)'
BY DEF DialogOk, SessionsOk, Untouched, Parted
\* What is left to show of a step of call c.
StepOk(c) ==
  /\ Types'
  /\ DialogOk(c)' /\ SessionsOk(c)'
  /\ \A d \in Calls \ {c} : Untouched(d)
  /\ UNCHANGED <<bot, late>>
  /\ pc'[c] \notin {"none", "done"} => pc[c] \notin {"none", "done"} \/ bot = "listen"

LEMMA StepInv ==
  ASSUME IInv, NEW c \in Calls, StepOk(c)
  PROVE  IInv'
<1>1. \A d \in Calls : DialogOk(d)' /\ SessionsOk(d)'
  BY UntouchedOk DEF IInv, StepOk
<1>2. Drained'
  BY DEF IInv, StepOk, Drained, Current, Untouched
<1> QED
  BY <1>1, <1>2 DEF IInv, StepOk

\* The facts about call c that its steps start from.
LEMMA Facts ==
  ASSUME IInv, NEW c \in Calls
  PROVE  /\ Types /\ DialogOk(c) /\ SessionsOk(c)
         /\ pc[c] \in Stages /\ cfg[c] \in Config
BY DEF IInv, Types

-----------------------------------------------------------------------------

LEMMA InviteInv ==
  ASSUME IInv, NEW c \in Calls, Invite(c)
  PROVE  StepOk(c)
<1> USE Facts DEF Invite, Inspect, Goto, dialog, tokens, record, media, process
<1>1. Types'
  BY DEF Types, Stages, Sessions, NoSession, Config
<1>2. \A d \in Calls \ {c} : Untouched(d)
  BY DEF Types, Untouched
<1>3. DialogOk(c)'
  BY DEF Types, DialogOk, Parted
<1>4. SessionsOk(c)'
  BY DEF Types, SessionsOk, Sessions, NoSession
<1> QED
  BY <1>1, <1>2, <1>3, <1>4 DEF StepOk, Types

LEMMA SetupInv ==
  ASSUME IInv, NEW c \in Calls, Setup(c)
  PROVE  StepOk(c)
<1> USE Facts DEF Setup, Goto, dialog, tokens, record, media, process
<1>1. Types'
  <2>1. pc' \in [Calls -> Stages]
    BY DEF Types, Stages
  <2>2. dlg' \in [Calls -> {"none", "early", "accepted", "confirmed", "terminated"}]
    BY DEF Types
  <2>3. /\ live' \in [Calls -> SUBSET Sessions]
        /\ guard' \in [Calls -> Sessions \union {NoSession}]
        /\ running' \in [Calls -> SUBSET Sessions]
    BY DEF Types, Sessions, NoSession
  <2>4. said' \in [Calls -> BOOLEAN] /\ dropped' \in [Calls -> BOOLEAN]
        /\ cfg' \in [Calls -> Config]
    BY DEF Types
  <2> QED
    BY <2>1, <2>2, <2>3, <2>4 DEF Types
<1>2. \A d \in Calls \ {c} : Untouched(d)
  BY DEF Types, Untouched
<1>3. DialogOk(c)'
  BY DEF Types, DialogOk, Parted
<1>4. SessionsOk(c)'
  BY DEF Types, SessionsOk, Sessions, NoSession
<1> QED
  BY <1>1, <1>2, <1>3, <1>4 DEF StepOk, Types

LEMMA ScreenInv ==
  ASSUME IInv, NEW c \in Calls, Screen(c)
  PROVE  StepOk(c)
<1> USE Facts DEF Screen, Reject, Goto, dialog, tokens, record, media, process
<1>1. Types'
  <2>1. pc' \in [Calls -> Stages]
    BY DEF Types, Stages
  <2>2. dlg' \in [Calls -> {"none", "early", "accepted", "confirmed", "terminated"}]
    BY DEF Types
  <2>3. /\ live' \in [Calls -> SUBSET Sessions]
        /\ guard' \in [Calls -> Sessions \union {NoSession}]
        /\ running' \in [Calls -> SUBSET Sessions]
    BY DEF Types, Sessions, NoSession
  <2>4. said' \in [Calls -> BOOLEAN] /\ dropped' \in [Calls -> BOOLEAN]
        /\ cfg' \in [Calls -> Config]
    BY DEF Types
  <2> QED
    BY <2>1, <2>2, <2>3, <2>4 DEF Types
<1>2. \A d \in Calls \ {c} : Untouched(d)
  BY DEF Types, Untouched
<1>3. DialogOk(c)'
  BY DEF Types, DialogOk, Parted
<1>4. SessionsOk(c)'
  BY DEF Types, SessionsOk, Sessions, NoSession
<1> QED
  BY <1>1, <1>2, <1>3, <1>4 DEF StepOk, Types

LEMMA MediaInv ==
  ASSUME IInv, NEW c \in Calls, Media(c)
  PROVE  StepOk(c)
<1> USE Facts DEF Media, Reject, Create, Goto, dialog, tokens, record, media, process
<1>1. Types'
  <2>1. pc' \in [Calls -> Stages]
    BY DEF Types, Stages
  <2>2. dlg' \in [Calls -> {"none", "early", "accepted", "confirmed", "terminated"}]
    BY DEF Types
  <2>3. /\ live' \in [Calls -> SUBSET Sessions]
        /\ guard' \in [Calls -> Sessions \union {NoSession}]
        /\ running' \in [Calls -> SUBSET Sessions]
    BY DEF Types, Sessions, NoSession
  <2>4. said' \in [Calls -> BOOLEAN] /\ dropped' \in [Calls -> BOOLEAN]
        /\ cfg' \in [Calls -> Config]
    BY DEF Types
  <2> QED
    BY <2>1, <2>2, <2>3, <2>4 DEF Types
<1>2. \A d \in Calls \ {c} : Untouched(d)
  BY DEF Types, Untouched
<1>3. DialogOk(c)'
  BY DEF Types, DialogOk, Parted
<1>4. SessionsOk(c)'
  BY DEF Types, SessionsOk, Sessions, NoSession
<1> QED
  BY <1>1, <1>2, <1>3, <1>4 DEF StepOk, Types

LEMMA RejectAfterToneInv ==
  ASSUME IInv, NEW c \in Calls, RejectAfterTone(c)
  PROVE  StepOk(c)
<1> USE Facts DEF RejectAfterTone, RejectWith, Reject, Goto, dialog, tokens, record, media, process
<1>1. Types'
  <2>1. pc' \in [Calls -> Stages]
    BY DEF Types, Stages
  <2>2. dlg' \in [Calls -> {"none", "early", "accepted", "confirmed", "terminated"}]
    BY DEF Types
  <2>3. /\ live' \in [Calls -> SUBSET Sessions]
        /\ guard' \in [Calls -> Sessions \union {NoSession}]
        /\ running' \in [Calls -> SUBSET Sessions]
    BY DEF Types, Sessions, NoSession
  <2>4. said' \in [Calls -> BOOLEAN] /\ dropped' \in [Calls -> BOOLEAN]
        /\ cfg' \in [Calls -> Config]
    BY DEF Types
  <2> QED
    BY <2>1, <2>2, <2>3, <2>4 DEF Types
<1>2. \A d \in Calls \ {c} : Untouched(d)
  BY DEF Types, Untouched
<1>3. DialogOk(c)'
  BY DEF Types, DialogOk, Parted
<1>4. SessionsOk(c)'
  BY DEF Types, SessionsOk, Sessions, NoSession
<1> QED
  BY <1>1, <1>2, <1>3, <1>4 DEF StepOk, Types

LEMMA RejectStoppedInv ==
  ASSUME IInv, NEW c \in Calls, RejectStopped(c)
  PROVE  StepOk(c)
<1> USE Facts DEF RejectStopped, RejectWith, Reject, Goto, dialog, tokens, record, media, process
<1>1. Types'
  <2>1. pc' \in [Calls -> Stages]
    BY DEF Types, Stages
  <2>2. dlg' \in [Calls -> {"none", "early", "accepted", "confirmed", "terminated"}]
    BY DEF Types
  <2>3. /\ live' \in [Calls -> SUBSET Sessions]
        /\ guard' \in [Calls -> Sessions \union {NoSession}]
        /\ running' \in [Calls -> SUBSET Sessions]
    BY DEF Types, Sessions, NoSession
  <2>4. said' \in [Calls -> BOOLEAN] /\ dropped' \in [Calls -> BOOLEAN]
        /\ cfg' \in [Calls -> Config]
    BY DEF Types
  <2> QED
    BY <2>1, <2>2, <2>3, <2>4 DEF Types
<1>2. \A d \in Calls \ {c} : Untouched(d)
  BY DEF Types, Untouched
<1>3. DialogOk(c)'
  BY DEF Types, DialogOk, Parted
<1>4. SessionsOk(c)'
  BY DEF Types, SessionsOk, Sessions, NoSession
<1> QED
  BY <1>1, <1>2, <1>3, <1>4 DEF StepOk, Types

LEMMA ReleaseInv ==
  ASSUME IInv, NEW c \in Calls, Release(c)
  PROVE  StepOk(c)
<1> USE Facts DEF Release, StopLive, Goto, dialog, tokens, record, media, process
<1>1. Types'
  <2>1. pc' \in [Calls -> Stages]
    BY DEF Types, Stages
  <2>2. dlg' \in [Calls -> {"none", "early", "accepted", "confirmed", "terminated"}]
    BY DEF Types
  <2>3. /\ live' \in [Calls -> SUBSET Sessions]
        /\ guard' \in [Calls -> Sessions \union {NoSession}]
        /\ running' \in [Calls -> SUBSET Sessions]
    BY DEF Types, Sessions, NoSession
  <2>4. said' \in [Calls -> BOOLEAN] /\ dropped' \in [Calls -> BOOLEAN]
        /\ cfg' \in [Calls -> Config]
    BY DEF Types
  <2> QED
    BY <2>1, <2>2, <2>3, <2>4 DEF Types
<1>2. \A d \in Calls \ {c} : Untouched(d)
  BY DEF Types, Untouched
<1>3. DialogOk(c)'
  BY DEF Types, DialogOk, Parted
<1>4. SessionsOk(c)'
  BY DEF Types, SessionsOk, Sessions, NoSession
<1> QED
  BY <1>1, <1>2, <1>3, <1>4 DEF StepOk, Types

LEMMA FinishInv ==
  ASSUME IInv, NEW c \in Calls, Finish(c)
  PROVE  StepOk(c)
<1> USE Facts DEF Finish, Goto, dialog, tokens, record, media, process
<1>1. Types'
  <2>1. pc' \in [Calls -> Stages]
    BY DEF Types, Stages
  <2>2. dlg' \in [Calls -> {"none", "early", "accepted", "confirmed", "terminated"}]
    BY DEF Types
  <2>3. /\ live' \in [Calls -> SUBSET Sessions]
        /\ guard' \in [Calls -> Sessions \union {NoSession}]
        /\ running' \in [Calls -> SUBSET Sessions]
    BY DEF Types, Sessions, NoSession
  <2>4. said' \in [Calls -> BOOLEAN] /\ dropped' \in [Calls -> BOOLEAN]
        /\ cfg' \in [Calls -> Config]
    BY DEF Types
  <2> QED
    BY <2>1, <2>2, <2>3, <2>4 DEF Types
<1>2. \A d \in Calls \ {c} : Untouched(d)
  BY DEF Types, Untouched
<1>3. DialogOk(c)'
  BY DEF Types, DialogOk, Parted
<1>4. SessionsOk(c)'
  BY DEF Types, SessionsOk, Sessions, NoSession
<1> QED
  BY <1>1, <1>2, <1>3, <1>4 DEF StepOk, Types

LEMMA DecideInv ==
  ASSUME IInv, NEW c \in Calls, Decide(c)
  PROVE  StepOk(c)
<1> USE Facts DEF Decide, Goto, dialog, tokens, record, media, process
<1>1. Types'
  <2>1. pc' \in [Calls -> Stages]
    BY DEF Types, Stages
  <2>2. dlg' \in [Calls -> {"none", "early", "accepted", "confirmed", "terminated"}]
    BY DEF Types
  <2>3. /\ live' \in [Calls -> SUBSET Sessions]
        /\ guard' \in [Calls -> Sessions \union {NoSession}]
        /\ running' \in [Calls -> SUBSET Sessions]
    BY DEF Types, Sessions, NoSession
  <2>4. said' \in [Calls -> BOOLEAN] /\ dropped' \in [Calls -> BOOLEAN]
        /\ cfg' \in [Calls -> Config]
    BY DEF Types
  <2> QED
    BY <2>1, <2>2, <2>3, <2>4 DEF Types
<1>2. \A d \in Calls \ {c} : Untouched(d)
  BY DEF Types, Untouched
<1>3. DialogOk(c)'
  BY DEF Types, DialogOk, Parted
<1>4. SessionsOk(c)'
  BY DEF Types, SessionsOk, Sessions, NoSession
<1> QED
  BY <1>1, <1>2, <1>3, <1>4 DEF StepOk, Types

LEMMA JumpInv ==
  ASSUME IInv, NEW c \in Calls, Jump(c)
  PROVE  StepOk(c)
<1> USE Facts DEF Jump, Goto, dialog, tokens, record, media, process
<1>1. Types'
  <2>1. pc' \in [Calls -> Stages]
    BY DEF Types, Stages
  <2>2. dlg' \in [Calls -> {"none", "early", "accepted", "confirmed", "terminated"}]
    BY DEF Types
  <2>3. /\ live' \in [Calls -> SUBSET Sessions]
        /\ guard' \in [Calls -> Sessions \union {NoSession}]
        /\ running' \in [Calls -> SUBSET Sessions]
    BY DEF Types, Sessions, NoSession
  <2>4. said' \in [Calls -> BOOLEAN] /\ dropped' \in [Calls -> BOOLEAN]
        /\ cfg' \in [Calls -> Config]
    BY DEF Types
  <2> QED
    BY <2>1, <2>2, <2>3, <2>4 DEF Types
<1>2. \A d \in Calls \ {c} : Untouched(d)
  BY DEF Types, Untouched
<1>3. DialogOk(c)'
  BY DEF Types, DialogOk, Parted
<1>4. SessionsOk(c)'
  BY DEF Types, SessionsOk, Sessions, NoSession
<1> QED
  BY <1>1, <1>2, <1>3, <1>4 DEF StepOk, Types

LEMMA AcceptInv ==
  ASSUME IInv, NEW c \in Calls, Accept(c)
  PROVE  StepOk(c)
<1> USE Facts DEF Accept, Goto, dialog, tokens, record, media, process
<1>1. Types'
  <2>1. pc' \in [Calls -> Stages]
    BY DEF Types, Stages
  <2>2. dlg' \in [Calls -> {"none", "early", "accepted", "confirmed", "terminated"}]
    BY DEF Types
  <2>3. /\ live' \in [Calls -> SUBSET Sessions]
        /\ guard' \in [Calls -> Sessions \union {NoSession}]
        /\ running' \in [Calls -> SUBSET Sessions]
    BY DEF Types, Sessions, NoSession
  <2>4. said' \in [Calls -> BOOLEAN] /\ dropped' \in [Calls -> BOOLEAN]
        /\ cfg' \in [Calls -> Config]
    BY DEF Types
  <2> QED
    BY <2>1, <2>2, <2>3, <2>4 DEF Types
<1>2. \A d \in Calls \ {c} : Untouched(d)
  BY DEF Types, Untouched
<1>3. DialogOk(c)'
  BY DEF Types, DialogOk, Parted
<1>4. SessionsOk(c)'
  BY DEF Types, SessionsOk, Sessions, NoSession
<1> QED
  BY <1>1, <1>2, <1>3, <1>4 DEF StepOk, Types

LEMMA AnnounceInv ==
  ASSUME IInv, NEW c \in Calls, Announce(c)
  PROVE  StepOk(c)
<1> USE Facts DEF Announce, Create, Goto, dialog, tokens, record, media, process
<1>1. Types'
  <2>1. pc' \in [Calls -> Stages]
    BY DEF Types, Stages
  <2>2. dlg' \in [Calls -> {"none", "early", "accepted", "confirmed", "terminated"}]
    BY DEF Types
  <2>3. /\ live' \in [Calls -> SUBSET Sessions]
        /\ guard' \in [Calls -> Sessions \union {NoSession}]
        /\ running' \in [Calls -> SUBSET Sessions]
    BY DEF Types, Sessions, NoSession
  <2>4. said' \in [Calls -> BOOLEAN] /\ dropped' \in [Calls -> BOOLEAN]
        /\ cfg' \in [Calls -> Config]
    BY DEF Types
  <2> QED
    BY <2>1, <2>2, <2>3, <2>4 DEF Types
<1>2. \A d \in Calls \ {c} : Untouched(d)
  BY DEF Types, Untouched
<1>3. DialogOk(c)'
  BY DEF Types, DialogOk, Parted
<1>4. SessionsOk(c)'
  BY DEF Types, SessionsOk, Sessions, NoSession
<1> QED
  BY <1>1, <1>2, <1>3, <1>4 DEF StepOk, Types

LEMMA TalkInv ==
  ASSUME IInv, NEW c \in Calls, Talk(c)
  PROVE  StepOk(c)
<1> USE Facts DEF Talk, Goto, dialog, tokens, record, media, process
<1>1. Types'
  <2>1. pc' \in [Calls -> Stages]
    BY DEF Types, Stages
  <2>2. dlg' \in [Calls -> {"none", "early", "accepted", "confirmed", "terminated"}]
    BY DEF Types
  <2>3. /\ live' \in [Calls -> SUBSET Sessions]
        /\ guard' \in [Calls -> Sessions \union {NoSession}]
        /\ running' \in [Calls -> SUBSET Sessions]
    BY DEF Types, Sessions, NoSession
  <2>4. said' \in [Calls -> BOOLEAN] /\ dropped' \in [Calls -> BOOLEAN]
        /\ cfg' \in [Calls -> Config]
    BY DEF Types
  <2> QED
    BY <2>1, <2>2, <2>3, <2>4 DEF Types
<1>2. \A d \in Calls \ {c} : Untouched(d)
  BY DEF Types, Untouched
<1>3. DialogOk(c)'
  BY DEF Types, DialogOk, Parted
<1>4. SessionsOk(c)'
  BY DEF Types, SessionsOk, Sessions, NoSession
<1> QED
  BY <1>1, <1>2, <1>3, <1>4 DEF StepOk, Types

LEMMA StopSessionsInv ==
  ASSUME IInv, NEW c \in Calls, StopSessions(c)
  PROVE  StepOk(c)
<1> USE Facts DEF StopSessions, StopLive, Goto, dialog, tokens, record, media, process
<1>1. Types'
  <2>1. pc' \in [Calls -> Stages]
    BY DEF Types, Stages
  <2>2. dlg' \in [Calls -> {"none", "early", "accepted", "confirmed", "terminated"}]
    BY DEF Types
  <2>3. /\ live' \in [Calls -> SUBSET Sessions]
        /\ guard' \in [Calls -> Sessions \union {NoSession}]
        /\ running' \in [Calls -> SUBSET Sessions]
    BY DEF Types, Sessions, NoSession
  <2>4. said' \in [Calls -> BOOLEAN] /\ dropped' \in [Calls -> BOOLEAN]
        /\ cfg' \in [Calls -> Config]
    BY DEF Types
  <2> QED
    BY <2>1, <2>2, <2>3, <2>4 DEF Types
<1>2. \A d \in Calls \ {c} : Untouched(d)
  BY DEF Types, Untouched
<1>3. DialogOk(c)'
  BY DEF Types, DialogOk, Parted
<1>4. SessionsOk(c)'
  BY DEF Types, SessionsOk, Sessions, NoSession
<1> QED
  BY <1>1, <1>2, <1>3, <1>4 DEF StepOk, Types

LEMMA HangUpInv ==
  ASSUME IInv, NEW c \in Calls, HangUp(c)
  PROVE  StepOk(c)
<1> USE Facts DEF HangUp, Bye, Inspect, Goto, dialog, tokens, record, media, process
<1>1. Types'
  <2>1. pc' \in [Calls -> Stages]
    BY DEF Types, Stages
  <2>2. dlg' \in [Calls -> {"none", "early", "accepted", "confirmed", "terminated"}]
    BY DEF Types
  <2>3. /\ live' \in [Calls -> SUBSET Sessions]
        /\ guard' \in [Calls -> Sessions \union {NoSession}]
        /\ running' \in [Calls -> SUBSET Sessions]
    BY DEF Types, Sessions, NoSession
  <2>4. said' \in [Calls -> BOOLEAN] /\ dropped' \in [Calls -> BOOLEAN]
        /\ cfg' \in [Calls -> Config]
    BY DEF Types
  <2> QED
    BY <2>1, <2>2, <2>3, <2>4 DEF Types
<1>2. \A d \in Calls \ {c} : Untouched(d)
  BY DEF Types, Untouched
<1>3. DialogOk(c)'
  BY DEF Types, DialogOk, Parted
<1>4. SessionsOk(c)'
  BY DEF Types, SessionsOk, Sessions, NoSession
<1> QED
  BY <1>1, <1>2, <1>3, <1>4 DEF StepOk, Types

LEMMA SayByeInv ==
  ASSUME IInv, NEW c \in Calls, SayBye(c)
  PROVE  StepOk(c)
<1> USE Facts DEF SayBye, Bye, Inspect, Goto, dialog, tokens, record, media, process
<1>1. Types'
  <2>1. pc' \in [Calls -> Stages]
    BY DEF Types, Stages
  <2>2. dlg' \in [Calls -> {"none", "early", "accepted", "confirmed", "terminated"}]
    BY DEF Types
  <2>3. /\ live' \in [Calls -> SUBSET Sessions]
        /\ guard' \in [Calls -> Sessions \union {NoSession}]
        /\ running' \in [Calls -> SUBSET Sessions]
    BY DEF Types, Sessions, NoSession
  <2>4. said' \in [Calls -> BOOLEAN] /\ dropped' \in [Calls -> BOOLEAN]
        /\ cfg' \in [Calls -> Config]
    BY DEF Types
  <2> QED
    BY <2>1, <2>2, <2>3, <2>4 DEF Types
<1>2. \A d \in Calls \ {c} : Untouched(d)
  BY DEF Types, Untouched
<1>3. DialogOk(c)'
  BY DEF Types, DialogOk, Parted
<1>4. SessionsOk(c)'
  BY DEF Types, SessionsOk, Sessions, NoSession
<1> QED
  BY <1>1, <1>2, <1>3, <1>4 DEF StepOk, Types

LEMMA ByeDoneInv ==
  ASSUME IInv, NEW c \in Calls, ByeDone(c)
  PROVE  StepOk(c)
<1> USE Facts DEF ByeDone, Goto, dialog, tokens, record, media, process
<1>1. Types'
  <2>1. pc' \in [Calls -> Stages]
    BY DEF Types, Stages
  <2>2. dlg' \in [Calls -> {"none", "early", "accepted", "confirmed", "terminated"}]
    BY DEF Types
  <2>3. /\ live' \in [Calls -> SUBSET Sessions]
        /\ guard' \in [Calls -> Sessions \union {NoSession}]
        /\ running' \in [Calls -> SUBSET Sessions]
    BY DEF Types, Sessions, NoSession
  <2>4. said' \in [Calls -> BOOLEAN] /\ dropped' \in [Calls -> BOOLEAN]
        /\ cfg' \in [Calls -> Config]
    BY DEF Types
  <2> QED
    BY <2>1, <2>2, <2>3, <2>4 DEF Types
<1>2. \A d \in Calls \ {c} : Untouched(d)
  BY DEF Types, Untouched
<1>3. DialogOk(c)'
  BY DEF Types, DialogOk, Parted
<1>4. SessionsOk(c)'
  BY DEF Types, SessionsOk, Sessions, NoSession
<1> QED
  BY <1>1, <1>2, <1>3, <1>4 DEF StepOk, Types

LEMMA DropInv ==
  ASSUME IInv, NEW c \in Calls, Drop(c)
  PROVE  StepOk(c)
<1> USE Facts DEF Drop, Goto, dialog, tokens, record, media, process
<1>1. Types'
  <2>1. pc' \in [Calls -> Stages]
    BY DEF Types, Stages
  <2>2. dlg' \in [Calls -> {"none", "early", "accepted", "confirmed", "terminated"}]
    BY DEF Types
  <2>3. /\ live' \in [Calls -> SUBSET Sessions]
        /\ guard' \in [Calls -> Sessions \union {NoSession}]
        /\ running' \in [Calls -> SUBSET Sessions]
    BY DEF Types, Sessions, NoSession
  <2>4. said' \in [Calls -> BOOLEAN] /\ dropped' \in [Calls -> BOOLEAN]
        /\ cfg' \in [Calls -> Config]
    BY DEF Types
  <2> QED
    BY <2>1, <2>2, <2>3, <2>4 DEF Types
<1>2. \A d \in Calls \ {c} : Untouched(d)
  BY DEF Types, Untouched
<1>3. DialogOk(c)'
  BY DEF Types, DialogOk, Parted
<1>4. SessionsOk(c)'
  <2>1. pc'[c] = "join" /\ dropped'[c] = (guard[c] # NoSession)
    BY DEF Types
  <2>2. guard' = guard /\ running' = running
    OBVIOUS
  <2>3. running[c] \subseteq {guard[c]} /\ (guard[c] = NoSession => running[c] = {})
    BY DEF Types, SessionsOk, Sessions, NoSession
  <2> QED
    BY <2>1, <2>2, <2>3 DEF SessionsOk
<1> QED
  BY <1>1, <1>2, <1>3, <1>4 DEF StepOk, Types

LEMMA GuardStopInv ==
  ASSUME IInv, NEW c \in Calls, GuardStop(c)
  PROVE  StepOk(c)
<1> USE Facts DEF GuardStop, Goto, dialog, tokens, record, media, process
<1>1. Types'
  <2>1. pc' \in [Calls -> Stages]
    BY DEF Types, Stages
  <2>2. dlg' \in [Calls -> {"none", "early", "accepted", "confirmed", "terminated"}]
    BY DEF Types
  <2>3. /\ live' \in [Calls -> SUBSET Sessions]
        /\ guard' \in [Calls -> Sessions \union {NoSession}]
        /\ running' \in [Calls -> SUBSET Sessions]
    BY DEF Types, Sessions, NoSession
  <2>4. said' \in [Calls -> BOOLEAN] /\ dropped' \in [Calls -> BOOLEAN]
        /\ cfg' \in [Calls -> Config]
    BY DEF Types
  <2> QED
    BY <2>1, <2>2, <2>3, <2>4 DEF Types
<1>2. \A d \in Calls \ {c} : Untouched(d)
  BY DEF Types, Untouched
<1>3. DialogOk(c)'
  BY DEF Types, DialogOk, Parted
<1>4. SessionsOk(c)'
  BY DEF Types, SessionsOk, Sessions, NoSession
<1> QED
  BY <1>1, <1>2, <1>3, <1>4 DEF StepOk, Types

LEMMA JoinInv ==
  ASSUME IInv, NEW c \in Calls, Join(c)
  PROVE  StepOk(c)
<1> USE Facts DEF Join, Goto, dialog, tokens, record, media, process
<1>1. Types'
  <2>1. pc' \in [Calls -> Stages]
    BY DEF Types, Stages
  <2>2. dlg' \in [Calls -> {"none", "early", "accepted", "confirmed", "terminated"}]
    BY DEF Types
  <2>3. /\ live' \in [Calls -> SUBSET Sessions]
        /\ guard' \in [Calls -> Sessions \union {NoSession}]
        /\ running' \in [Calls -> SUBSET Sessions]
    BY DEF Types, Sessions, NoSession
  <2>4. said' \in [Calls -> BOOLEAN] /\ dropped' \in [Calls -> BOOLEAN]
        /\ cfg' \in [Calls -> Config]
    BY DEF Types
  <2> QED
    BY <2>1, <2>2, <2>3, <2>4 DEF Types
<1>2. \A d \in Calls \ {c} : Untouched(d)
  BY DEF Types, Untouched
<1>3. DialogOk(c)'
  BY DEF Types, DialogOk, Parted
<1>4. SessionsOk(c)'
  BY DEF Types, SessionsOk, Sessions, NoSession
<1> QED
  BY <1>1, <1>2, <1>3, <1>4 DEF StepOk, Types

LEMMA MonitorInv ==
  ASSUME IInv, NEW c \in Calls, Monitor(c)
  PROVE  StepOk(c)
<1> USE Facts DEF Monitor, Goto, dialog, tokens, record, media, process
<1>1. Types'
  <2>1. pc' \in [Calls -> Stages]
    BY DEF Types, Stages
  <2>2. dlg' \in [Calls -> {"none", "early", "accepted", "confirmed", "terminated"}]
    BY DEF Types
  <2>3. /\ live' \in [Calls -> SUBSET Sessions]
        /\ guard' \in [Calls -> Sessions \union {NoSession}]
        /\ running' \in [Calls -> SUBSET Sessions]
    BY DEF Types, Sessions, NoSession
  <2>4. said' \in [Calls -> BOOLEAN] /\ dropped' \in [Calls -> BOOLEAN]
        /\ cfg' \in [Calls -> Config]
    BY DEF Types
  <2> QED
    BY <2>1, <2>2, <2>3, <2>4 DEF Types
<1>2. \A d \in Calls \ {c} : Untouched(d)
  BY DEF Types, Untouched
<1>3. DialogOk(c)'
  BY DEF Types, DialogOk, Parted
<1>4. SessionsOk(c)'
  BY DEF Types, SessionsOk, Sessions, NoSession
<1> QED
  BY <1>1, <1>2, <1>3, <1>4 DEF StepOk, Types

LEMMA SendInv ==
  ASSUME IInv, NEW c \in Calls, Send(c)
  PROVE  StepOk(c)
<1> USE Facts DEF Send, Inspect, Goto, dialog, tokens, record, media, process
<1>1. Types'
  <2>1. pc' \in [Calls -> Stages]
    BY DEF Types, Stages
  <2>2. dlg' \in [Calls -> {"none", "early", "accepted", "confirmed", "terminated"}]
    BY DEF Types
  <2>3. /\ live' \in [Calls -> SUBSET Sessions]
        /\ guard' \in [Calls -> Sessions \union {NoSession}]
        /\ running' \in [Calls -> SUBSET Sessions]
    BY DEF Types, Sessions, NoSession
  <2>4. said' \in [Calls -> BOOLEAN] /\ dropped' \in [Calls -> BOOLEAN]
        /\ cfg' \in [Calls -> Config]
    BY DEF Types
  <2> QED
    BY <2>1, <2>2, <2>3, <2>4 DEF Types
<1>2. \A d \in Calls \ {c} : Untouched(d)
  BY DEF Types, Untouched
<1>3. DialogOk(c)'
  BY DEF Types, DialogOk, Parted
<1>4. SessionsOk(c)'
  BY DEF Types, SessionsOk, Sessions, NoSession
<1> QED
  BY <1>1, <1>2, <1>3, <1>4 DEF StepOk, Types

LEMMA CancelInv ==
  ASSUME IInv, NEW c \in Calls, Cancel(c)
  PROVE  StepOk(c)
<1> USE Facts DEF Cancel, Inspect, Reject, Goto, dialog, tokens, record, media, process
<1>1. Types'
  <2>1. pc' \in [Calls -> Stages]
    BY DEF Types, Stages
  <2>2. dlg' \in [Calls -> {"none", "early", "accepted", "confirmed", "terminated"}]
    BY DEF Types
  <2>3. /\ live' \in [Calls -> SUBSET Sessions]
        /\ guard' \in [Calls -> Sessions \union {NoSession}]
        /\ running' \in [Calls -> SUBSET Sessions]
    BY DEF Types, Sessions, NoSession
  <2>4. said' \in [Calls -> BOOLEAN] /\ dropped' \in [Calls -> BOOLEAN]
        /\ cfg' \in [Calls -> Config]
    BY DEF Types
  <2> QED
    BY <2>1, <2>2, <2>3, <2>4 DEF Types
<1>2. \A d \in Calls \ {c} : Untouched(d)
  BY DEF Types, Untouched
<1>3. DialogOk(c)'
  BY DEF Types, DialogOk, Parted
<1>4. SessionsOk(c)'
  BY DEF Types, SessionsOk, Sessions, NoSession
<1> QED
  BY <1>1, <1>2, <1>3, <1>4 DEF StepOk, Types

LEMMA AckInv ==
  ASSUME IInv, NEW c \in Calls, Ack(c)
  PROVE  StepOk(c)
<1> USE Facts DEF Ack, Goto, dialog, tokens, record, media, process
<1>1. Types'
  <2>1. pc' \in [Calls -> Stages]
    BY DEF Types, Stages
  <2>2. dlg' \in [Calls -> {"none", "early", "accepted", "confirmed", "terminated"}]
    BY DEF Types
  <2>3. /\ live' \in [Calls -> SUBSET Sessions]
        /\ guard' \in [Calls -> Sessions \union {NoSession}]
        /\ running' \in [Calls -> SUBSET Sessions]
    BY DEF Types, Sessions, NoSession
  <2>4. said' \in [Calls -> BOOLEAN] /\ dropped' \in [Calls -> BOOLEAN]
        /\ cfg' \in [Calls -> Config]
    BY DEF Types
  <2> QED
    BY <2>1, <2>2, <2>3, <2>4 DEF Types
<1>2. \A d \in Calls \ {c} : Untouched(d)
  BY DEF Types, Untouched
<1>3. DialogOk(c)'
  BY DEF Types, DialogOk, Parted
<1>4. SessionsOk(c)'
  BY DEF Types, SessionsOk, Sessions, NoSession
<1> QED
  BY <1>1, <1>2, <1>3, <1>4 DEF StepOk, Types

LEMMA RemoteByeInv ==
  ASSUME IInv, NEW c \in Calls, RemoteBye(c)
  PROVE  StepOk(c)
<1> USE Facts DEF RemoteBye, Inspect, Goto, dialog, tokens, record, media, process
<1>1. Types'
  <2>1. pc' \in [Calls -> Stages]
    BY DEF Types, Stages
  <2>2. dlg' \in [Calls -> {"none", "early", "accepted", "confirmed", "terminated"}]
    BY DEF Types
  <2>3. /\ live' \in [Calls -> SUBSET Sessions]
        /\ guard' \in [Calls -> Sessions \union {NoSession}]
        /\ running' \in [Calls -> SUBSET Sessions]
    BY DEF Types, Sessions, NoSession
  <2>4. said' \in [Calls -> BOOLEAN] /\ dropped' \in [Calls -> BOOLEAN]
        /\ cfg' \in [Calls -> Config]
    BY DEF Types
  <2> QED
    BY <2>1, <2>2, <2>3, <2>4 DEF Types
<1>2. \A d \in Calls \ {c} : Untouched(d)
  BY DEF Types, Untouched
<1>3. DialogOk(c)'
  BY DEF Types, DialogOk, Parted
<1>4. SessionsOk(c)'
  BY DEF Types, SessionsOk, Sessions, NoSession
<1> QED
  BY <1>1, <1>2, <1>3, <1>4 DEF StepOk, Types

LEMMA UiHangupInv ==
  ASSUME IInv, NEW c \in Calls, UiHangup(c)
  PROVE  StepOk(c)
<1> USE Facts DEF UiHangup, Goto, dialog, tokens, record, media, process
<1>1. Types'
  <2>1. pc' \in [Calls -> Stages]
    BY DEF Types, Stages
  <2>2. dlg' \in [Calls -> {"none", "early", "accepted", "confirmed", "terminated"}]
    BY DEF Types
  <2>3. /\ live' \in [Calls -> SUBSET Sessions]
        /\ guard' \in [Calls -> Sessions \union {NoSession}]
        /\ running' \in [Calls -> SUBSET Sessions]
    BY DEF Types, Sessions, NoSession
  <2>4. said' \in [Calls -> BOOLEAN] /\ dropped' \in [Calls -> BOOLEAN]
        /\ cfg' \in [Calls -> Config]
    BY DEF Types
  <2> QED
    BY <2>1, <2>2, <2>3, <2>4 DEF Types
<1>2. \A d \in Calls \ {c} : Untouched(d)
  BY DEF Types, Untouched
<1>3. DialogOk(c)'
  BY DEF Types, DialogOk, Parted
<1>4. SessionsOk(c)'
  BY DEF Types, SessionsOk, Sessions, NoSession
<1> QED
  BY <1>1, <1>2, <1>3, <1>4 DEF StepOk, Types

LEMMA FlushInv ==
  ASSUME IInv, NEW c \in Calls, Flush(c)
  PROVE  StepOk(c)
<1> USE Facts DEF Flush, Goto, dialog, tokens, record, media, process
<1>1. Types'
  <2>1. pc' \in [Calls -> Stages]
    BY DEF Types, Stages
  <2>2. dlg' \in [Calls -> {"none", "early", "accepted", "confirmed", "terminated"}]
    BY DEF Types
  <2>3. /\ live' \in [Calls -> SUBSET Sessions]
        /\ guard' \in [Calls -> Sessions \union {NoSession}]
        /\ running' \in [Calls -> SUBSET Sessions]
    BY DEF Types, Sessions, NoSession
  <2>4. said' \in [Calls -> BOOLEAN] /\ dropped' \in [Calls -> BOOLEAN]
        /\ cfg' \in [Calls -> Config]
    BY DEF Types
  <2> QED
    BY <2>1, <2>2, <2>3, <2>4 DEF Types
<1>2. \A d \in Calls \ {c} : Untouched(d)
  BY DEF Types, Untouched
<1>3. DialogOk(c)'
  BY DEF Types, DialogOk, Parted
<1>4. SessionsOk(c)'
  BY DEF Types, SessionsOk, Sessions, NoSession
<1> QED
  BY <1>1, <1>2, <1>3, <1>4 DEF StepOk, Types

LEMMA ToneInv ==
  ASSUME IInv, NEW c \in Calls, Tone(c)
  PROVE  StepOk(c)
<1> USE Facts DEF Tone, Play, HasTone, Alert, Goto, dialog, tokens, record, media, process
<1>1. Types'
  <2>1. pc' \in [Calls -> Stages]
    BY DEF Types, Stages
  <2>2. dlg' = dlg /\ live' = live /\ guard' = guard /\ running' = running
    OBVIOUS
  <2>3. said' = said /\ dropped' = dropped /\ cfg' = cfg
    OBVIOUS
  <2> QED
    BY <2>1, <2>2, <2>3 DEF Types
<1>2. \A d \in Calls \ {c} : Untouched(d)
  BY DEF Types, Untouched
<1>3. DialogOk(c)'
  BY DEF Types, DialogOk, Parted
<1>4. SessionsOk(c)'
  BY DEF Types, SessionsOk, Sessions, NoSession
<1> QED
  BY <1>1, <1>2, <1>3, <1>4 DEF StepOk, Types

LEMMA EarlyInv ==
  ASSUME IInv, NEW c \in Calls, Early(c)
  PROVE  StepOk(c)
<1> USE Facts DEF Early, Play, HasTone, Alert, Goto, dialog, tokens, record, media, process
<1>1. Types'
  <2>1. pc' \in [Calls -> Stages]
    BY DEF Types, Stages
  <2>2. dlg' = dlg /\ live' = live /\ guard' = guard /\ running' = running
    OBVIOUS
  <2>3. said' = said /\ dropped' = dropped /\ cfg' = cfg
    OBVIOUS
  <2> QED
    BY <2>1, <2>2, <2>3 DEF Types
<1>2. \A d \in Calls \ {c} : Untouched(d)
  BY DEF Types, Untouched
<1>3. DialogOk(c)'
  BY DEF Types, DialogOk, Parted
<1>4. SessionsOk(c)'
  BY DEF Types, SessionsOk, Sessions, NoSession
<1> QED
  BY <1>1, <1>2, <1>3, <1>4 DEF StepOk, Types

LEMMA RingInv ==
  ASSUME IInv, NEW c \in Calls, Ring(c)
  PROVE  StepOk(c)
<1> USE Facts DEF Ring, Play, HasTone, Alert, Goto, dialog, tokens, record, media, process
<1>1. Types'
  <2>1. pc' \in [Calls -> Stages]
    BY DEF Types, Stages
  <2>2. dlg' = dlg /\ live' = live /\ guard' = guard /\ running' = running
    OBVIOUS
  <2>3. said' = said /\ dropped' = dropped /\ cfg' = cfg
    OBVIOUS
  <2> QED
    BY <2>1, <2>2, <2>3 DEF Types
<1>2. \A d \in Calls \ {c} : Untouched(d)
  BY DEF Types, Untouched
<1>3. DialogOk(c)'
  BY DEF Types, DialogOk, Parted
<1>4. SessionsOk(c)'
  BY DEF Types, SessionsOk, Sessions, NoSession
<1> QED
  BY <1>1, <1>2, <1>3, <1>4 DEF StepOk, Types

-----------------------------------------------------------------------------
LEMMA TaskInv ==
  ASSUME IInv, NEW c \in Calls, Task(c)
  PROVE  StepOk(c)
BY SetupInv, ScreenInv, MediaInv, ToneInv, EarlyInv, RingInv,
   RejectAfterToneInv, RejectStoppedInv, ReleaseInv, FinishInv, DecideInv,
   JumpInv, AcceptInv, AnnounceInv, TalkInv, StopSessionsInv, HangUpInv,
   SayByeInv, ByeDoneInv, DropInv, JoinInv
   DEF Task

LEMMA NextInv == IInv /\ [Next]_vars => IInv'
<1> SUFFICES ASSUME IInv, [Next]_vars PROVE IInv'
  OBVIOUS
<1>1. ASSUME NEW c \in Calls,
             \/ Invite(c) \/ Task(c) \/ GuardStop(c) \/ Monitor(c) \/ Send(c)
             \/ Flush(c) \/ UiHangup(c) \/ Cancel(c) \/ Ack(c) \/ RemoteBye(c)
      PROVE  IInv'
  <2>1. StepOk(c)
    BY <1>1, TaskInv, InviteInv, GuardStopInv, MonitorInv, SendInv, FlushInv, UiHangupInv,
       CancelInv, AckInv, RemoteByeInv
  <2> QED
    BY <2>1, StepInv
<1>2. ASSUME UNCHANGED <<cfg, pc, dlg, said, live, guard, running, dropped>>, Drained'
      PROVE  IInv'
  <2>1. Types'
    BY <1>2 DEF IInv, Types
  <2>2. \A c \in Calls : Untouched(c)
    BY <1>2 DEF Untouched
  <2>3. \A c \in Calls : DialogOk(c)' /\ SessionsOk(c)'
    BY <2>2, UntouchedOk DEF IInv
  <2> QED
    BY <1>2, <2>1, <2>3 DEF IInv
<1>3. CASE Stop
  <2>1. Drained'
    BY <1>3 DEF Stop, IInv, Drained, Current
  <2> QED
    BY <1>2, <1>3, <2>1 DEF Stop, dialog, media
<1>4. CASE EndListen
  <2>1. Drained'
    BY <1>4 DEF EndListen, Drained
  <2> QED
    BY <1>2, <1>4, <2>1 DEF EndListen, dialog, media
<1>5. CASE Close
  <2>1. Drained'
    BY <1>5 DEF Close, Drained, Current
  <2> QED
    BY <1>2, <1>5, <2>1 DEF Close, dialog, media
<1>6. CASE UNCHANGED vars
  <2>1. Drained'
    BY <1>6 DEF vars, process, IInv, Drained, Current
  <2> QED
    BY <1>2, <1>6, <2>1 DEF vars, dialog, media
<1> QED
  BY <1>1, <1>3, <1>4, <1>5, <1>6 DEF Next

LEMMA Inductive == Spec => []IInv
BY InitIInv, NextInv, PTL DEF Spec

\* When run_wait closes the transport in time, every call but those whose
\* peer is to hang up has said BYE or had its dialog ended, however many calls
\* there are and whatever their configurations.
THEOREM DrainSaysBye == Spec => []ByeBeforeClose
<1>1. IInv => ByeBeforeClose
  <2> SUFFICES ASSUME IInv, bot = "closed", ~late, NEW c \in Calls
               PROVE  \/ dlg[c] \in {"none", "terminated"}
                      \/ said[c] \/ cfg[c].mode = "remote"
    BY DEF ByeBeforeClose
  <2>1. pc[c] \in {"none", "done"}
    BY DEF IInv, Drained, Current
  <2> QED
    BY <2>1 DEF IInv, DialogOk, Parted
<1> QED
  BY <1>1, Inductive, PTL

\* A call task that is over leaves no session running but the one its guard
\* is about to stop, in whatever stage it ended.
THEOREM TasksRelease == Spec => []SessionsReleased
<1>1. IInv => SessionsReleased
  BY DEF IInv, SessionsOk, SessionsReleased
<1> QED
  BY <1>1, Inductive, PTL

-----------------------------------------------------------------------------
(***************************************************************************)
(* The other variables.                                                    *)
(***************************************************************************)

\* The codes of responses, and of final ones that do not accept the call.
Responses == 100 .. 699
Finals    == 300 .. 699

Rest ==
  /\ playing \in [Calls -> BOOLEAN]
  /\ end \in [Calls -> Terminal \union {"None"}]
  /\ out \in [Calls -> Seq(Responses)]
  /\ event \in [Calls -> BOOLEAN]
  /\ token \in [Calls -> BOOLEAN]
  /\ control \in [Calls -> BOOLEAN]
  /\ rec \in [Calls -> CallState]
  /\ timers \in [Calls -> Nat]
  /\ saved \in [Calls -> BOOLEAN]
  /\ stop \in BOOLEAN /\ late \in BOOLEAN
  /\ bot \in {"listen", "drain", "closed"}

LEMMA ApplyType ==
  ASSUME NEW m \in Message, NEW s \in CallState
  PROVE  ApplyState(s, m) \in CallState
<1>1. DeriveState(m) \in CallState
  BY DEF DeriveState, CallState, Live, Terminal, Message
<1> QED BY <1>1 DEF ApplyState

LEMMA RequestType ==
  ASSUME NEW d \in Directions, NEW m \in Methods
  PROVE  Request(d, m) \in Message
  BY DEF Request, Message

LEMMA InspectTypes ==
  ASSUME Rest, NEW c \in Calls, NEW m \in Message, Inspect(c, m)
  PROVE  /\ rec' \in [Calls -> CallState] /\ timers' \in [Calls -> Nat]
         /\ saved' \in [Calls -> BOOLEAN]
<1>1. ApplyState(rec[c], m) \in CallState
  BY ApplyType DEF Rest
<1>2. rec' \in [Calls -> CallState]
  BY <1>1 DEF Inspect, Rest
<1>3. timers' \in [Calls -> Nat]
  BY DEF Inspect, Rest
<1> QED BY <1>2, <1>3 DEF Inspect, Rest

LEMMA AppendType ==
  ASSUME Rest, NEW c \in Calls, NEW code \in Responses,
         out' = [out EXCEPT ![c] = Append(@, code)]
  PROVE  out' \in [Calls -> Seq(Responses)]
<1>1. out[c] \in Seq(Responses)
  BY DEF Rest
<1>2. Append(out[c], code) \in Seq(Responses)
  BY <1>1
<1> QED BY <1>2 DEF Rest

LEMMA RejectTypes ==
  ASSUME Rest, NEW c \in Calls, NEW code \in Responses, Reject(c, code)
  PROVE  out' \in [Calls -> Seq(Responses)] /\ event' \in [Calls -> BOOLEAN]
<1>1. CASE dlg[c] = "early"
  <2>1. out' = [out EXCEPT ![c] = Append(@, code)]
    BY <1>1 DEF Reject
  <2>2. event' = [event EXCEPT ![c] = TRUE]
    BY <1>1 DEF Reject
  <2>3. event' \in [Calls -> BOOLEAN]
    BY <2>2 DEF Rest
  <2> QED BY <2>1, <2>3, AppendType
<1>2. CASE dlg[c] # "early"
  BY <1>2 DEF Reject, Rest, dialog
<1> QED BY <1>1, <1>2

\* What a stage that plays does, whether its ringing() works or not.
Alerted(c, code) ==
  /\ IF dlg[c] = "early" THEN out' = [out EXCEPT ![c] = Append(@, code)]
                         ELSE UNCHANGED out
  /\ UNCHANGED <<dlg, event>>

Played(c, s, code, next) ==
  /\ pc[c] = s
  /\ UNCHANGED <<cfg, end, tokens, said, record, media, dropped, process>>
  /\ UNCHANGED dialog \/ (code # 0 /\ Alerted(c, code))
  /\ pc' \in {pc, [pc EXCEPT ![c] = next], [pc EXCEPT ![c] = "drop"]}
  /\ playing' \in {playing, [playing EXCEPT ![c] = TRUE], [playing EXCEPT ![c] = FALSE]}

LEMMA AlertTypes ==
  ASSUME Rest, NEW c \in Calls, NEW code \in Responses, Alerted(c, code)
  PROVE  out' \in [Calls -> Seq(Responses)] /\ event' = event
<1>1. CASE dlg[c] = "early"
  <2>1. out' = [out EXCEPT ![c] = Append(@, code)]
    BY <1>1 DEF Alerted
  <2>2. out' \in [Calls -> Seq(Responses)]
    BY <2>1, AppendType
  <2> QED BY <2>2 DEF Alerted
<1>2. CASE dlg[c] # "early"
  BY <1>2 DEF Alerted, Rest
<1> QED BY <1>1, <1>2

\* The codes an account is set to.
LEMMA CodeTypes ==
  ASSUME IInv, NEW c \in Calls
  PROVE  /\ \A code \in Codes(c) : code \in Finals
         /\ cfg[c].reject \in {0} \union Finals
         /\ ToneCode(c) \in {0, 183} /\ EarlyCode(c) \in {0, 183}
         /\ RingCode(c) \in {0, 180, 183}
<1>1. cfg[c] \in Config
  BY DEF IInv, Types
<1>2. /\ cfg[c].reject \in {0} \union Finals /\ cfg[c].random \in {0} \union Finals
      /\ cfg[c].ring \in {0, 180, 183}
  BY <1>1 DEF Config, Finals
<1>3. \A code \in Codes(c) : code \in Finals
  <2>1. CASE cfg[c].mismatch
    BY <2>1 DEF Codes, Finals
  <2>2. CASE ~cfg[c].mismatch
    <3> SUFFICES ASSUME NEW code \in Codes(c) PROVE code \in Finals
      OBVIOUS
    <3>1. \/ code = cfg[c].random /\ code # 0
          \/ code = cfg[c].reject /\ cfg[c].reject # 0
      BY <2>2 DEF Codes
    <3> QED BY <3>1, <1>2
  <2> QED BY <2>1, <2>2
<1> QED BY <1>2, <1>3 DEF ToneCode, EarlyCode, RingCode


-----------------------------------------------------------------------------
(***************************************************************************)
(* What the record of a call shows when its dialog is over: what is still  *)
(* queued for a call cannot undo the end it shows, because past states do  *)
(* not change back, and a failed one has only final responses to come.     *)
(***************************************************************************)
AllFinal(s) == \A i \in 1 .. Len(s) : s[i] >= 300

\* A final response is the last one of the queue.
FinalLast(c) ==
  \A i \in 1 .. Len(out[c]) : out[c][i] >= 200 => i = Len(out[c]) /\ dlg[c] # "early"

Shown(c) == rec[c] \in Terminal /\ (rec[c] = "Failed" => AllFinal(out[c]))

Leaving == {"release", "finish"}
Opening == {"setup", "screen", "media"}

RecordOk(c) ==
  /\ pc[c] = "none" => out[c] = <<>>
  /\ pc[c] \in Opening => AllFinal(out[c])
  /\ pc[c] \in Leaving => end[c] \in Terminal /\ (end[c] = "Failed" => AllFinal(out[c]))
  /\ pc[c] = "reject" => cfg[c].reject # 0
  /\ FinalLast(c)
  /\ dlg[c] = "terminated" /\ bot # "closed" /\ pc[c] \notin Leaving => Shown(c)

RInv == Rest /\ \A c \in Calls : RecordOk(c)

\* A step of one call leaves the others as they are.
Kept(c) ==
  /\ cfg'[c] = cfg[c] /\ pc'[c] = pc[c] /\ end'[c] = end[c] /\ dlg'[c] = dlg[c]
  /\ out'[c] = out[c] /\ rec'[c] = rec[c]

\* Most steps of a call leave its record, its dialog and its queue alone.
Calm(c) ==
  /\ cfg'[c] = cfg[c] /\ end'[c] = end[c] /\ dlg'[c] = dlg[c]
  /\ out'[c] = out[c] /\ rec'[c] = rec[c]
  /\ pc'[c] = "none" => pc[c] = "none"
  /\ pc'[c] = "reject" => pc[c] = "reject" \/ cfg[c].reject # 0
  /\ pc'[c] \in Opening => pc[c] \in Opening
  /\ pc'[c] \in Leaving <=> pc[c] \in Leaving

RStep(c) ==
  /\ Rest'
  /\ RecordOk(c)'
  /\ \A d \in Calls \ {c} : Kept(d)
  /\ bot' = bot

LEMMA KeptOk ==
  ASSUME NEW c \in Calls, RecordOk(c), Kept(c), bot' # "closed" => bot # "closed"
  PROVE  RecordOk(c)'
BY DEF RecordOk, Kept, FinalLast, Shown

LEMMA CalmOk ==
  ASSUME NEW c \in Calls, RecordOk(c), Calm(c), bot' = bot
  PROVE  RecordOk(c)'
BY DEF RecordOk, Calm, FinalLast, Shown, Leaving, Opening

LEMMA RStepInv ==
  ASSUME RInv, NEW c \in Calls, RStep(c)
  PROVE  RInv'
BY KeptOk DEF RInv, RStep

LEMMA InitRInv == Init => RInv
<1> SUFFICES ASSUME Init PROVE RInv
  OBVIOUS
<1>1. out \in [Calls -> Seq(Responses)]
  BY DEF Init
<1>2. /\ playing \in [Calls -> BOOLEAN] /\ event \in [Calls -> BOOLEAN]
      /\ token \in [Calls -> BOOLEAN] /\ control \in [Calls -> BOOLEAN]
      /\ saved \in [Calls -> BOOLEAN]
  BY DEF Init
<1>3. /\ end \in [Calls -> Terminal \union {"None"}] /\ rec \in [Calls -> CallState]
      /\ timers \in [Calls -> Nat]
  BY DEF Init, CallState
<1>4. stop \in BOOLEAN /\ late \in BOOLEAN /\ bot \in {"listen", "drain", "closed"}
  BY DEF Init
<1>5. ASSUME NEW c \in Calls PROVE RecordOk(c)
  BY DEF Init, RecordOk, FinalLast, Opening, Leaving
<1> QED BY <1>1, <1>2, <1>3, <1>4, <1>5 DEF RInv, Rest

LEMMA RFacts ==
  ASSUME IInv, RInv, NEW c \in Calls
  PROVE  /\ Rest /\ RecordOk(c) /\ DialogOk(c)
         /\ cfg \in [Calls -> Config] /\ pc \in [Calls -> Stages]
         /\ dlg \in [Calls -> {"none", "early", "accepted", "confirmed", "terminated"}]
BY DEF RInv, IInv, Types

\* What is left to show of a calm step.
LEMMA CalmStep ==
  ASSUME IInv, RInv, NEW c \in Calls, Rest', Calm(c),
         \A d \in Calls \ {c} : Kept(d), bot' = bot
  PROVE  RStep(c)
BY CalmOk, RFacts DEF RStep

-----------------------------------------------------------------------------
LEMMA SetupRecord ==
  ASSUME IInv, RInv, NEW c \in Calls, Setup(c)
  PROVE  RStep(c)
<1> USE RFacts DEF Setup, Goto, dialog, tokens, record, process
<1>1. Rest'
  BY DEF Rest
<1>2. Calm(c)
  BY DEF Rest, Calm, Opening, Leaving
<1>3. \A d \in Calls \ {c} : Kept(d)
  BY DEF Rest, Kept
<1> QED BY <1>1, <1>2, <1>3, CalmStep

LEMMA ReleaseRecord ==
  ASSUME IInv, RInv, NEW c \in Calls, Release(c)
  PROVE  RStep(c)
<1> USE RFacts DEF Release, Goto, StopLive, dialog, tokens, record, process
<1>1. Rest'
  BY DEF Rest
<1>2. Calm(c)
  BY DEF Rest, Calm, Opening, Leaving
<1>3. \A d \in Calls \ {c} : Kept(d)
  BY DEF Rest, Kept
<1> QED BY <1>1, <1>2, <1>3, CalmStep

LEMMA DecideRecord ==
  ASSUME IInv, RInv, NEW c \in Calls, Decide(c)
  PROVE  RStep(c)
<1> USE RFacts DEF Decide, Goto, dialog, tokens, record, process
<1>1. Rest'
  BY DEF Rest
<1>2. Calm(c)
  BY DEF Rest, Calm, Opening, Leaving
<1>3. \A d \in Calls \ {c} : Kept(d)
  BY DEF Rest, Kept
<1> QED BY <1>1, <1>2, <1>3, CalmStep

LEMMA JumpRecord ==
  ASSUME IInv, RInv, NEW c \in Calls, Jump(c)
  PROVE  RStep(c)
<1> USE RFacts DEF Jump, Goto, dialog, tokens, record, process
<1>1. Rest'
  BY DEF Rest
<1>2. Calm(c)
  BY DEF Rest, Calm, Opening, Leaving
<1>3. \A d \in Calls \ {c} : Kept(d)
  BY DEF Rest, Kept
<1> QED BY <1>1, <1>2, <1>3, CalmStep

LEMMA AnnounceRecord ==
  ASSUME IInv, RInv, NEW c \in Calls, Announce(c)
  PROVE  RStep(c)
<1> USE RFacts DEF Announce, Goto, Create, dialog, tokens, record, process
<1>1. Rest'
  BY DEF Rest
<1>2. Calm(c)
  BY DEF Rest, Calm, Opening, Leaving
<1>3. \A d \in Calls \ {c} : Kept(d)
  BY DEF Rest, Kept
<1> QED BY <1>1, <1>2, <1>3, CalmStep

LEMMA TalkRecord ==
  ASSUME IInv, RInv, NEW c \in Calls, Talk(c)
  PROVE  RStep(c)
<1> USE RFacts DEF Talk, Goto, dialog, tokens, record, process
<1>1. Rest'
  BY DEF Rest
<1>2. Calm(c)
  BY DEF Rest, Calm, Opening, Leaving
<1>3. \A d \in Calls \ {c} : Kept(d)
  BY DEF Rest, Kept
<1> QED BY <1>1, <1>2, <1>3, CalmStep

LEMMA StopSessionsRecord ==
  ASSUME IInv, RInv, NEW c \in Calls, StopSessions(c)
  PROVE  RStep(c)
<1> USE RFacts DEF StopSessions, Goto, StopLive, dialog, tokens, record, process
<1>1. Rest'
  BY DEF Rest
<1>2. Calm(c)
  BY DEF Rest, Calm, Opening, Leaving
<1>3. \A d \in Calls \ {c} : Kept(d)
  BY DEF Rest, Kept
<1> QED BY <1>1, <1>2, <1>3, CalmStep

LEMMA ByeDoneRecord ==
  ASSUME IInv, RInv, NEW c \in Calls, ByeDone(c)
  PROVE  RStep(c)
<1> USE RFacts DEF ByeDone, Goto, dialog, tokens, record, process
<1>1. Rest'
  BY DEF Rest
<1>2. Calm(c)
  BY DEF Rest, Calm, Opening, Leaving
<1>3. \A d \in Calls \ {c} : Kept(d)
  BY DEF Rest, Kept
<1> QED BY <1>1, <1>2, <1>3, CalmStep

LEMMA DropRecord ==
  ASSUME IInv, RInv, NEW c \in Calls, Drop(c)
  PROVE  RStep(c)
<1> USE RFacts DEF Drop, Goto, dialog, tokens, record, process
<1>1. Rest'
  BY DEF Rest
<1>2. Calm(c)
  BY DEF Rest, Calm, Opening, Leaving
<1>3. \A d \in Calls \ {c} : Kept(d)
  BY DEF Rest, Kept
<1> QED BY <1>1, <1>2, <1>3, CalmStep

LEMMA GuardStopRecord ==
  ASSUME IInv, RInv, NEW c \in Calls, GuardStop(c)
  PROVE  RStep(c)
<1> USE RFacts DEF GuardStop, dialog, tokens, record, process
<1>1. Rest'
  BY DEF Rest
<1>2. Calm(c)
  BY DEF Rest, Calm, Opening, Leaving
<1>3. \A d \in Calls \ {c} : Kept(d)
  BY DEF Rest, Kept
<1> QED BY <1>1, <1>2, <1>3, CalmStep

LEMMA JoinRecord ==
  ASSUME IInv, RInv, NEW c \in Calls, Join(c)
  PROVE  RStep(c)
<1> USE RFacts DEF Join, Goto, dialog, record, process
<1>1. Rest'
  BY DEF Rest
<1>2. Calm(c)
  BY DEF Rest, Calm, Opening, Leaving
<1>3. \A d \in Calls \ {c} : Kept(d)
  BY DEF Rest, Kept
<1> QED BY <1>1, <1>2, <1>3, CalmStep

LEMMA MonitorRecord ==
  ASSUME IInv, RInv, NEW c \in Calls, Monitor(c)
  PROVE  RStep(c)
<1> USE RFacts DEF Monitor, record, process
<1>1. Rest'
  BY DEF Rest
<1>2. Calm(c)
  BY DEF Rest, Calm, Opening, Leaving
<1>3. \A d \in Calls \ {c} : Kept(d)
  BY DEF Rest, Kept
<1> QED BY <1>1, <1>2, <1>3, CalmStep

LEMMA UiHangupRecord ==
  ASSUME IInv, RInv, NEW c \in Calls, UiHangup(c)
  PROVE  RStep(c)
<1> USE RFacts DEF UiHangup, dialog, record, process
<1>1. Rest'
  BY DEF Rest
<1>2. Calm(c)
  BY DEF Rest, Calm, Opening, Leaving
<1>3. \A d \in Calls \ {c} : Kept(d)
  BY DEF Rest, Kept
<1> QED BY <1>1, <1>2, <1>3, CalmStep

LEMMA FlushRecord ==
  ASSUME IInv, RInv, NEW c \in Calls, Flush(c)
  PROVE  RStep(c)
<1> USE RFacts DEF Flush, dialog, tokens, process
<1>1. Rest'
  BY DEF Rest
<1>2. Calm(c)
  BY DEF Rest, Calm, Opening, Leaving
<1>3. \A d \in Calls \ {c} : Kept(d)
  BY DEF Rest, Kept
<1> QED BY <1>1, <1>2, <1>3, CalmStep

\* The state a message derives, and what it does to the end a record shows.
LEMMA Derived ==
  /\ \A d \in Directions : DeriveState(Request(d, "BYE")) = "Terminated"
  /\ \A d \in Directions : DeriveState(Request(d, "CANCEL")) = "Terminated"
  /\ \A code \in Finals :
       DeriveState(Response("out", "INVITE", code)) \in Terminal \union {"None"}
  /\ \A code \in Responses :
       DeriveState(Response("out", "INVITE", code)) = "Failed" => code >= 300
<1>1. \A d \in Directions : DeriveState(Request(d, "BYE")) = "Terminated"
  BY DEF DeriveState, Request
<1>2. \A d \in Directions : DeriveState(Request(d, "CANCEL")) = "Terminated"
  BY DEF DeriveState, Request
<1>3. ASSUME NEW code \in Finals
      PROVE  DeriveState(Response("out", "INVITE", code)) \in Terminal \union {"None"}
  BY DEF DeriveState, Response, Terminal, Finals
<1>4. ASSUME NEW code \in 100 .. 299
      PROVE  DeriveState(Response("out", "INVITE", code)) # "Failed"
  <2> DEFINE m == Response("out", "INVITE", code)
  <2>1. m.code = code /\ m.method = "INVITE" /\ m.dir = "out"
    BY DEF Response
  <2>2. /\ code \in Nat /\ 100 <= code /\ code <= 299 /\ ~(400 <= code) /\ code # 0
        /\ code # 403 /\ code # 404 /\ code # 480 /\ code # 486 /\ code # 603
    OBVIOUS
  <2> HIDE DEF m
  <2>3. DeriveState(m) # "Failed"
    BY <2>1, <2>2 DEF DeriveState
  <2> QED BY <2>3 DEF m
<1>5. ASSUME NEW code \in Responses, DeriveState(Response("out", "INVITE", code)) = "Failed"
      PROVE  code >= 300
  <2>1. code \in Nat /\ code >= 100 /\ (code < 300 => code \in 100 .. 299)
    BY DEF Responses
  <2> QED BY <1>4, <1>5, <2>1
<1> QED BY <1>1, <1>2, <1>3, <1>5

LEMMA EndedBy ==
  ASSUME Rest, NEW c \in Calls, NEW d \in Directions, NEW m \in {"BYE", "CANCEL"},
         Inspect(c, Request(d, m))
  PROVE  /\ rec' \in [Calls -> CallState] /\ timers' \in [Calls -> Nat]
         /\ saved' \in [Calls -> BOOLEAN]
         /\ rec'[c] = "Terminated"
         /\ \A e \in Calls \ {c} : rec'[e] = rec[e]
<1>1. Request(d, m) \in Message
  BY RequestType DEF Methods
<1>2. ApplyState(rec[c], Request(d, m)) = "Terminated"
  BY Derived DEF ApplyState, Ignored, Terminal
<1>3. rec' = [rec EXCEPT ![c] = "Terminated"]
  BY <1>2 DEF Inspect
<1> QED BY <1>1, <1>3, InspectTypes DEF Rest

LEMMA InviteRecord ==
  ASSUME IInv, RInv, NEW c \in Calls, Invite(c)
  PROVE  RStep(c)
<1> USE RFacts
<1>1. Request("in", "INVITE") \in Message
  BY RequestType DEF Directions, Methods
<1>2. /\ rec' \in [Calls -> CallState] /\ timers' \in [Calls -> Nat]
      /\ saved' \in [Calls -> BOOLEAN]
  BY <1>1, InspectTypes DEF Invite
<1>3. Rest'
  BY <1>2 DEF Rest, Invite, tokens, process
<1>4. RecordOk(c)'
  <2>1. /\ pc'[c] = "setup" /\ dlg'[c] = "early" /\ out'[c] = <<>>
    BY DEF Invite, Goto, RecordOk
  <2> QED BY <2>1 DEF RecordOk, FinalLast, AllFinal, Leaving
<1>5. \A d \in Calls \ {c} : Kept(d)
  BY DEF Invite, Inspect, Goto, Kept, Rest
<1> QED BY <1>3, <1>4, <1>5 DEF RStep, Invite, process

LEMMA FinishRecord ==
  ASSUME IInv, RInv, NEW c \in Calls, Finish(c)
  PROVE  RStep(c)
<1> USE RFacts DEF Finish, Goto, dialog, tokens, process
<1>1. end[c] \in Terminal /\ (end[c] = "Failed" => AllFinal(out[c]))
  BY DEF RecordOk, Leaving
<1>2. Rest'
  BY <1>1 DEF Rest, CallState
<1>3. RecordOk(c)'
  <2>1. rec'[c] = end[c] /\ pc'[c] = "drop"
    BY DEF Rest
  <2>2. Shown(c)'
    BY <1>1, <2>1 DEF Shown
  <2>3. FinalLast(c)'
    BY DEF RecordOk, FinalLast
  <2> QED BY <2>1, <2>2, <2>3 DEF RecordOk, Opening, Leaving
<1>4. \A d \in Calls \ {c} : Kept(d)
  BY DEF Rest, Kept
<1> QED BY <1>2, <1>3, <1>4 DEF RStep

LEMMA AckRecord ==
  ASSUME IInv, RInv, NEW c \in Calls, Ack(c)
  PROVE  RStep(c)
<1> USE RFacts DEF Ack, tokens, record, process
<1>1. Rest'
  BY DEF Rest
<1>2. RecordOk(c)'
  <2>1. out'[c] = <<>> /\ dlg'[c] = "confirmed" /\ pc'[c] = pc[c] /\ end'[c] = end[c]
        /\ cfg'[c] = cfg[c]
    OBVIOUS
  <2> QED BY <2>1 DEF RecordOk, FinalLast, AllFinal
<1>3. \A d \in Calls \ {c} : Kept(d)
  BY DEF Kept
<1> QED BY <1>1, <1>2, <1>3 DEF RStep

LEMMA AppendFacts ==
  ASSUME NEW s \in Seq(Responses), NEW x \in Responses
  PROVE  /\ Len(s) \in Nat /\ Len(Append(s, x)) = Len(s) + 1
         /\ \A i \in 1 .. Len(s) : Append(s, x)[i] = s[i]
         /\ Append(s, x)[Len(s) + 1] = x
OBVIOUS

LEMMA QueueFacts ==
  ASSUME RInv, NEW c \in Calls
  PROVE  out[c] \in Seq(Responses) /\ FinalLast(c)
BY DEF RInv, Rest, RecordOk

\* A response is only queued for an early dialog, and a final one last.
LEMMA QueueOk ==
  ASSUME RInv, NEW c \in Calls, NEW code \in Responses,
         out' = [out EXCEPT ![c] = Append(@, code)],
         dlg[c] = "early", code >= 200 => dlg'[c] # "early"
  PROVE  /\ FinalLast(c)'
         /\ code >= 300 /\ AllFinal(out[c]) => AllFinal(out'[c])
<1> DEFINE s == out[c]
           t == out'[c]
<1>1. s \in Seq(Responses) /\ FinalLast(c)
  BY QueueFacts
<1>2. t = Append(s, code)
  BY DEF RInv, Rest
<1>3. /\ Len(s) \in Nat /\ Len(t) = Len(s) + 1
      /\ \A i \in 1 .. Len(s) : t[i] = s[i]
      /\ t[Len(s) + 1] = code
  BY <1>1, <1>2, AppendFacts
<1>4. \A i \in 1 .. Len(s) : ~(s[i] >= 200)
  BY <1>1 DEF FinalLast
<1>5. \A i \in 1 .. Len(t) : i \in 1 .. Len(s) \/ i = Len(s) + 1
  BY <1>3
<1>6. \A i \in 1 .. Len(t) : t[i] >= 200 => i = Len(t) /\ dlg'[c] # "early"
  BY <1>3, <1>4, <1>5
<1>7. code >= 300 /\ AllFinal(s) => AllFinal(t)
  BY <1>3, <1>5 DEF AllFinal
<1> QED BY <1>6, <1>7 DEF FinalLast

LEMMA RejectOk ==
  ASSUME IInv, RInv, NEW c \in Calls, NEW code \in Finals, Reject(c, code)
  PROVE  /\ out' \in [Calls -> Seq(Responses)] /\ event' \in [Calls -> BOOLEAN]
         /\ FinalLast(c)'
         /\ AllFinal(out[c]) => AllFinal(out'[c])
         /\ IF dlg[c] = "early" THEN dlg'[c] = "terminated" ELSE dlg'[c] = dlg[c]
         /\ dlg[c] # "early" => out'[c] = out[c]
         /\ \A d \in Calls \ {c} : out'[d] = out[d] /\ dlg'[d] = dlg[d]
<1> USE RFacts
<1>1. code \in Responses /\ code >= 300
  BY DEF Responses, Finals
<1>2. out' \in [Calls -> Seq(Responses)] /\ event' \in [Calls -> BOOLEAN]
  BY <1>1, RejectTypes
<1>3. CASE dlg[c] = "early"
  <2>1. out' = [out EXCEPT ![c] = Append(@, code)] /\ dlg' = [dlg EXCEPT ![c] = "terminated"]
    BY <1>3 DEF Reject
  <2>2. dlg'[c] = "terminated"
    BY <2>1
  <2>3. FinalLast(c)' /\ (AllFinal(out[c]) => AllFinal(out'[c]))
    BY <1>1, <1>3, <2>1, <2>2, QueueOk
  <2>4. \A d \in Calls \ {c} : out'[d] = out[d] /\ dlg'[d] = dlg[d]
    BY <2>1 DEF Rest
  <2> QED BY <1>2, <1>3, <2>2, <2>3, <2>4
<1>4. CASE dlg[c] # "early"
  <2>1. out' = out /\ dlg' = dlg
    BY <1>4 DEF Reject, dialog
  <2> QED BY <1>2, <1>4, <2>1 DEF RecordOk, FinalLast
<1> QED BY <1>3, <1>4

LEMMA AlertOk ==
  ASSUME IInv, RInv, NEW c \in Calls, NEW code \in {180, 183}, Alerted(c, code)
  PROVE  /\ out' \in [Calls -> Seq(Responses)]
         /\ dlg' = dlg /\ event' = event
         /\ FinalLast(c)'
         /\ dlg[c] # "early" => out'[c] = out[c]
         /\ \A d \in Calls \ {c} : out'[d] = out[d]
<1> USE RFacts
<1>1. code \in Responses /\ ~(code >= 200)
  BY DEF Responses
<1>2. out' \in [Calls -> Seq(Responses)] /\ dlg' = dlg /\ event' = event
  <2>1. out' \in [Calls -> Seq(Responses)]
    BY <1>1, AlertTypes
  <2> QED BY <2>1 DEF Alerted
<1>3. CASE dlg[c] = "early"
  <2>1. out' = [out EXCEPT ![c] = Append(@, code)]
    BY <1>3 DEF Alerted
  <2>2. FinalLast(c)'
    BY <1>1, <1>3, <2>1, QueueOk
  <2>3. \A d \in Calls \ {c} : out'[d] = out[d]
    BY <2>1 DEF Rest
  <2> QED BY <1>2, <1>3, <2>2, <2>3
<1>4. CASE dlg[c] # "early"
  <2>1. out' = out
    BY <1>4 DEF Alerted
  <2> QED BY <1>2, <1>4, <2>1 DEF RecordOk, FinalLast
<1> QED BY <1>3, <1>4

-----------------------------------------------------------------------------
LEMMA ScreenRecord ==
  ASSUME IInv, RInv, NEW c \in Calls, Screen(c)
  PROVE  RStep(c)
<1> USE RFacts
<1>1. ASSUME NEW code \in Codes(c), Reject(c, code), Goto(c, "finish"),
             end' = [end EXCEPT ![c] = "Rejected"]
      PROVE  RStep(c)
  <2>1. code \in Finals
    BY CodeTypes
  <2>2. /\ out' \in [Calls -> Seq(Responses)] /\ event' \in [Calls -> BOOLEAN]
        /\ FinalLast(c)'
        /\ \A d \in Calls \ {c} : out'[d] = out[d] /\ dlg'[d] = dlg[d]
    BY <2>1, <1>1, RejectOk
  <2>3. Rest'
    BY <2>2, <1>1 DEF Rest, Screen, tokens, record, process, Terminal
  <2>4. pc'[c] = "finish" /\ end'[c] = "Rejected"
    BY <1>1 DEF Goto, Rest
  <2>5. RecordOk(c)'
    BY <2>2, <2>4 DEF RecordOk, Opening, Leaving, Terminal
  <2>6. \A d \in Calls \ {c} : Kept(d)
    BY <2>2, <1>1 DEF Screen, Goto, Kept, Rest, record
  <2> QED BY <2>3, <2>5, <2>6 DEF RStep, Screen, process
<1>2. ASSUME pc[c] = "screen", Goto(c, "media"), UNCHANGED <<end, dialog>>
      PROVE  RStep(c)
  <2> USE <1>2 DEF Screen, Goto, dialog, tokens, record, process
  <2>1. Rest'
    BY DEF Rest
  <2>2. Calm(c)
    BY DEF Calm, Opening, Leaving
  <2>3. \A d \in Calls \ {c} : Kept(d)
    BY DEF Kept
  <2> QED BY <2>1, <2>2, <2>3, CalmStep
<1> QED BY <1>1, <1>2 DEF Screen

LEMMA MediaRecord ==
  ASSUME IInv, RInv, NEW c \in Calls, Media(c)
  PROVE  RStep(c)
<1> USE RFacts
<1>1. ASSUME Reject(c, 480), Goto(c, "finish"), end' = [end EXCEPT ![c] = "Failed"]
      PROVE  RStep(c)
  <2>1. AllFinal(out[c])
    BY DEF Media, RecordOk, Opening
  <2>2. /\ out' \in [Calls -> Seq(Responses)] /\ event' \in [Calls -> BOOLEAN]
        /\ FinalLast(c)' /\ AllFinal(out'[c])
        /\ \A d \in Calls \ {c} : out'[d] = out[d] /\ dlg'[d] = dlg[d]
    <3> DEFINE code == 480
    <3>1. code \in Finals /\ Reject(c, code)
      BY <1>1 DEF Finals
    <3> HIDE DEF code
    <3>2. AllFinal(out'[c])
      BY <3>1, <2>1, RejectOk
    <3>3. FinalLast(c)' /\ \A d \in Calls \ {c} : out'[d] = out[d] /\ dlg'[d] = dlg[d]
      BY <3>1, RejectOk
    <3>4. out' \in [Calls -> Seq(Responses)] /\ event' \in [Calls -> BOOLEAN]
      BY <3>1, RejectOk
    <3> QED BY <3>2, <3>3, <3>4
  <2>3. Rest'
    BY <2>2, <1>1 DEF Rest, Media, tokens, record, process, Terminal
  <2>4. pc'[c] = "finish" /\ end'[c] = "Failed"
    BY <1>1 DEF Goto, Rest
  <2>5. RecordOk(c)'
    BY <2>2, <2>4 DEF RecordOk, Opening, Leaving, Terminal
  <2>6. \A d \in Calls \ {c} : Kept(d)
    BY <2>2, <1>1 DEF Media, Goto, Kept, Rest, record
  <2> QED BY <2>3, <2>5, <2>6 DEF RStep, Media, process
<1>2. ASSUME Goto(c, "tone"), UNCHANGED <<end, dialog>>
      PROVE  RStep(c)
  <2> USE <1>2 DEF Media, Goto, dialog, tokens, record, process
  <2>1. Rest'
    BY DEF Rest
  <2>2. Calm(c)
    BY DEF Calm, Opening, Leaving
  <2>3. \A d \in Calls \ {c} : Kept(d)
    BY DEF Kept
  <2> QED BY <2>1, <2>2, <2>3, CalmStep
<1> QED BY <1>1, <1>2 DEF Media

\* A stage that plays goes on to a later one, to the reject stage only with a
\* code to reject with.
LEMMA PlayRecord ==
  ASSUME IInv, RInv, NEW c \in Calls, NEW s \in {"tone", "early", "ring"},
         NEW code \in {0, 180, 183}, NEW next \in {"early", "ring", "decide", "reject"},
         next = "reject" => cfg[c].reject # 0, Played(c, s, code, next)
  PROVE  RStep(c)
<1> USE RFacts
<1>1. /\ pc[c] = s
      /\ UNCHANGED <<cfg, end, tokens, said, record, media, dropped, process>>
      /\ UNCHANGED dialog \/ (code # 0 /\ Alerted(c, code))
      /\ pc' \in {pc, [pc EXCEPT ![c] = next], [pc EXCEPT ![c] = "drop"]}
      /\ playing' \in {playing, [playing EXCEPT ![c] = TRUE], [playing EXCEPT ![c] = FALSE]}
  BY DEF Played
<1>2. playing' \in [Calls -> BOOLEAN]
  <2>1. \/ playing' = playing \/ playing' = [playing EXCEPT ![c] = TRUE]
        \/ playing' = [playing EXCEPT ![c] = FALSE]
    BY <1>1
  <2>2. playing \in [Calls -> BOOLEAN]
    BY DEF Rest
  <2>3. CASE playing' = [playing EXCEPT ![c] = TRUE]
    BY ONLY <2>2, <2>3
  <2>4. CASE playing' = [playing EXCEPT ![c] = FALSE]
    BY ONLY <2>2, <2>4
  <2> QED BY <2>1, <2>2, <2>3, <2>4
<1>3. /\ pc'[c] \in {"tone", "early", "ring", "decide", "reject", "drop"}
      /\ pc'[c] = "reject" => cfg[c].reject # 0
      /\ \A d \in Calls \ {c} : pc'[d] = pc[d]
  BY <1>1
<1>4. UNCHANGED <<cfg, end, rec, bot>>
  BY <1>1 DEF record, process
<1>5. CASE UNCHANGED dialog
  <2>1. Rest'
    BY <1>1, <1>2, <1>5 DEF Rest, dialog, tokens, record, process
  <2>2. Calm(c)
    BY <1>1, <1>3, <1>4, <1>5 DEF Calm, Opening, Leaving, dialog
  <2>3. \A d \in Calls \ {c} : Kept(d)
    BY <1>3, <1>4, <1>5 DEF Kept, dialog
  <2> QED BY <1>4, <2>1, <2>2, <2>3, CalmStep
<1>6. CASE code # 0 /\ Alerted(c, code)
  <2>1. code \in {180, 183}
    BY <1>6
  <2>2. /\ out' \in [Calls -> Seq(Responses)]
        /\ dlg' = dlg /\ event' = event
        /\ FinalLast(c)'
        /\ dlg[c] # "early" => out'[c] = out[c]
        /\ \A d \in Calls \ {c} : out'[d] = out[d]
    BY <2>1, <1>6, AlertOk
  <2>3. Rest'
    BY <2>2, <1>1, <1>2 DEF Rest, tokens, record, process
  <2>4. dlg'[c] = "terminated" /\ bot' # "closed" => Shown(c)'
    BY <1>1, <1>4, <2>2 DEF RecordOk, Leaving, Shown
  <2>5. RecordOk(c)'
    BY <1>3, <1>4, <2>2, <2>4 DEF RecordOk, Opening, Leaving
  <2>6. \A d \in Calls \ {c} : Kept(d)
    BY <1>3, <1>4, <2>2 DEF Kept
  <2> QED BY <1>4, <2>3, <2>5, <2>6 DEF RStep
<1> QED BY <1>1, <1>5, <1>6

LEMMA ToneRecord ==
  ASSUME IInv, RInv, NEW c \in Calls, Tone(c)
  PROVE  RStep(c)
<1>1. ToneCode(c) \in {0, 180, 183}
  BY CodeTypes
<1>2. CASE HasTone(c)
  <2>1. Played(c, "tone", ToneCode(c), "reject")
    BY <1>2 DEF Tone, Play, Played, Alert, Alerted, Goto, dialog
  <2>2. cfg[c].reject # 0
    BY <1>2 DEF HasTone
  <2> QED BY <1>1, <2>1, <2>2, PlayRecord
<1>3. CASE ~HasTone(c)
  <2>1. Played(c, "tone", ToneCode(c), "early")
    BY <1>3 DEF Tone, Play, Played, Alert, Alerted, Goto, dialog
  <2> QED BY <1>1, <2>1, PlayRecord
<1> QED BY <1>2, <1>3

LEMMA EarlyRecord ==
  ASSUME IInv, RInv, NEW c \in Calls, Early(c)
  PROVE  RStep(c)
<1>1. EarlyCode(c) \in {0, 180, 183}
  BY CodeTypes
<1>2. Played(c, "early", EarlyCode(c), "ring")
  BY DEF Early, Play, Played, Alert, Alerted, Goto, dialog
<1> QED BY <1>1, <1>2, PlayRecord

LEMMA RingRecord ==
  ASSUME IInv, RInv, NEW c \in Calls, Ring(c)
  PROVE  RStep(c)
<1>1. RingCode(c) \in {0, 180, 183}
  BY CodeTypes
<1>2. Played(c, "ring", RingCode(c), "decide")
  BY DEF Ring, Play, Played, Alert, Alerted, Goto, dialog
<1> QED BY <1>1, <1>2, PlayRecord

LEMMA AcceptRecord ==
  ASSUME IInv, RInv, NEW c \in Calls, Accept(c)
  PROVE  RStep(c)
<1> USE RFacts
<1>1. UNCHANGED <<cfg, end, rec, bot>>
  BY DEF Accept, record, process
<1>2. CASE dlg[c] = "early"
  <2>1. /\ out' = [out EXCEPT ![c] = Append(@, 200)]
        /\ dlg' = [dlg EXCEPT ![c] = "accepted"]
        /\ event' = event /\ pc' = [pc EXCEPT ![c] = "announce"]
    BY <1>2 DEF Accept, Goto
  <2>2. dlg'[c] = "accepted" /\ pc'[c] = "announce"
    BY <2>1
  <2>3. out' \in [Calls -> Seq(Responses)] /\ FinalLast(c)'
    <3> DEFINE code == 200
    <3>1. code \in Responses /\ out' = [out EXCEPT ![c] = Append(@, code)]
      BY <2>1 DEF Responses
    <3> HIDE DEF code
    <3>2. out' \in [Calls -> Seq(Responses)]
      BY <3>1, AppendType
    <3>3. FinalLast(c)'
      BY <3>1, <1>2, <2>2, QueueOk
    <3> QED BY <3>2, <3>3
  <2>4. Rest'
    BY <2>1, <2>3 DEF Rest, Accept, tokens, record, process
  <2>5. RecordOk(c)'
    BY <2>2, <2>3 DEF RecordOk, Opening, Leaving
  <2>6. \A d \in Calls \ {c} : Kept(d)
    BY <1>1, <2>1 DEF Kept, Rest
  <2> QED BY <1>1, <2>4, <2>5, <2>6 DEF RStep
<1>3. CASE dlg[c] # "early"
  <2>1. UNCHANGED dialog /\ \E s \in {"announce", "drop"} : pc' = [pc EXCEPT ![c] = s]
    BY <1>3 DEF Accept, Goto
  <2>2. Rest'
    BY <2>1 DEF Rest, Accept, dialog, tokens, record, process
  <2>3. Calm(c)
    BY <1>1, <2>1 DEF Accept, Calm, Opening, Leaving, dialog
  <2>4. \A d \in Calls \ {c} : Kept(d)
    BY <1>1, <2>1 DEF Kept, dialog
  <2> QED BY <1>1, <2>2, <2>3, <2>4, CalmStep
<1> QED BY <1>2, <1>3

\* A rejection that the record is to show, with the reject stage's code or
\* with that of a stop.
LEMMA RejectRecord ==
  ASSUME IInv, RInv, NEW c \in Calls, NEW code \in Finals,
         NEW state \in {"Rejected", "Terminated"}, RejectWith(c, code, state)
  PROVE  RStep(c)
<1> USE RFacts
<1>1. /\ out' \in [Calls -> Seq(Responses)] /\ event' \in [Calls -> BOOLEAN]
      /\ FinalLast(c)'
      /\ \A d \in Calls \ {c} : out'[d] = out[d] /\ dlg'[d] = dlg[d]
  <2>1. Reject(c, code)
    BY DEF RejectWith
  <2>2. out' \in [Calls -> Seq(Responses)] /\ event' \in [Calls -> BOOLEAN]
    BY <2>1, RejectOk
  <2>3. FinalLast(c)' /\ \A d \in Calls \ {c} : out'[d] = out[d] /\ dlg'[d] = dlg[d]
    BY <2>1, RejectOk
  <2> QED BY <2>2, <2>3
<1>2. Rest'
  BY <1>1 DEF Rest, RejectWith, tokens, record, process, Terminal
<1>3. pc'[c] = "release" /\ end'[c] = state
  BY DEF RejectWith, Goto, Rest
<1>4. RecordOk(c)'
  BY <1>1, <1>3 DEF RecordOk, Opening, Leaving, Terminal
<1>5. \A d \in Calls \ {c} : Kept(d)
  BY <1>1 DEF RejectWith, Goto, Kept, Rest, record
<1> QED BY <1>2, <1>4, <1>5 DEF RStep, RejectWith, process

LEMMA RejectAfterToneRecord ==
  ASSUME IInv, RInv, NEW c \in Calls, RejectAfterTone(c)
  PROVE  RStep(c)
<1>1. cfg[c].reject \in Finals
  <2>1. cfg[c].reject # 0
    BY RFacts DEF RejectAfterTone, RecordOk
  <2> QED BY <2>1, CodeTypes
<1>2. RejectWith(c, cfg[c].reject, "Rejected")
  BY DEF RejectAfterTone
<1> QED BY <1>1, <1>2, RejectRecord

LEMMA RejectStoppedRecord ==
  ASSUME IInv, RInv, NEW c \in Calls, RejectStopped(c)
  PROVE  RStep(c)
<1> DEFINE code == 486
<1>1. code \in Finals /\ RejectWith(c, code, "Terminated")
  BY DEF RejectStopped, Finals
<1> HIDE DEF code
<1> QED BY <1>1, RejectRecord

\* A BYE, from this side or the other, ends the call in its record as well.
LEMMA ByeRecord ==
  ASSUME IInv, RInv, NEW c \in Calls, NEW next \in {"stop", "drop"},
         pc[c] \in {"uibye", "bye"}, Bye(c, next),
         UNCHANGED <<cfg, playing, end, tokens, media, dropped, process>>
  PROVE  RStep(c)
<1> USE RFacts
<1>1. CASE UNCHANGED <<dialog, record>> /\ Goto(c, next)
  <2> USE <1>1 DEF Goto, dialog, tokens, record, process
  <2>1. Rest'
    BY DEF Rest
  <2>2. Calm(c)
    BY DEF Calm, Opening, Leaving
  <2>3. \A d \in Calls \ {c} : Kept(d)
    BY DEF Kept
  <2> QED BY <2>1, <2>2, <2>3, CalmStep
<1>2. ASSUME IF bot # "closed" THEN Inspect(c, Request("out", "BYE"))
                               ELSE UNCHANGED record,
             dlg' = [dlg EXCEPT ![c] = "terminated"],
             event' = [event EXCEPT ![c] = TRUE],
             Goto(c, "closing"), UNCHANGED out,
             dlg[c] \in {"accepted", "confirmed"}
      PROVE  RStep(c)
  <2>1. /\ rec' \in [Calls -> CallState] /\ timers' \in [Calls -> Nat]
        /\ saved' \in [Calls -> BOOLEAN]
        /\ bot # "closed" => rec'[c] = "Terminated"
        /\ \A d \in Calls \ {c} : rec'[d] = rec[d]
    <3>1. CASE bot # "closed"
      BY <1>2, <3>1, EndedBy DEF Directions
    <3>2. CASE bot = "closed"
      BY <1>2, <3>2 DEF record, Rest
    <3> QED BY <3>1, <3>2
  <2>2. /\ pc'[c] = "closing" /\ dlg'[c] = "terminated" /\ out' = out /\ bot' = bot
        /\ cfg' = cfg /\ end' = end
        /\ \A d \in Calls \ {c} : pc'[d] = pc[d] /\ dlg'[d] = dlg[d]
    BY <1>2 DEF Goto, process
  <2>3. event' \in [Calls -> BOOLEAN]
    BY <1>2 DEF Rest
  <2>4. Rest'
    BY <2>1, <2>2, <2>3 DEF Rest, tokens, process
  <2>5. FinalLast(c)'
    BY <2>2 DEF RecordOk, FinalLast
  <2>6. RecordOk(c)'
    BY <2>1, <2>2, <2>5 DEF RecordOk, Opening, Leaving, Shown, Terminal
  <2>7. \A d \in Calls \ {c} : Kept(d)
    BY <2>1, <2>2 DEF Kept
  <2> QED BY <2>2, <2>4, <2>6, <2>7 DEF RStep
<1> QED BY <1>1, <1>2 DEF Bye

LEMMA HangUpRecord ==
  ASSUME IInv, RInv, NEW c \in Calls, HangUp(c)
  PROVE  RStep(c)
BY ByeRecord DEF HangUp

LEMMA SayByeRecord ==
  ASSUME IInv, RInv, NEW c \in Calls, SayBye(c)
  PROVE  RStep(c)
<1>1. CASE cfg[c].mode = "remote"
  <2> USE <1>1, RFacts DEF SayBye, Goto, dialog, tokens, record, process
  <2>1. Rest'
    BY DEF Rest
  <2>2. Calm(c)
    BY DEF Calm, Opening, Leaving
  <2>3. \A d \in Calls \ {c} : Kept(d)
    BY DEF Kept
  <2> QED BY <2>1, <2>2, <2>3, CalmStep
<1>2. CASE cfg[c].mode # "remote"
  BY <1>2, ByeRecord DEF SayBye
<1> QED BY <1>1, <1>2

-----------------------------------------------------------------------------
LEMMA TailFacts ==
  ASSUME NEW S, NEW s \in Seq(S), s # <<>>
  PROVE  /\ Len(s) \in Nat /\ Len(s) >= 1 /\ Head(s) = s[1] /\ s[1] \in S
         /\ Tail(s) \in Seq(S) /\ Len(Tail(s)) = Len(s) - 1
         /\ \A i \in 1 .. Len(Tail(s)) : Tail(s)[i] = s[i + 1]
         /\ Len(s) = 1 => Tail(s) = <<>>
<1>1. Len(s) \in Nat /\ Len(s) >= 1 /\ Head(s) = s[1] /\ s[1] \in S
  BY EmptySeq, SMT
<1>2. /\ Tail(s) \in Seq(S) /\ Len(Tail(s)) = Len(s) - 1
      /\ \A i \in 1 .. Len(Tail(s)) : Tail(s)[i] = s[i + 1]
  BY HeadTailProperties
<1>3. Tail(s) # <<>> => Len(Tail(s)) \in Nat \ {0}
  BY <1>2, EmptySeq
<1> QED BY <1>1, <1>2, <1>3

\* Taking a response from the queue keeps the rest in order; what follows a
\* final response is nothing.
LEMMA TailOk ==
  ASSUME IInv, RInv, NEW c \in Calls, Send(c)
  PROVE  /\ out' \in [Calls -> Seq(Responses)]
         /\ Head(out[c]) \in Responses
         /\ FinalLast(c)'
         /\ AllFinal(out[c]) => AllFinal(out'[c]) /\ Head(out[c]) >= 300
         /\ Head(out[c]) >= 200 => out'[c] = <<>>
         /\ \A d \in Calls \ {c} : out'[d] = out[d]
<1> DEFINE s == out[c]
           t == out'[c]
<1>1. s \in Seq(Responses) /\ FinalLast(c) /\ s # <<>>
  BY QueueFacts DEF Send
<1>2. out' = [out EXCEPT ![c] = Tail(@)] /\ dlg' = dlg
  BY DEF Send
<1>3. t = Tail(s)
  BY <1>2 DEF RInv, Rest
<1>4. /\ Len(s) \in Nat /\ Len(s) >= 1 /\ Head(s) = s[1] /\ s[1] \in Responses
      /\ t \in Seq(Responses) /\ Len(t) = Len(s) - 1
      /\ \A i \in 1 .. Len(t) : t[i] = s[i + 1]
      /\ Len(s) = 1 => t = <<>>
  <2>1. /\ Len(s) \in Nat /\ Len(s) >= 1 /\ Head(s) = s[1] /\ s[1] \in Responses
        /\ Tail(s) \in Seq(Responses) /\ Len(Tail(s)) = Len(s) - 1
        /\ \A i \in 1 .. Len(Tail(s)) : Tail(s)[i] = s[i + 1]
        /\ Len(s) = 1 => Tail(s) = <<>>
    <3> HIDE DEF s, t
    <3> QED BY <1>1, TailFacts
  <2> HIDE DEF s, t
  <2> QED BY <1>3, <2>1
<1>5. out' \in [Calls -> Seq(Responses)]
  BY <1>2, <1>3, <1>4 DEF RInv, Rest
<1>6. \A i \in 1 .. Len(t) : i + 1 \in 1 .. Len(s) /\ (i + 1 = Len(s) => i = Len(t))
  BY <1>4
<1>7. \A i \in 1 .. Len(t) : t[i] >= 200 => i = Len(t) /\ dlg'[c] # "early"
  BY <1>1, <1>2, <1>4, <1>6 DEF FinalLast
<1>8. AllFinal(s) => AllFinal(t) /\ s[1] >= 300
  <2>1. 1 \in 1 .. Len(s)
    BY <1>4
  <2> QED BY <1>4, <1>6, <2>1 DEF AllFinal
<1>9. s[1] >= 200 => t = <<>>
  <2>1. 1 \in 1 .. Len(s)
    BY <1>4
  <2> QED BY <1>1, <1>4, <2>1 DEF FinalLast
<1>10. \A d \in Calls \ {c} : out'[d] = out[d]
  BY <1>2 DEF RInv, Rest
<1>11. FinalLast(c)'
  BY <1>7 DEF FinalLast
<1> QED BY <1>4, <1>5, <1>8, <1>9, <1>10, <1>11

LEMMA SendRecord ==
  ASSUME IInv, RInv, NEW c \in Calls, Send(c)
  PROVE  RStep(c)
<1> USE RFacts
<1> DEFINE h == Head(out[c])
           m == Response("out", "INVITE", h)
<1>1. /\ out' \in [Calls -> Seq(Responses)]
      /\ h \in Responses
      /\ FinalLast(c)'
      /\ AllFinal(out[c]) => AllFinal(out'[c]) /\ h >= 300
      /\ h >= 200 => out'[c] = <<>>
      /\ \A d \in Calls \ {c} : out'[d] = out[d]
  BY TailOk
<1>2. m \in Message
  BY <1>1 DEF Response, Responses, Message, Directions, Methods
<1>3. Inspect(c, m)
  BY DEF Send
<1>4. UNCHANGED <<cfg, pc, playing, end, dlg, event, tokens, said, media, dropped, process>>
  BY DEF Send
<1>5. /\ h >= 300 => DeriveState(m) \in Terminal \union {"None"}
      /\ DeriveState(m) = "Failed" => h >= 300
  <2>1. h \in Responses
    BY <1>1
  <2> HIDE DEF h
  <2>2. h >= 300 => h \in Finals
    BY <2>1 DEF Responses, Finals
  <2> QED BY <2>1, <2>2, Derived
<1> HIDE DEF m, h
<1>6. rec' = [rec EXCEPT ![c] = ApplyState(@, m)]
  BY <1>3 DEF Inspect
<1>7. Rest'
  BY <1>1, <1>2, <1>3, <1>4, InspectTypes DEF Rest, tokens, process
<1>8. out[c] # <<>>
  BY DEF Send
<1>9. Shown(c) => Shown(c)'
  <2> SUFFICES ASSUME Shown(c) PROVE Shown(c)'
    OBVIOUS
  <2>1. rec'[c] = ApplyState(rec[c], m)
    BY <1>6 DEF Rest
  <2>2. CASE Ignored(rec[c], m)
    <3>1. rec'[c] = rec[c]
      BY <2>1, <2>2 DEF ApplyState
    <3> QED BY <3>1, <1>1 DEF Shown
  <2>3. CASE ~Ignored(rec[c], m)
    <3>1. rec'[c] = DeriveState(m)
      BY <2>1, <2>3 DEF ApplyState
    <3>2. DeriveState(m) \in Terminal
      <4>1. CASE rec[c] \in Past
        BY <2>3, <4>1 DEF Ignored
      <4>2. CASE rec[c] = "Failed"
        <5>1. h >= 300
          BY <1>1, <4>2 DEF Shown
        <5> QED BY <5>1, <1>5, <2>3 DEF Ignored
      <4> QED BY <4>1, <4>2 DEF Shown, Terminal, Past
    <3>3. rec'[c] = "Failed" => AllFinal(out'[c])
      <4> SUFFICES ASSUME rec'[c] = "Failed" PROVE AllFinal(out'[c])
        OBVIOUS
      <4>1. h >= 300
        BY <3>1, <1>5
      <4>2. h >= 200
        <5>1. h \in Responses
          BY <1>1
        <5> QED BY ONLY <4>1, <5>1 DEF Responses
      <4>3. out'[c] = <<>>
        BY <4>2, <1>1
      <4> QED BY <4>3 DEF AllFinal
    <3> QED BY <3>1, <3>2, <3>3 DEF Shown
  <2> QED BY <2>2, <2>3
<1>10. RecordOk(c)'
  <2>1. pc'[c] = pc[c] /\ end'[c] = end[c] /\ dlg'[c] = dlg[c] /\ cfg'[c] = cfg[c] /\ bot' = bot
    BY <1>4 DEF process
  <2> QED BY <1>1, <1>8, <1>9, <2>1 DEF RecordOk
<1>11. \A d \in Calls \ {c} : Kept(d)
  BY <1>1, <1>4, <1>6 DEF Kept, Rest
<1> QED BY <1>4, <1>7, <1>10, <1>11 DEF RStep, process

LEMMA CancelRecord ==
  ASSUME IInv, RInv, NEW c \in Calls, Cancel(c)
  PROVE  RStep(c)
<1> USE RFacts
<1>1. /\ rec' \in [Calls -> CallState] /\ timers' \in [Calls -> Nat]
      /\ saved' \in [Calls -> BOOLEAN]
      /\ rec'[c] = "Terminated"
      /\ \A d \in Calls \ {c} : rec'[d] = rec[d]
  BY EndedBy DEF Cancel, Directions
<1>2. UNCHANGED <<cfg, pc, playing, end, tokens, said, media, dropped, process>>
  BY DEF Cancel
<1> DEFINE code == 487
<1>3. code \in Finals /\ Reject(c, code)
  BY DEF Cancel, Finals
<1> HIDE DEF code
<1>4. out' \in [Calls -> Seq(Responses)] /\ event' \in [Calls -> BOOLEAN]
  BY <1>3, RejectOk
<1>5. FinalLast(c)' /\ (AllFinal(out[c]) => AllFinal(out'[c]))
  BY <1>3, RejectOk
<1>6. /\ dlg[c] # "early" => out'[c] = out[c]
      /\ \A d \in Calls \ {c} : out'[d] = out[d] /\ dlg'[d] = dlg[d]
  BY <1>3, RejectOk
<1>7. Rest'
  BY <1>1, <1>2, <1>4 DEF Rest, tokens, process
<1>8. RecordOk(c)'
  <2>1. pc'[c] = pc[c] /\ end'[c] = end[c] /\ cfg'[c] = cfg[c]
    BY <1>2
  <2>2. Shown(c)'
    BY <1>1 DEF Shown, Terminal
  <2>3. pc[c] # "none"
    BY DEF Cancel, DialogOk
  <2>4. (pc[c] \in Leaving /\ end[c] = "Failed") => AllFinal(out'[c])
    BY <1>5 DEF RecordOk
  <2> QED BY <1>5, <2>1, <2>2, <2>3, <2>4 DEF RecordOk
<1>9. \A d \in Calls \ {c} : Kept(d)
  BY <1>1, <1>2, <1>6 DEF Kept
<1> QED BY <1>2, <1>7, <1>8, <1>9 DEF RStep, process

LEMMA RemoteByeRecord ==
  ASSUME IInv, RInv, NEW c \in Calls, RemoteBye(c)
  PROVE  RStep(c)
<1> USE RFacts
<1>1. /\ rec' \in [Calls -> CallState] /\ timers' \in [Calls -> Nat]
      /\ saved' \in [Calls -> BOOLEAN]
      /\ rec'[c] = "Terminated"
      /\ \A d \in Calls \ {c} : rec'[d] = rec[d]
  BY EndedBy DEF RemoteBye, Directions
<1>2. UNCHANGED <<cfg, pc, playing, end, out, tokens, said, media, dropped, process>>
  BY DEF RemoteBye
<1>3. /\ event' \in [Calls -> BOOLEAN]
      /\ dlg'[c] # "early"
      /\ \A d \in Calls \ {c} : dlg'[d] = dlg[d]
  <2>1. CASE bot = "listen"
    <3>1. dlg' = [dlg EXCEPT ![c] = "terminated"] /\ event' = [event EXCEPT ![c] = TRUE]
      BY <2>1 DEF RemoteBye
    <3>2. event' \in [Calls -> BOOLEAN]
      BY <3>1 DEF Rest
    <3> QED BY <3>1, <3>2
  <2>2. CASE bot # "listen"
    <3>1. dlg' = dlg /\ event' = event /\ dlg[c] = "confirmed"
      BY <2>2 DEF RemoteBye
    <3> QED BY <3>1 DEF Rest
  <2> QED BY <2>1, <2>2
<1>4. Rest'
  BY <1>1, <1>2, <1>3 DEF Rest, tokens, process
<1>5. RecordOk(c)'
  <2>1. Shown(c)'
    BY <1>1 DEF Shown, Terminal
  <2>2. FinalLast(c)'
    BY <1>2, <1>3 DEF RecordOk, FinalLast
  <2> QED BY <1>2, <2>1, <2>2 DEF RecordOk, Leaving, Opening
<1>6. \A d \in Calls \ {c} : Kept(d)
  BY <1>1, <1>2, <1>3 DEF Kept
<1> QED BY <1>2, <1>4, <1>5, <1>6 DEF RStep, process

-----------------------------------------------------------------------------
LEMMA TaskRecord ==
  ASSUME IInv, RInv, NEW c \in Calls, Task(c)
  PROVE  RStep(c)
BY SetupRecord, ScreenRecord, MediaRecord, ToneRecord, EarlyRecord, RingRecord,
   RejectAfterToneRecord, RejectStoppedRecord, ReleaseRecord, FinishRecord,
   DecideRecord, JumpRecord, AcceptRecord, AnnounceRecord, TalkRecord,
   StopSessionsRecord, HangUpRecord, SayByeRecord, ByeDoneRecord, DropRecord,
   JoinRecord DEF Task

LEMMA NextRecord == IInv /\ RInv /\ [Next]_vars => RInv'
<1> SUFFICES ASSUME IInv, RInv, [Next]_vars PROVE RInv'
  OBVIOUS
<1>1. ASSUME NEW c \in Calls,
             \/ Invite(c) \/ Task(c) \/ GuardStop(c) \/ Monitor(c)
             \/ Send(c) \/ Flush(c) \/ UiHangup(c)
             \/ Cancel(c) \/ Ack(c) \/ RemoteBye(c)
      PROVE  RInv'
  <2>1. RStep(c)
    BY <1>1, InviteRecord, TaskRecord, GuardStopRecord, MonitorRecord, SendRecord,
       FlushRecord, UiHangupRecord, CancelRecord, AckRecord, RemoteByeRecord
  <2> QED BY <2>1, RStepInv
<1>2. ASSUME Stop \/ EndListen \/ Close \/ UNCHANGED vars
      PROVE  RInv'
  <2>1. UNCHANGED <<cfg, pc, end, dlg, out, rec>>
    BY <1>2 DEF Stop, EndListen, Close, vars, dialog, record
  <2>2. bot' # "closed" => bot # "closed"
    BY <1>2 DEF Stop, EndListen, Close, vars, process
  <2>3. Rest'
    <3>1. UNCHANGED <<playing, end, out, event, token, control, rec, timers, saved>>
      BY <1>2 DEF Stop, EndListen, Close, vars, dialog, tokens, record
    <3>2. stop' \in BOOLEAN /\ late' \in BOOLEAN
      BY <1>2 DEF RInv, Rest, Stop, EndListen, Close, vars, process
    <3>3. bot' \in {"listen", "drain", "closed"}
      BY <1>2 DEF RInv, Rest, Stop, EndListen, Close, vars, process
    <3> QED BY <3>1, <3>2, <3>3 DEF RInv, Rest
  <2>4. \A c \in Calls : Kept(c)
    BY <2>1 DEF Kept
  <2> QED BY <2>2, <2>3, <2>4, KeptOk DEF RInv
<1> QED BY <1>1, <1>2 DEF Next

\* A dialog that is over and has nothing left to send shows as ended in its
\* record, for any number of calls and any configurations.
THEOREM RecordShowsEnd == Spec => []RecordEnds
<1>1. RInv => RecordEnds
  BY DEF RInv, RecordOk, RecordEnds, Shown, Leaving
<1> QED
  BY <1>1, Inductive, InitRInv, NextRecord, PTL DEF Spec

\* Every variable has its type, whatever the calls and the configurations.
THEOREM TypeCorrect == Spec => []TypeOK
<1>1. IInv /\ RInv => TypeOK
  BY DEF IInv, Types, RInv, Rest, Responses, TypeOK
<1> QED
  BY <1>1, Inductive, InitRInv, NextRecord, PTL DEF Spec

=============================================================================

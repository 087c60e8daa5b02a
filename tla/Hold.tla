-------------------------------- MODULE Hold --------------------------------
(***************************************************************************)
(* Hold and resume (README.md "Hold/Resume (Re-INVITE) Testing").  Callers *)
(* are sipbots whose make_call runs a re-INVITE flow; the calls come in to *)
(* one bot, whose listen loop answers their re-INVITEs one by one          *)
(* (src/sip.rs, handle_reinvite).                                          *)
(*                                                                         *)
(* The bot knows one media session, current_media_session: that of the     *)
(* call which last made one.  A call sends through one session, and        *)
(* through two after a stream jump: the new one plays and the old one      *)
(* echoes into it, each under a flag of its own (audio_silent).            *)
(*                                                                         *)
(* Messages of one dialog arrive in order; those of different calls in any *)
(* order.  A caller may give a re-INVITE up that the bot still handles.    *)
(***************************************************************************)
EXTENDS Naturals, Sequences

CONSTANTS
  Calls,    \* the calls that come in
  Flow,     \* call -> the re-INVITEs of its caller, "hold" or "resume"
  Jump      \* call -> "none", "answer" (sdp_jump) or "announce" (jump_after)

ASSUME HoldAssumption ==
  /\ Flow \in [Calls -> Seq({"hold", "resume"})]
  /\ Jump \in [Calls -> {"none", "answer", "announce"}]

VARIABLES
  pc,        \* the bot: call -> where its task is
  gates,     \* the bot: call -> the sessions that send
  slot,      \* the bot: current_media_session
  silent,    \* the sessions whose audio_silent is set
  line,      \* callers: call -> "off", "up" or "over"
  entry,     \* callers: call -> entries of the flow it is through with
  pending,   \* callers: call -> the entry whose re-INVITE it awaits, or 0
  sure,      \* callers: call -> its last re-INVITE has been answered
  mute,      \* callers: call -> audio_silent of its own session
  toBot,     \* call -> entries whose re-INVITE is under way, and Bye
  toCaller,  \* call -> entries answered 200, and Bye
  disturbed  \* history: calls which another one has come between

bot == <<pc, gates, slot, silent>>

callers == <<line, entry, pending, sure, mute>>

vars == <<bot, callers, toBot, toCaller, disturbed>>

Sessions == Calls \X {1, 2}

NoSession == <<>>

Bye == 0

Active == {"ringing", "announce", "up"}

Entries(c) == 1 .. Len(Flow[c])

TypeOK ==
  /\ pc \in [Calls -> {"none", "over"} \union Active]
  /\ gates \in [Calls -> SUBSET Sessions]
  /\ slot \in {NoSession} \union Sessions
  /\ silent \subseteq Sessions
  /\ line \in [Calls -> {"off", "up", "over"}]
  /\ entry \in [Calls -> Nat] /\ pending \in [Calls -> Nat]
  /\ sure \in [Calls -> BOOLEAN] /\ mute \in [Calls -> BOOLEAN]
  /\ toBot \in [Calls -> Seq(Nat)] /\ toCaller \in [Calls -> Seq(Nat)]
  /\ \A c \in Calls : /\ entry[c] <= Len(Flow[c])
                      /\ pending[c] \in {0, entry[c]}
                      /\ toBot[c] \in Seq(0 .. entry[c])
                      /\ toCaller[c] \in Seq(0 .. entry[c])
  /\ disturbed \subseteq Calls

Init ==
  /\ pc = [c \in Calls |-> "none"]
  /\ gates = [c \in Calls |-> {}]
  /\ slot = NoSession
  /\ silent = {}
  /\ line = [c \in Calls |-> "off"]
  /\ entry = [c \in Calls |-> 0]
  /\ pending = [c \in Calls |-> 0]
  /\ sure = [c \in Calls |-> TRUE]
  /\ mute = [c \in Calls |-> FALSE]
  /\ toBot = [c \in Calls |-> <<>>]
  /\ toCaller = [c \in Calls |-> <<>>]
  /\ disturbed = {}

-----------------------------------------------------------------------------
\* The bot.
Goto(c, s) == pc' = [pc EXCEPT ![c] = s]

\* Call c acts on what the bot's other calls share with it.
Disturb(c) == disturbed' = disturbed \union {d \in Calls \ {c} : pc[d] \in Active}

\* MediaSession::new, and the bot's slot is overwritten.
Make(c, s, others) ==
  /\ gates' = [gates EXCEPT ![c] = others \union {s}]
  /\ slot' = s
  /\ silent' = silent \ {s}
  /\ Disturb(c)

\* An INVITE with an offer: the session is made before the call rings.
Ring(c) ==
  /\ pc[c] = "none"
  /\ Goto(c, "ringing")
  /\ Make(c, <<c, 1>>, {})
  /\ UNCHANGED <<callers, toBot, toCaller>>

\* The 200 OK, with a new session in place of the first if sdp_jump is set and
\* its SDP can be made; the caller's flow begins.
Answer(c) ==
  /\ pc[c] = "ringing"
  /\ Goto(c, IF Jump[c] = "announce" THEN "announce" ELSE "up")
  /\ line' = [line EXCEPT ![c] = "up"]
  /\ \/ UNCHANGED <<gates, slot, silent, disturbed>>
     \/ Jump[c] = "answer" /\ Make(c, <<c, 2>>, {})
  /\ UNCHANGED <<entry, pending, sure, mute, toBot, toCaller>>

\* The announcement has been played: from now on the call sends through a new
\* session, if that can be made, and through the bridge of the old one.
Announced(c) ==
  /\ pc[c] = "announce"
  /\ Goto(c, "up")
  /\ \/ UNCHANGED <<gates, slot, silent, disturbed>>
     \/ Make(c, <<c, 2>>, gates[c])
  /\ UNCHANGED <<callers, toBot, toCaller>>

Holds(c, k) == k # 0 /\ Flow[c][k] = "hold"

\* Mutant: the flag follows the renegotiation, which may have failed.
SilencedIfAgreed(hold, agreed) ==
  IF slot = NoSession \/ ~agreed THEN silent
  ELSE IF hold THEN silent \union {slot} ELSE silent \ {slot}

\* The flag is set whether the renegotiation succeeds or fails.
Silenced(hold, agreed) ==
  IF slot = NoSession THEN silent
  ELSE IF hold THEN silent \union {slot} ELSE silent \ {slot}

\* handle_reinvite: the session of the slot is silenced or not, whichever call
\* the re-INVITE belongs to and whether or not that is still up, and a 200 is
\* sent whatever comes of the renegotiation.
HandleReinvite(c) ==
  /\ toBot[c] # <<>> /\ Head(toBot[c]) # Bye
  /\ LET k == Head(toBot[c])
     IN  /\ \E agreed \in BOOLEAN : silent' = Silenced(Holds(c, k), agreed)
         /\ toCaller' = [toCaller EXCEPT ![c] = Append(@, k)]
  /\ toBot' = [toBot EXCEPT ![c] = Tail(@)]
  /\ Disturb(c)
  /\ UNCHANGED <<pc, gates, slot, callers>>

\* The call's task stops its sessions; the bot's slot keeps the last one.
Over(c) == Goto(c, "over") /\ gates' = [gates EXCEPT ![c] = {}]

HandleBye(c) ==
  /\ toBot[c] # <<>> /\ Head(toBot[c]) = Bye
  /\ toBot' = [toBot EXCEPT ![c] = Tail(@)]
  /\ IF pc[c] = "over" THEN UNCHANGED <<pc, gates>> ELSE Over(c)
  /\ UNCHANGED <<slot, silent, callers, toCaller, disturbed>>

\* A call ends unanswered, after it has taken the slot.
Fails(c) ==
  /\ pc[c] = "ringing"
  /\ Over(c)
  /\ UNCHANGED <<slot, silent, callers, toBot, toCaller, disturbed>>

\* The bot's task ends, whatever re-INVITE is under way; in remote-hangup mode
\* it sends no BYE.
BotHangsUp(c) ==
  /\ pc[c] \in {"announce", "up"}
  /\ Over(c)
  /\ \/ UNCHANGED toCaller
     \/ toCaller' = [toCaller EXCEPT ![c] = Append(@, Bye)]
  /\ UNCHANGED <<slot, silent, callers, toBot, disturbed>>

-----------------------------------------------------------------------------
\* The callers.

Left(c) == entry[c] < Len(Flow[c])

\* The next entry of the flow is due: its re-INVITE is sent, unless no offer
\* can be made.
NextEntry(c) ==
  /\ line[c] = "up" /\ pending[c] = 0 /\ Left(c)
  /\ entry' = [entry EXCEPT ![c] = @ + 1]
  /\ \/ /\ pending' = [pending EXCEPT ![c] = entry[c] + 1]
        /\ sure' = [sure EXCEPT ![c] = FALSE]
        /\ toBot' = [toBot EXCEPT ![c] = Append(@, entry[c] + 1)]
     \/ UNCHANGED <<pending, sure, toBot>>
  /\ UNCHANGED <<bot, line, mute, toCaller, disturbed>>

\* A 200 arrives: the caller silences its own session accordingly.  That of a
\* re-INVITE it has given up is dropped by the transaction layer.
HearAnswer(c) ==
  /\ toCaller[c] # <<>> /\ Head(toCaller[c]) # Bye
  /\ toCaller' = [toCaller EXCEPT ![c] = Tail(@)]
  /\ IF line[c] = "up" /\ pending[c] = Head(toCaller[c])
       THEN /\ mute' = [mute EXCEPT ![c] = Holds(c, pending[c])]
            /\ pending' = [pending EXCEPT ![c] = 0]
            /\ sure' = [sure EXCEPT ![c] = TRUE]
       ELSE UNCHANGED <<mute, pending, sure>>
  /\ UNCHANGED <<bot, line, entry, toBot, disturbed>>

\* The re-INVITE times out: the flow goes on with the next entry.
GiveUp(c) ==
  /\ line[c] = "up" /\ pending[c] # 0
  /\ pending' = [pending EXCEPT ![c] = 0]
  /\ UNCHANGED <<bot, line, entry, sure, mute, toBot, toCaller, disturbed>>

\* The caller's talk is over: its flow is aborted, wherever it is, and a BYE
\* is sent.
CallerHangsUp(c) ==
  /\ line[c] = "up"
  /\ line' = [line EXCEPT ![c] = "over"]
  /\ toBot' = [toBot EXCEPT ![c] = Append(@, Bye)]
  /\ UNCHANGED <<bot, entry, pending, sure, mute, toCaller, disturbed>>

HearBye(c) ==
  /\ toCaller[c] # <<>> /\ Head(toCaller[c]) = Bye
  /\ toCaller' = [toCaller EXCEPT ![c] = Tail(@)]
  /\ line' = [line EXCEPT ![c] = "over"]
  /\ UNCHANGED <<bot, entry, pending, sure, mute, toBot, disturbed>>

-----------------------------------------------------------------------------
Next == \E c \in Calls :
  \/ Ring(c) \/ Answer(c) \/ Announced(c)
  \/ Fails(c) \/ HandleReinvite(c) \/ HandleBye(c) \/ BotHangsUp(c)
  \/ NextEntry(c) \/ HearAnswer(c) \/ GiveUp(c) \/ CallerHangsUp(c) \/ HearBye(c)

Spec == Init /\ [][Next]_vars

-----------------------------------------------------------------------------
\* Both sides are up and no re-INVITE of theirs is open.
Settled(c) == line[c] = "up" /\ pc[c] \in {"announce", "up"} /\ sure[c]

Jumped(c) == <<c, 2>> \in gates[c] /\ <<c, 1>> \in gates[c]

\* What a caller believes of its call is what the bot does with it: while it
\* holds the bot is silent, and else it is not.  So it is for every call that
\* had the bot for itself and was not jumped, whichever re-INVITEs were given
\* up, handled late or failed to be renegotiated (handle_reinvite, the
\* re-INVITE flow of make_call).
AloneAgrees ==
  \A c \in Calls \ disturbed :
    Settled(c) /\ ~Jumped(c) =>
      IF mute[c] THEN gates[c] \subseteq silent ELSE gates[c] \intersect silent = {}
=============================================================================

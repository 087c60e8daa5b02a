----------------------------- MODULE CallRecord -----------------------------
(***************************************************************************)
(* What one SIP message does to the lifecycle state of a call record:      *)
(* derive_state and apply_state of src/web/inspector.rs.                   *)
(*                                                                         *)
(* A message is abstracted to its direction, its CSeq method and its       *)
(* status code; code 0 stands for a request.  The state "None" is the      *)
(* Option::None that a record starts with.                                 *)
(***************************************************************************)
EXTENDS Naturals

Directions == {"in", "out"}

Methods == {"INVITE", "ACK", "BYE", "CANCEL", "UPDATE", "INFO", "REFER",
            "NOTIFY", "REGISTER", "OPTIONS"}

Message == [dir : Directions, method : Methods, code : {0} \union (100 .. 699)]

Request(d, m)     == [dir |-> d, method |-> m, code |-> 0]
Response(d, m, c) == [dir |-> d, method |-> m, code |-> c]

-----------------------------------------------------------------------------
Live == {"Trying", "Ringing", "EarlyMedia", "Answered"}

\* The states apply_state treats as the end of a call ...
Terminal == {"Terminated", "Rejected", "Failed"}

\* ... and the two of them that no later live state may overwrite.  The
\* registry also trims, and does not count as active, these two only.
Past == {"Terminated", "Rejected"}

CallState == {"None"} \union Live \union Terminal

\* Registration and keep-alive traffic never reaches a record.
Recorded(m) == m.method \notin {"REGISTER", "OPTIONS"}

DeriveState(m) ==
  CASE m.code = 0 /\ m.method = "INVITE" /\ m.dir = "in" -> "Trying"
    [] m.code = 0 /\ m.method \in {"BYE", "CANCEL"}      -> "Terminated"
    [] m.code \in {100, 180}                             -> "Ringing"
    [] m.code = 183                                      -> "EarlyMedia"
    [] m.code \in 200 .. 299                             -> "Answered"
    [] m.code \in {403, 404, 480, 486, 603}              -> "Rejected"
    [] m.code \in (400 .. 699) \ {403, 404, 480, 486, 603} -> "Failed"
    [] OTHER                                             -> "None"

\* Mutant: apply_state without the check that a past call stays past.
IgnoredUnlessPast(s, m) ==
  LET new == DeriveState(m)
  IN  \/ new \in {"None", s}
      \/ s \in {"Answered", "EarlyMedia"} /\ new = "Ringing"

\* A message leaves the record's state s alone: it carries no state, the
\* state is the one already shown, the call is past and the news is not an
\* end, or it would take an answered call back to ringing.
Ignored(s, m) ==
  LET new == DeriveState(m)
  IN  \/ new \in {"None", s}
      \/ s \in Past /\ new \notin Terminal
      \/ s \in {"Answered", "EarlyMedia"} /\ new = "Ringing"

ApplyState(s, m) == IF Ignored(s, m) THEN s ELSE DeriveState(m)

\* Mutant: the end of a call tested with the two past states only.
EndsPast(s, m) == ~Ignored(s, m) /\ DeriveState(m) \in Past

\* The message ends the call: CallEnded is broadcast and a flush is scheduled.
Ends(s, m) == ~Ignored(s, m) /\ DeriveState(m) \in Terminal
=============================================================================

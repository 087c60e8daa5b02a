--------------------------- MODULE MCInboundCall ---------------------------
(***************************************************************************)
(* Small instances of InboundCall for TLC.                                 *)
(***************************************************************************)
EXTENDS InboundCall

Plain == [mismatch |-> FALSE, random |-> 0, reject |-> 0, tone |-> FALSE,
          offer |-> TRUE, early |-> FALSE, ring |-> 180, jump |-> FALSE,
          announce |-> "none", endless |-> TRUE, mode |-> "playback"]

\* One call through every stage the code has: rejections of each kind, early
\* media and ringing, both stream jumps, each hangup mode, no offer at all.
MCConfigs ==
  { [Plain EXCEPT !.mismatch = TRUE],
    [Plain EXCEPT !.random = 500, !.reject = 302],
    [Plain EXCEPT !.reject = 404, !.tone = TRUE],
    [Plain EXCEPT !.early = TRUE, !.ring = 183, !.jump = TRUE, !.announce = "jump"],
    [Plain EXCEPT !.ring = 183, !.jump = TRUE, !.announce = "jump", !.mode = "remote"],
    [Plain EXCEPT !.ring = 0, !.announce = "plain", !.mode = "after"],
    [Plain EXCEPT !.offer = FALSE, !.ring = 183] }

\* Calls turned away at once, with codes that the inspector takes for an end.
MCRejectConfigs ==
  { [Plain EXCEPT !.mismatch = TRUE],
    [Plain EXCEPT !.random = 500],
    [Plain EXCEPT !.reject = 486] }
=============================================================================

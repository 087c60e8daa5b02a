----------------------------- MODULE MCTwoBots -----------------------------
(***************************************************************************)
(* A small instance of TwoBots for TLC.                                    *)
(***************************************************************************)
EXTENDS TwoBots

\* A bot that answers at once and hangs up when its file is played, and one
\* that rings and leaves the hangup to the caller.
Answering == [mismatch |-> FALSE, random |-> 0, reject |-> 0, tone |-> FALSE,
              offer |-> TRUE, early |-> FALSE, ring |-> 0, jump |-> FALSE,
              announce |-> "none", endless |-> FALSE, mode |-> "playback"]

MCConfigs == { Answering, [Answering EXCEPT !.ring = 180, !.mode = "remote"] }

\* The caller always means to cancel: a call whose moment does not come is
\* not cancelled.
MCDraws == {30}
=============================================================================

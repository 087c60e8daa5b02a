----------------------------- MODULE MCRtpStats -----------------------------
(***************************************************************************)
(* Small instances of RtpStats for TLC: eight sequence numbers, of which   *)
(* the peer's cross the end, and timestamps in which ten seconds, the      *)
(* tolerance and both halves of the circle are apart.                      *)
(***************************************************************************)
EXTENDS RtpStats

MCTicks == {2}
=============================================================================

---------------------------- MODULE MCTxTimeline ----------------------------
(***************************************************************************)
(* A small instance of TxTimeline for TLC.                                 *)
(***************************************************************************)
EXTENDS TxTimeline

\* Two values that no timestamp reaches from each other.
MCRandoms == {0, 50}
=============================================================================

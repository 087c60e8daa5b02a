--------------------------- MODULE MCOutboundCall --------------------------
(***************************************************************************)
(* Small instances of OutboundCall for TLC.                                *)
(***************************************************************************)
EXTENDS OutboundCall

\* Every call draws a cancellation; it comes about only if the call meets the
\* provisional response that triggers it.
MCLowDraws == {30}
=============================================================================

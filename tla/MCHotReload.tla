---------------------------- MODULE MCHotReload ----------------------------
(***************************************************************************)
(* A small instance of HotReload for TLC.                                  *)
(***************************************************************************)
EXTENDS HotReload

\* The account with a transport_addr of its own has the second of the ports
\* that are tried for the others, as in the example of README.md.
MCFixedPort == [a \in Accounts |-> 2]
=============================================================================

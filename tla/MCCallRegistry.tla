--------------------------- MODULE MCCallRegistry ---------------------------
(***************************************************************************)
(* Small instances of CallRegistry for TLC.                                *)
(***************************************************************************)
EXTENDS CallRegistry

CONSTANTS i1, i2

\* The messages that race for the end of an inbound call, a CANCEL, the 487
\* that it causes and a 200 that may come late (whatever it answers) ...
MCInboundMessages ==
  { Request("in", "CANCEL"), Response("out", "INVITE", 487),
    Response("out", "INVITE", 200) }

\* ... and those of an outgoing one, its 200 and the peer's BYE.
MCOutgoingMessages == { Response("in", "INVITE", 200), Request("in", "BYE") }

MCMessages == MCInboundMessages \union MCOutgoingMessages

MCTraffic == [id : Inbound, msg : MCInboundMessages]
               \union [id : CallIds \ Inbound, msg : MCOutgoingMessages]

\* The file name of i2 contains i1: deleting i1 deletes the file of i2 too.
MCCovers == [i \in CallIds |-> IF i = i1 THEN CallIds ELSE {i}]
=============================================================================

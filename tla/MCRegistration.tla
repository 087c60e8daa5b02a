--------------------------- MODULE MCRegistration --------------------------
(***************************************************************************)
(* Small instances of Registration for TLC.                                *)
(***************************************************************************)
EXTENDS Registration

\* An expiry that leaves no room for the margin, and one that does.
MCGrants == {2, 4}
=============================================================================

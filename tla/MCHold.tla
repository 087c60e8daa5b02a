------------------------------- MODULE MCHold -------------------------------
(***************************************************************************)
(* A small instance of Hold for TLC: two calls, of which one holds and     *)
(* resumes and the other one holds; both may be jumped.                    *)
(***************************************************************************)
EXTENDS Hold, TLC

TwoFlows == (1 :> <<"hold", "resume">>) @@ (2 :> <<"hold">>)

BothJump == (1 :> "announce") @@ (2 :> "answer")
=============================================================================

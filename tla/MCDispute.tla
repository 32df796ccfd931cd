----------------------------- MODULE MCDispute -----------------------------
(***************************************************************************)
(* Instance of Remediation for TLC: one buyer, one clerk.                  *)
(***************************************************************************)
EXTENDS Remediation, TLC

CONSTANTS b1, p1, id1, alice

OnePayment    == (p1 :> id1)
SignedByAlice == (id1 :> alice)
=============================================================================

---------------------------- MODULE MCCheckout ----------------------------
(***************************************************************************)
(* Instances of Checkout for TLC.                                          *)
(***************************************************************************)
EXTENDS Checkout, TLC

CONSTANTS r1, r2, i1, p1, id1, b1, b2, alice, mallory

OnePayment   == (p1 :> id1)

SignedByAlice == [id \in PaymentIds |-> alice]

Anywhere == PCs \ {"idle"}
=============================================================================

------------------------------ MODULE Purchase ------------------------------
(***************************************************************************)
(* What a paid purchase promises to buyer, seller and facilitator, without *)
(* requests, copies, versions or event chains: a payment is pledged to one *)
(* purchase, moves once, and is taken or turned down on record; the seller *)
(* works only for a payment on record, has an effect at most once, and is  *)
(* tried again only after a failure without one; a disputed purchase is    *)
(* closed but for one refund of what was taken.                            *)
(***************************************************************************)
CONSTANTS
    Purchases,      \* purchases, one for each intent
    Payments,       \* payments a buyer may make
    References,     \* the external refunds a seller may record
    Nothing,        \* the purchase has no payment yet
    FalseRefusals   \* the facilitator may turn down what it has moved, or will

VARIABLES
    payment,   \* the payment pledged to each purchase
    finality,  \* what is on record of that payment
    moved,     \* the payments the facilitator has moved
    delivery,  \* how far the delivery of each purchase is
    effect,    \* the effects each purchase had at the seller
    refund     \* the refunds recorded for each purchase

purchaseVars == <<payment, finality, moved, delivery, effect, refund>>

Init ==
    /\ payment  = [p \in Purchases |-> Nothing]
    /\ finality = [p \in Purchases |-> "none"]
    /\ moved    = {}
    /\ delivery = [p \in Purchases |-> "waiting"]
    /\ effect   = [p \in Purchases |-> 0]
    /\ refund   = [p \in Purchases |-> {}]

\* A verified payment is pledged to the one purchase it may pay.
Pledge(p, id) ==
    /\ finality[p] = "none"
    /\ \A q \in Purchases : payment[q] # id
    /\ payment'  = [payment EXCEPT ![p] = id]
    /\ finality' = [finality EXCEPT ![p] = "confirmed"]
    /\ UNCHANGED <<moved, delivery, effect, refund>>

\* The facilitator moves a pledged payment, never one that was turned down.
Move(p) ==
    /\ payment[p] \notin moved \cup {Nothing}
    /\ finality[p] = "confirmed" \/ FalseRefusals
    /\ moved' = moved \cup {payment[p]}
    /\ UNCHANGED <<payment, finality, delivery, effect, refund>>

\* A payment that has moved is recorded, for good.
Take(p) ==
    /\ finality[p] = "confirmed"
    /\ payment[p] \in moved
    /\ finality' = [finality EXCEPT ![p] = "finalized"]
    /\ UNCHANGED <<payment, moved, delivery, effect, refund>>

\* A payment that will not move is written off, and the purchase with it.
TurnDown(p) ==
    /\ finality[p] = "confirmed"
    /\ payment[p] \notin moved \/ FalseRefusals
    /\ finality' = [finality EXCEPT ![p] = "failed"]
    /\ delivery' = [delivery EXCEPT ![p] = "failed"]
    /\ UNCHANGED <<payment, moved, effect, refund>>

Working == {"working", "retrying"}

\* The delivery goes on to the stage next from one of the stages given.
Deliver(p, stages, next) ==
    /\ delivery[p] \in stages
    /\ delivery' = [delivery EXCEPT ![p] = next]
    /\ UNCHANGED <<payment, finality, moved, effect, refund>>

\* The seller is engaged for a payment on record, a second time after a
\* reopening.
Engage(p) ==
    /\ finality[p] = "finalized"
    /\ Deliver(p, {"waiting"}, "working") \/ Deliver(p, {"reopened"}, "retrying")

\* The one effect.
Serve(p) ==
    /\ delivery[p] \in Working
    /\ effect[p] = 0
    /\ effect' = [effect EXCEPT ![p] = 1]
    /\ UNCHANGED <<payment, finality, moved, delivery, refund>>

\* How a delivery ends: fulfilled only with the effect, to be repeated only
\* without it and only once.
Finish(p) ==
    \/ Deliver(p, Working, "failed")
    \/ effect[p] = 1 /\ Deliver(p, Working, "delivered")
    \/ effect[p] = 0 /\ Deliver(p, {"working"}, "retryable")

\* A delivery that had no effect may be tried again.
Reopen(p) == Deliver(p, {"retryable"}, "reopened")

\* A purchase whose delivery has ended may be disputed, and is closed by it.
Dispute(p) == Deliver(p, {"delivered", "failed", "retryable"}, "disputed")

\* The one refund of a disputed purchase whose payment was taken.
Refund(p) ==
    /\ delivery[p] = "disputed"
    /\ finality[p] = "finalized"
    /\ refund[p] = {}
    /\ \E x \in References : refund' = [refund EXCEPT ![p] = {x}]
    /\ UNCHANGED <<payment, finality, moved, delivery, effect>>

Next ==
    \E p \in Purchases :
        \/ \E id \in Payments : Pledge(p, id)
        \/ Move(p) \/ Take(p) \/ TurnDown(p)
        \/ Engage(p) \/ Serve(p) \/ Finish(p) \/ Reopen(p)
        \/ Dispute(p) \/ Refund(p)

Spec == Init /\ [][Next]_purchaseVars
=============================================================================

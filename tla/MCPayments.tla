----------------------------- MODULE MCPayments -----------------------------
(***************************************************************************)
(* Instances, for TLC, of the payments at checkout, and of the entitlement *)
(* of a seller with the project keys that depend on it.  The two share no  *)
(* state: one of them runs while the other keeps its initial state.        *)
(*                                                                         *)
(* Checkout is in focus twice.  "payments": two purchases and two payments *)
(* of one wallet.  "wallets": one purchase and one payment, and a          *)
(* facilitator that confuses two wallets or names none.                    *)
(*                                                                         *)
(* The entitlement is in focus twice.  "billing": workers reconcile the    *)
(* entitlement of a seller in arrears while an operator changes it, and no *)
(* key is issued.  "keys": an operator interrupts and resumes the          *)
(* entitlement of a paying seller while keys are used.  Two of them run at *)
(* a time.                                                                 *)
(***************************************************************************)
EXTENDS Checkout, ProjectKeys, TLC

CONSTANTS
    p1, p2, id1, id2, alice, mallory,   \* payments and wallets
    PeriodEnd   \* the end of the paid period of the seller's subscription

VARIABLE focus

TwoPayments   == (p1 :> id1) @@ (p2 :> id2)
SignedByAlice == [id \in PaymentIds |-> alice]
Anywhere      == PCs \ {"idle"}

\* A subscription whose renewal failed, still in its paid period, and one that
\* ended.
LateOrEnded ==
    { [status |-> status, paid |-> FALSE, cancels |-> FALSE, paidThrough |-> PeriodEnd] :
        status \in {"past_due", "canceled"} }
Paid == [status |-> "active", paid |-> TRUE, cancels |-> FALSE, paidThrough |-> PeriodEnd]
AllSubscriptions == LateOrEnded \cup {Paid}

SubscriptionInFocus == subscription \in IF focus = "billing" THEN LateOrEnded ELSE {Paid}

MCInit ==
    /\ Init /\ AccessInit
    /\ focus \in {"payments", "wallets", "billing", "keys"}
    /\ SubscriptionInFocus
-----------------------------------------------------------------------------
\* Neither response confuses the wallets or omits the payer.
OneWallet ==
    /\ \A id \in PaymentIds : ledger[id] # mallory
    /\ \A r \in Requests : pc[r] = "saveVerified" => payer[r] # None

OnePurchase ==
    Cardinality({i \in Intents : txn[i] # NoTxn \/ \E r \in Requests : req[r].intent = i}) <= 1
OnePayment ==
    Cardinality({p \in Proofs : \/ \E r \in Requests : req[r].proof = p
                                \/ claims[PaymentIdOf[p]] # None}) <= 1

FocusOnCheckout ==
    /\ focus \in {"payments", "wallets"} /\ Next
    /\ IF focus = "payments" THEN OneWallet' ELSE OnePurchase' /\ OnePayment'
    /\ UNCHANGED accessVars
-----------------------------------------------------------------------------
TwoRun ==
    Cardinality({w \in Workers : worker[w] # IdleWorker})
      + Cardinality({o \in Operators : operator[o] # NoOperation})
      + Cardinality({s \in Sessions : session[s].pc # "idle"}) <= 2

\* How an operator ends access: cancelling in one focus, suspending in the other.
OneEnding ==
    \A o \in Operators : operator[o] # NoOperation =>
        operator[o].proposed.status # IF focus = "keys" THEN "cancelled" ELSE "suspended"

\* Events are alike: they arrive in order, and the payload of the first may conflict.
EventsInOrder ==
    \A e \in Events : e > 1 =>
        /\ inbox[e] # "absent" => inbox[e - 1] # "absent"
        /\ inbox[e] # "quarantined"

\* New keys are alike and stored in order.
KeysInOrder == \A k \in KeyIds : k > 1 /\ keys[k] # NoKey => keys[k - 1] # NoKey

\* The first event may lose a race, to the second or to the operator, and again
\* in its second attempt.
FirstEventRetries == \A w \in Workers : worker[w].attempts > 0 => worker[w].event = 1

FocusOnBilling ==
    /\ focus = "billing" /\ EntitlementNext /\ UNCHANGED <<keyVars, vars>>
    /\ SubscriptionInFocus' /\ EventsInOrder' /\ FirstEventRetries' /\ TwoRun' /\ OneEnding'

FocusOnKeys ==
    /\ focus = "keys" /\ AccessNext /\ UNCHANGED <<now, subscription, inbox, worker, vars>>
    /\ KeysInOrder' /\ TwoRun' /\ OneEnding'
-----------------------------------------------------------------------------
MCNext == UNCHANGED focus /\ (FocusOnCheckout \/ FocusOnBilling \/ FocusOnKeys)
MCSpec == MCInit /\ [][MCNext]_<<vars, accessVars, focus>>

\* Components that are never in focus together share model values.  The two
\* payments are alike: exchange both the proofs and the identifiers.
ExchangePayments == (p1 :> p2) @@ (p2 :> p1) @@ (id1 :> id2) @@ (id2 :> id1)
PaymentSymmetry ==
    Permutations(Requests) \cup Permutations(Intents) \cup {ExchangePayments}
=============================================================================

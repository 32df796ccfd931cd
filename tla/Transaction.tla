---------------------------- MODULE Transaction ----------------------------
(***************************************************************************)
(* The Transaction aggregate of internal/transactions: its lifecycle       *)
(* states, and one operator per method that mutates it.                    *)
(*                                                                         *)
(* The Go methods return an error and leave the record alone when their    *)
(* guard fails; here each method M is the pair CanM(t, ...), its guard,    *)
(* and M(t, ...), the record it produces.  Commercial fields frozen at     *)
(* creation (amount, asset, network, names) never change and are left out. *)
(* Timestamps are left out too: validateMutationTime can only turn a call  *)
(* into an error, and every caller may fail at every call (see Checkout).  *)
(***************************************************************************)
EXTENDS Naturals

CONSTANTS
    Proofs,      \* payment proofs; a proof stands for its own SHA-256 hash
    PaymentIds,  \* payment identifiers (hash of the canonical payload)
    Bodies,      \* request bodies; a body stands for its own SHA-256 hash
    None         \* the empty string / nil of an optional field

ASSUME NoneAssumption == None \notin Proofs \cup PaymentIds \cup Bodies

Statuses ==
    { "PROPOSED", "APPROVAL_PENDING", "APPROVED", "PAYMENT_REQUIRED",
      "PAYMENT_VERIFIED", "FORWARDED", "FULFILLED", "FAILED", "DISPUTED",
      "REFUND_RECOMMENDED", "RESOLVED" }

Finalities == { "none", "confirmed", "finalized", "failed" }

PreDispatchCodes ==
    { "execution_authorization_unavailable", "forwarding_evidence_unavailable" }

\* Codes of deliveryFailureCode, for a Forward call that returned an error.
\* upstream_timeout stands for upstream_unavailable too (nobody knows whether
\* the seller acted), response_too_large for response_content_type too (the
\* seller answered, but with nothing the proxy may pass on).
TransportCodes == { "upstream_timeout", "response_too_large" }

FailureCodes ==
    PreDispatchCodes \cup TransportCodes
        \cup { "none", "settlement_payer_mismatch", "settlement_rejected",
               "upstream_status" }

\* HTTP status classes the code tells apart: 2xx, 400/422, and the others.
UpstreamStatuses == { "2xx", "4xx_input", "other" }

ASSUME StatusAssumption == None \notin UpstreamStatuses

Transactions ==
    [ status              : Statuses,
      paymentIdentifier   : PaymentIds \cup {None},
      paymentProofHash    : Proofs \cup {None},
      paymentFinality     : Finalities,
      failureCode         : FailureCodes,
      upstreamStatus      : UpstreamStatuses \cup {None},
      recoveryRequestBody : Bodies \cup {None},
      fulfillmentAttempts : Nat,
      retrySafe           : BOOLEAN,
      version             : Nat ]

-----------------------------------------------------------------------------

\* The documented lifecycle edges.  FAILED -> PAYMENT_VERIFIED is not one of
\* them: only PrepareFulfillmentRetry takes it, bypassing transition().
allowedTransition ==
    { <<"PROPOSED", "APPROVAL_PENDING">>, <<"PROPOSED", "PAYMENT_REQUIRED">>,
      <<"APPROVAL_PENDING", "APPROVED">>,
      <<"APPROVED", "PAYMENT_REQUIRED">>,
      <<"PAYMENT_REQUIRED", "PAYMENT_VERIFIED">>,
      <<"PAYMENT_VERIFIED", "FORWARDED">>, <<"PAYMENT_VERIFIED", "FAILED">>,
      <<"FORWARDED", "FULFILLED">>, <<"FORWARDED", "FAILED">>,
      <<"FULFILLED", "DISPUTED">>, <<"FAILED", "DISPUTED">>,
      <<"DISPUTED", "REFUND_RECOMMENDED">>, <<"DISPUTED", "RESOLVED">>,
      <<"REFUND_RECOMMENDED", "RESOLVED">> }

CanTransition(t, next) == <<t.status, next>> \in allowedTransition

transition(t, next) == [t EXCEPT !.status = next, !.version = @ + 1]

\* NewTransaction: version 1, PROPOSED, nothing observed yet.
NewTransaction ==
    [ status              |-> "PROPOSED",
      paymentIdentifier   |-> None,
      paymentProofHash    |-> None,
      paymentFinality     |-> "none",
      failureCode         |-> "none",
      upstreamStatus      |-> None,
      recoveryRequestBody |-> None,
      fulfillmentAttempts |-> 0,
      retrySafe           |-> FALSE,
      version             |-> 1 ]

RequireApproval(t) == transition(t, "APPROVAL_PENDING")
MarkApproved(t)    == transition(t, "APPROVED")
RequirePayment(t)  == transition(t, "PAYMENT_REQUIRED")

CanVerifyPayment(t) == CanTransition(t, "PAYMENT_VERIFIED")

VerifyPayment(t, id, proof) ==
    [ transition(t, "PAYMENT_VERIFIED") EXCEPT
        !.paymentIdentifier = id,
        !.paymentProofHash  = proof,
        !.paymentFinality   = "confirmed" ]

AwaitsSettlement(t) ==
    /\ t.status = "PAYMENT_VERIFIED"
    /\ t.paymentFinality = "confirmed"

CanFinalizePayment(t, id) ==
    /\ id = t.paymentIdentifier
    /\ AwaitsSettlement(t)

\* Records the settlement without a change of delivery state.
FinalizePayment(t) ==
    [t EXCEPT !.paymentFinality = "finalized", !.version = @ + 1]

CanFailPayment(t) == AwaitsSettlement(t) /\ CanTransition(t, "FAILED")

FailPayment(t, code) ==
    [ transition(t, "FAILED") EXCEPT
        !.failureCode     = code,
        !.paymentFinality = "failed" ]

CanRequirePaymentReview(t) == AwaitsSettlement(t)

\* The verified claim is kept, at confirmed finality, under a review code.
RequirePaymentReview(t, code) ==
    [t EXCEPT !.failureCode = code, !.version = @ + 1]

CanMarkForwarded(t) ==
    /\ t.status = "PAYMENT_VERIFIED"
    /\ t.paymentFinality = "finalized"
    /\ CanTransition(t, "FORWARDED")

MarkForwarded(t) ==
    [transition(t, "FORWARDED") EXCEPT !.fulfillmentAttempts = @ + 1]

CanMarkFulfilled(t) == CanTransition(t, "FULFILLED")

MarkFulfilled(t) == [transition(t, "FULFILLED") EXCEPT !.upstreamStatus = "2xx"]

CanMarkFailed(t) == CanTransition(t, "FAILED")

\* Faulty variant: any 400/422 counts as side-effect free.
FaultyMarkFailedWithRecovery(t, code, upstream, retrySafe) ==
    [ transition(t, "FAILED") EXCEPT
        !.failureCode    = code,
        !.retrySafe      =
            /\ t.paymentFinality = "finalized"
            /\ t.fulfillmentAttempts = 1
            /\ \/ upstream = "4xx_input"
               \/ upstream = None /\ code \in PreDispatchCodes,
        !.upstreamStatus = IF upstream = None THEN @ ELSE upstream ]

\* A failure may be retried only when nothing can have happened at the seller:
\* it came before the dispatch, or the seller declared a 400/422 side-effect
\* free; and only after the first attempt of a finalized payment.
MarkFailedWithRecovery(t, code, upstream, retrySafe) ==
    [ transition(t, "FAILED") EXCEPT
        !.failureCode    = code,
        !.retrySafe      =
            /\ retrySafe
            /\ t.paymentFinality = "finalized"
            /\ t.fulfillmentAttempts = 1
            /\ \/ upstream = "4xx_input"
               \/ upstream = None /\ code \in PreDispatchCodes,
        !.upstreamStatus = IF upstream = None THEN @ ELSE upstream ]

\* What a written record reads back as: Restore takes an uncounted attempt of
\* a transaction past delivery for a first one.  (Its other repairs concern
\* records that this code no longer writes.)
Restore(t) ==
    IF /\ t.fulfillmentAttempts = 0
       /\ t.status \in { "FORWARDED", "FULFILLED", "FAILED", "DISPUTED",
                         "REFUND_RECOMMENDED", "RESOLVED" }
      THEN [t EXCEPT !.fulfillmentAttempts = 1]
      ELSE t

CanRetryFulfillment(t) ==
    /\ t.status = "FAILED"
    /\ t.paymentFinality = "finalized"
    /\ t.retrySafe
    /\ t.fulfillmentAttempts = 1

\* Reopens a failed transaction for one more attempt, bound to a new body.
PrepareFulfillmentRetry(t, body) ==
    [ t EXCEPT
        !.status              = "PAYMENT_VERIFIED",
        !.recoveryRequestBody = body,
        !.retrySafe           = FALSE,
        !.failureCode         = "none",
        !.upstreamStatus      = None,
        !.version             = @ + 1 ]

CanOpenDispute(t) == CanTransition(t, "DISPUTED")
OpenDispute(t)    == transition(t, "DISPUTED")

CanRecommendRefund(t) == CanTransition(t, "REFUND_RECOMMENDED")
RecommendRefund(t)    == transition(t, "REFUND_RECOMMENDED")
=============================================================================

---------------------------- MODULE Remediation ----------------------------
(***************************************************************************)
(* Disputes and recorded refunds, composed with Checkout: while buyers     *)
(* still execute and retry a purchase, dispute requests read its           *)
(* transaction, classify the complaint and move the transaction to         *)
(* DISPUTED, and sellers record a refund they made outside AgentPay.       *)
(*                                                                         *)
(* A dispute request makes up to four store calls; clerk[c] is its control *)
(* point, the copy of the transaction it loaded and its verdict.  What it  *)
(* compares is the version of that copy.                                   *)
(***************************************************************************)
EXTENDS Checkout

CONSTANTS
    Clerks,     \* dispute and refund requests that may run at the same time
    References, \* external refund references a seller may record
    AbandonAt   \* the calls before which such a request may be cut off

VARIABLES
    disputes,   \* the stored disputes of each transaction
    refunds,    \* the stored refund records: one slot per dispute
    audited,    \* refund records with an audit event
    clerk

ClerkPCs == {"idle", "open", "record", "recommend", "audit"}

ASSUME RemediationAssumption == AbandonAt \subseteq ClerkPCs \ {"idle"}

remedies == <<disputes, refunds, audited, clerk>>
allVars  == <<vars, remedies>>

Reasons == { "unauthorized", "duplicate", "wrong_amount", "not_delivered",
             "quality_or_output" }
Verdicts == {"refund_recommended", "seller_review", "denied"}

DisputeRecords == [reason : Reasons, status : Verdicts]
RefundRecords  == [intent : Intents, dispute : Nat, reference : References]

Clerk(point, i, t, d, refund) ==
    [pc |-> point, intent |-> i, view |-> t, dispute |-> d, refund |-> refund]

NoClerk == Clerk("idle", None, NoTxn, None, None)

RemediationInit ==
    /\ Init
    /\ disputes  = [i \in Intents |-> << >>]
    /\ refunds   = {}
    /\ audited   = {}
    /\ clerk     = [c \in Clerks |-> NoClerk]

-----------------------------------------------------------------------------
\* Classification

\* factsFromTransaction, a fact as the set of its known values.
DeliverySucceeded(t) ==
    CASE t.status = "FULFILLED" -> {TRUE}
      [] t.status = "FAILED"    -> {FALSE}
      [] OTHER                  -> {}

\* A payment on record is a valid authorization, not a duplicate, and of the
\* frozen amount: Amount() is compared with itself.
PaymentOnRecord(t) == t.paymentIdentifier # None

classify(reason, t) ==
    CASE reason = "quality_or_output" -> "seller_review"
      [] reason = "not_delivered" ->
           IF DeliverySucceeded(t) = {} THEN "seller_review"
           ELSE IF TRUE \in DeliverySucceeded(t) THEN "denied"
           ELSE "refund_recommended"
      [] OTHER -> IF PaymentOnRecord(t) THEN "denied" ELSE "seller_review"

-----------------------------------------------------------------------------
\* Service.Create of disputes

Set(c, value) == clerk' = [clerk EXCEPT ![c] = value]

\* Load and classify; a transaction that cannot be disputed is refused.
BeginDispute(c, i, reason) ==
    /\ clerk[c].pc = "idle"
    /\ txn[i] # NoTxn
    /\ CanOpenDispute(txn[i])
    /\ Set(c, Clerk("open", i, txn[i],
                    [reason |-> reason, status |-> classify(reason, txn[i])], None))
    /\ UNCHANGED <<vars, disputes, refunds, audited>>

\* Faulty variant: the transaction is disputed whatever it has become.
FaultyDisputeVersionMatches(c) == CanOpenDispute(txn[clerk[c].intent])

DisputeVersionMatches(c) ==
    txn[clerk[c].intent].version = clerk[c].view.version

\* Update of the transaction with the version the clerk has.
DisputeUpdate(c, next, after) ==
    IF DisputeVersionMatches(c)
      THEN /\ txn' = [txn EXCEPT ![clerk[c].intent] = Restore(next)]
           /\ Set(c, IF after = "idle" THEN NoClerk
                     ELSE [clerk[c] EXCEPT !.pc = after, !.view = next])
      ELSE Set(c, NoClerk) /\ UNCHANGED txn

OpenTheDispute(c) ==
    /\ clerk[c].pc = "open"
    /\ DisputeUpdate(c, OpenDispute(clerk[c].view), "record")
    /\ UNCHANGED <<claims, chain, world, handlers, disputes, refunds, audited>>

RecordDispute(c) ==
    /\ clerk[c].pc = "record"
    /\ disputes' = [disputes EXCEPT ![clerk[c].intent] = Append(@, clerk[c].dispute)]
    /\ Set(c, IF clerk[c].dispute.status = "refund_recommended"
                THEN [clerk[c] EXCEPT !.pc = "recommend"] ELSE NoClerk)
    /\ UNCHANGED <<vars, refunds, audited>>

RecommendTheRefund(c) ==
    /\ clerk[c].pc = "recommend"
    /\ DisputeUpdate(c, RecommendRefund(clerk[c].view), "idle")
    /\ UNCHANGED <<claims, chain, world, handlers, disputes, refunds, audited>>

-----------------------------------------------------------------------------
\* ManualRemediationService.RecordManualRefund

\* Faulty variant: a second record replaces the first.
FaultySlot(refund) == {}

\* The record that already takes the one slot of the dispute.
Slot(refund) ==
    {r \in refunds : r.intent = refund.intent /\ r.dispute = refund.dispute}

\* Only for a recommended refund of a finalized payment.  The first record
\* takes the slot; later ones (the same is confirmed, another refused) write
\* nothing.
SaveRefund(c, i, n, reference) ==
    LET refund == [intent |-> i, dispute |-> n, reference |-> reference] IN
    /\ clerk[c].pc = "idle"
    /\ disputes[i][n].status = "refund_recommended"
    /\ txn[i].paymentFinality = "finalized"
    /\ Slot(refund) = {}
    /\ refunds' = refunds \cup {refund}
    /\ Set(c, Clerk("audit", i, NoTxn, None, refund))
    /\ UNCHANGED <<vars, disputes, audited>>

AuditRefund(c) ==
    /\ clerk[c].pc = "audit"
    /\ audited' = audited \cup {clerk[c].refund}
    /\ Set(c, NoClerk)
    /\ UNCHANGED <<vars, disputes, refunds>>

\* A crash, or a failed call to the store or to the audit log.
AbandonClerk(c) ==
    /\ clerk[c].pc \in AbandonAt
    /\ Set(c, NoClerk)
    /\ UNCHANGED <<vars, disputes, refunds, audited>>

-----------------------------------------------------------------------------

ClerkStep(c) ==
    OpenTheDispute(c) \/ RecordDispute(c) \/ RecommendTheRefund(c) \/ AuditRefund(c)

RemediationNext ==
    \/ Next /\ UNCHANGED remedies
    \/ \E c \in Clerks :
         \/ \E i \in Intents, reason \in Reasons : BeginDispute(c, i, reason)
         \/ \E i \in Intents, reference \in References :
              \E n \in DOMAIN disputes[i] : SaveRefund(c, i, n, reference)
         \/ ClerkStep(c) \/ AbandonClerk(c)

RemediationSpec == RemediationInit /\ [][RemediationNext]_allVars

\* Purchases and clerks that have started go on, and a buyer keeps complaining.
FairRemediationSpec ==
    /\ RemediationSpec
    /\ \A r \in Requests : WF_allVars(Step(r) /\ UNCHANGED remedies)
    /\ \A c \in Clerks :
         /\ WF_allVars(ClerkStep(c))
         /\ \A i \in Intents, reason \in Reasons :
              SF_allVars(BeginDispute(c, i, reason))
-----------------------------------------------------------------------------
\* Properties

\* Every variable holds values of its type.
RemediationTypeOK ==
    /\ TypeOK
    /\ disputes \in [Intents -> Seq(DisputeRecords)]
    /\ refunds \subseteq RefundRecords
    /\ audited \subseteq refunds
    /\ \A c \in Clerks :
         /\ clerk[c].pc \in ClerkPCs
         /\ clerk[c].view \in Transactions \cup {NoTxn}

InDispute(t) == t.status \in {"DISPUTED", "REFUND_RECOMMENDED", "RESOLVED"}

\* Two complaints, or a complaint and a corrected-body retry, race for one
\* transaction: it gets one dispute at most, so that one purchase is refunded
\* at most once however many sellers' requests are repeated.
RefundedAtMostOnce ==
    \A i \in Intents :
        /\ Len(disputes[i]) <= 1
        /\ \A x, y \in {r \in refunds : r.intent = i} : x = y

\* The verdict on a delivery is the truth when it is stored, not only when the
\* transaction was read: a refund for non-delivery is never recommended for a
\* recorded delivery, nor denied without a seller effect.
VerdictMatchesDelivery ==
    \A i \in Intents : \A n \in DOMAIN disputes[i] :
        LET d == disputes[i][n] IN
        /\ d = [reason |-> "not_delivered", status |-> "refund_recommended"] =>
             Count(chain[i], "delivery.succeeded") = 0
        /\ d = [reason |-> "not_delivered", status |-> "denied"] => effects[i] = 1

\* A disputed purchase is closed: no request that is still under way calls the
\* seller for it, reopens it or moves its money record.
DisputeEndsDelivery ==
    [][\A i \in Intents :
         txn[i] # NoTxn /\ InDispute(txn[i]) =>
            /\ dispatches'[i] = dispatches[i]
            /\ InDispute(txn'[i])
            /\ txn'[i].paymentFinality = txn[i].paymentFinality]_allVars

\* The purchase behind the records

\* The stage of a delivery; the attempts tell the first one from the retry.
DeliveryStage(t) ==
    IF t = NoTxn THEN "waiting"
    ELSE IF InDispute(t) THEN "disputed"
    ELSE CASE t.status = "FORWARDED" ->
                IF t.fulfillmentAttempts = 1 THEN "working" ELSE "retrying"
           [] t.status = "FULFILLED" -> "delivered"
           [] t.status = "FAILED" ->
                IF CanRetryFulfillment(t) THEN "retryable" ELSE "failed"
           [] OTHER ->
                IF t.fulfillmentAttempts = 0 THEN "waiting" ELSE "reopened"

\* What became of the purchase of every intent, of its payment, of the seller's
\* work and of its refunds.
PaymentOf  == [i \in Intents |-> IF txn[i] = NoTxn THEN None
                                 ELSE txn[i].paymentIdentifier]
FinalityOf == [i \in Intents |-> IF txn[i] = NoTxn THEN "none"
                                 ELSE txn[i].paymentFinality]
Moved      == {id \in PaymentIds : Settled(id)}
DeliveryOf == [i \in Intents |-> DeliveryStage(txn[i])]
RefundOf   == [i \in Intents |-> {x.reference : x \in {y \in refunds : y.intent = i}}]

Bargain == INSTANCE Purchase WITH
    Purchases <- Intents, Payments <- PaymentIds, Nothing <- None,
    FalseRefusals <- "refuses_settled" \in Quirks,
    payment <- PaymentOf, finality <- FinalityOf, moved <- Moved,
    delivery <- DeliveryOf, effect <- effects, refund <- RefundOf

\* Requests, the facilitator, the seller and the clerks together implement
\* Purchase, whatever copies are stale, replies lost and requests cut off: no
\* payment serves two purchases or is written off when it moved, the seller
\* works for recorded payments only and has one effect, and a dispute closes
\* the purchase but for one refund.
ImplementsPurchase == Bargain!Spec

\* "Definitive non-delivery permits a dispute": a failed delivery of a paid
\* purchase that the buyer keeps complaining about gets its dispute.
FailedDeliveryGetsDispute ==
    \A i \in Intents :
        (/\ txn[i] # NoTxn
         /\ txn[i].paymentFinality = "finalized"
         /\ txn[i].status = "FAILED" /\ ~txn[i].retrySafe)
            ~> disputes[i] # << >>
=============================================================================

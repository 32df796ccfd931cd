----------------------------- MODULE Reporting -----------------------------
(***************************************************************************)
(* What buyers and sellers are told about a purchase: the commerce         *)
(* lifecycle with its recovery advice, the receipt, the reconciliation     *)
(* stage, and the sales figures of the dashboards.                         *)
(*                                                                         *)
(* Nothing here is stored.  Every operator is computed from the stored     *)
(* transaction alone, while the money and the seller's work are elsewhere  *)
(* (ledger and effects of Checkout): the properties compare the two.       *)
(* Every transaction has the same amount, asset, network and day, so that  *)
(* an amount is a number of transactions, and every intent is for a route  *)
(* of its own.                                                             *)
(***************************************************************************)
EXTENDS Checkout

\* The reports a client may get.
Reports ==
    [ commerce    : { "awaiting_payment", "payment_processing", "paid",
                      "fulfilling", "fulfilled", "failed", "disputed",
                      "refund_recommended", "resolved", "abandoned" },
      payment     : { "pending", "confirmed", "finalized", "failed", "expired" },
      fulfillment : { "not_started", "in_progress", "succeeded", "failed" },
      action      : { "retry_same_request", "retry_same_payment",
                      "await_reconciliation", "create_new_intent",
                      "open_dispute", "await_resolution",
                      "record_external_refund", "request_seller_review",
                      "none" } ]

\* "" for a transaction that is in no bucket yet.
ReconciliationStages ==
    { "", "challenged", "verified", "finalized", "fulfilled", "failed", "disputed" }

-----------------------------------------------------------------------------
\* The lifecycle projection

\* Payment, and the advice it implies, before the status is looked at.
PaymentView(t) ==
    CASE t.paymentFinality = "confirmed" ->
           [ commerce |-> "payment_processing", payment |-> "confirmed",
             action |-> "await_reconciliation" ]
      [] t.paymentFinality = "finalized" ->
           [ commerce |-> "paid", payment |-> "finalized",
             action |-> "retry_same_request" ]
      [] t.paymentFinality = "failed" ->
           [ commerce |-> "failed", payment |-> "failed",
             action |-> "create_new_intent" ]
      [] t.paymentFinality = "none" ->
           [ commerce |-> "awaiting_payment", payment |-> "pending",
             action |-> "retry_same_request" ]

\* A checkout that was never paid is given up when it expires.
Abandoned(t, expired) ==
    t.status = "PAYMENT_REQUIRED" /\ t.paymentFinality = "none" /\ expired

FulfillmentView(t) ==
    CASE t.status = "FORWARDED" -> "in_progress"
      [] t.status = "FULFILLED" -> "succeeded"
      [] t.status = "FAILED"    -> "failed"
      [] OTHER ->
           IF t.failureCode # "none" /\ t.status # "PAYMENT_VERIFIED" THEN "failed"
           ELSE IF t.upstreamStatus = "2xx" THEN "succeeded" ELSE "not_started"

\* Faulty variant: any failed delivery of a paid purchase may be repeated.
FaultyFailureAdvice(t) ==
    IF t.fulfillmentAttempts = 1 THEN "retry_same_payment" ELSE "open_dispute"

\* What the buyer of a paid purchase that failed should do.
FailureAdvice(t) ==
    IF CanRetryFulfillment(t) THEN "retry_same_payment"
    ELSE IF t.failureCode = "upstream_timeout" THEN "request_seller_review"
    ELSE "open_dispute"

CommerceView(t) ==
    CASE t.status = "FORWARDED"          -> "fulfilling"
      [] t.status = "FULFILLED"          -> "fulfilled"
      [] t.status = "FAILED"             -> "failed"
      [] t.status = "DISPUTED"           -> "disputed"
      [] t.status = "REFUND_RECOMMENDED" -> "refund_recommended"
      [] t.status = "RESOLVED"           -> "resolved"
      [] OTHER                           -> PaymentView(t).commerce

Advice(t) ==
    CASE t.status \in {"FULFILLED", "RESOLVED"}                     -> "none"
      [] t.status = "FAILED" /\ t.paymentFinality = "finalized"     -> FailureAdvice(t)
      [] t.status = "DISPUTED"                                      -> "await_resolution"
      [] t.status = "REFUND_RECOMMENDED"                            -> "record_external_refund"
      [] OTHER                                                      -> PaymentView(t).action

CommerceLifecycleAt(t, expired, sellerReportedRefund) ==
    IF Abandoned(t, expired)
      THEN [ commerce |-> "abandoned", payment |-> "expired",
             fulfillment |-> "not_started", action |-> "create_new_intent" ]
      ELSE [ commerce    |-> CommerceView(t),
             payment     |-> PaymentView(t).payment,
             fulfillment |-> FulfillmentView(t),
             action      |-> IF sellerReportedRefund THEN "none" ELSE Advice(t) ]

SellerOutcomeAt(t, expired) ==
    LET report == CommerceLifecycleAt(t, expired, FALSE) IN
    CASE report.commerce \in {"payment_processing", "paid"} -> "payment_processing"
      [] report.commerce = "failed" ->
           IF report.payment = "failed" THEN "payment_rejected"
                                       ELSE "fulfillment_failed"
      [] OTHER -> report.commerce

\* Service.purchaseReceipt: only for a finalized payment, and only with a
\* chain that verifies (EvidenceChain); an empty one never does.
HasReceipt(i) == txn[i].paymentFinality = "finalized" /\ chain[i] # << >>

-----------------------------------------------------------------------------
\* The sales figures

\* Faulty variant: a verified payment counts as a finalized one.
FaultyReconciliation(t) ==
    CASE t.status = "PAYMENT_REQUIRED"                    -> "challenged"
      [] t.status \in {"PAYMENT_VERIFIED", "FORWARDED"}   -> "finalized"
      [] t.status = "FULFILLED"                           -> "fulfilled"
      [] t.status = "FAILED"                              -> "failed"
      [] t.status \in {"DISPUTED", "REFUND_RECOMMENDED", "RESOLVED"} -> "disputed"
      [] OTHER                                            -> ""

\* The one bucket a transaction is reported in.
Reconciliation(t) ==
    CASE t.status = "PAYMENT_REQUIRED"                    -> "challenged"
      [] t.status \in {"PAYMENT_VERIFIED", "FORWARDED"}   ->
           IF t.paymentFinality = "finalized" THEN "finalized" ELSE "verified"
      [] t.status = "FULFILLED"                           -> "fulfilled"
      [] t.status = "FAILED"                              -> "failed"
      [] t.status \in {"DISPUTED", "REFUND_RECOMMENDED", "RESOLVED"} -> "disputed"
      [] OTHER                                            -> ""

\* transactionResponse: an abandoned checkout has no reconciliation.
PublicStage(t, expired) ==
    IF SellerOutcomeAt(t, expired) = "abandoned" THEN "" ELSE Reconciliation(t)

\* addAggregate, over all rows <<intent, stage>>: one bucket per stage for the
\* seller as a whole ("all") and one for each route.
Aggregates(rows) ==
    [ bucket \in ({"all"} \cup Intents) \X (ReconciliationStages \ {""}) |->
        Cardinality({row \in rows : /\ row[2] = bucket[2]
                                    /\ bucket[1] \in {"all", row[1]}}) ]

\* DashboardService.Summary: the rows a paged query returns (see Listing).
SummaryRows(expired) ==
    {<<i, PublicStage(txn[i], expired)>> : i \in {j \in Intents : txn[j] # NoTxn}}

AggregateResponses(rows) == Aggregates({row \in rows : row[2] # ""})

\* sameReconciliationFacts
SameFacts(s, t) ==
    s.status = t.status /\ s.paymentFinality = t.paymentFinality

\* newestTransactions fails (ErrProjectionConflict) when two snapshots of one
\* version differ.
ProjectionConflict(snapshots) ==
    \E s, t \in snapshots :
        /\ s[1] = t[1] /\ s[2].version = t[2].version
        /\ ~SameFacts(s[2], t[2])

newestTransactions(snapshots) ==
    {s \in snapshots :
        \A t \in snapshots : t[1] = s[1] => t[2].version <= s[2].version}

\* Repeated snapshots of a transaction are counted once, by the newest.
AggregateSeller(snapshots) ==
    Aggregates({<<s[1], Reconciliation(s[2])>> : s \in newestTransactions(snapshots)})

\* summarizeTransactions of the seller workspace: every row in one column.
SummaryColumn(t, expired) ==
    CASE SellerOutcomeAt(t, expired) = "abandoned"     -> "abandoned"
      [] t.status = "FULFILLED"                        -> "fulfilled"
      [] t.status \in {"FAILED", "REFUND_RECOMMENDED"} -> "failed"
      [] t.status = "DISPUTED"                         -> "disputed"
      [] OTHER                                         -> "pending"

-----------------------------------------------------------------------------
\* Properties

Stored == {i \in Intents : txn[i] # NoTxn}

\* Following the advice never costs the buyer twice and never leaves a payer
\* without a remedy: a buyer is sent to a new checkout only while no money
\* moved, told to pay nothing more only when the seller delivered, told to
\* repeat the payment only while the seller did nothing, and never told that
\* the seller delivered, or has not started, when that is not so.  A finalized
\* purchase has its receipt.
AdviceIsSafe ==
    \A i \in Stored, expired \in BOOLEAN :
        LET t      == txn[i]
            told   == CommerceLifecycleAt(t, expired, FALSE)
            paid   == t.paymentIdentifier # None /\ Settled(t.paymentIdentifier)
        IN
        /\ told \in Reports
        /\ told.action = "create_new_intent" => ~paid
        /\ told.commerce \in {"awaiting_payment", "abandoned"} =>
             ~paid /\ dispatches[i] = 0
        /\ told.payment = "finalized" => paid /\ HasReceipt(i)
        /\ told.payment = "finalized" /\ told.action = "none" =>
             told.fulfillment = "succeeded"
        /\ told.action = "retry_same_payment" => effects[i] = 0
        /\ told.fulfillment = "succeeded" => effects[i] = 1
        /\ told.fulfillment = "not_started" => effects[i] = 0
        /\ told.commerce = "fulfilled" <=> SummaryColumn(t, expired) = "fulfilled"

\* Every copy of a transaction that some handler still holds, with the stored one.
Snapshots ==
    {<<i, txn[i]>> : i \in Stored}
        \cup {<<req[r].intent, view[r]>> : r \in {s \in Requests : view[s] # NoTxn}}

\* The sales figures are true to the money: every snapshot in the process is
\* a version some request stored, so that the figures do not depend on which
\* copies are counted; sales reported as finalized or fulfilled are covered by
\* settled payments, and no settled payment is reported as merely challenged.
SalesMatchLedger ==
    LET sales   == AggregateSeller(Snapshots)
        settled == Cardinality({id \in PaymentIds : Settled(id)})
    IN
    /\ ~ProjectionConflict(Snapshots)
    /\ sales = AggregateResponses(SummaryRows(FALSE))
    /\ sales[<<"all", "finalized">>] + sales[<<"all", "fulfilled">>] <= settled
    /\ settled <= sales[<<"all", "verified">>] + sales[<<"all", "finalized">>]
                    + sales[<<"all", "fulfilled">>] + sales[<<"all", "failed">>]
                    + sales[<<"all", "disputed">>]
=============================================================================

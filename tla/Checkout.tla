----------------------------- MODULE Checkout -----------------------------
(***************************************************************************)
(* Paid checkout: concurrent POST /pay requests over the transaction       *)
(* store, the payment-claim table, the evidence chain, the x402            *)
(* facilitator and the seller.                                             *)
(*                                                                         *)
(* Each request r runs CheckoutService.Execute and, behind it,             *)
(* ExecutionService.Execute.  The code is split at its I/O calls: one      *)
(* action is one call plus the local code up to the next, so requests      *)
(* interleave at every call.  pc[r] names the call r makes next, and       *)
(* view[r] is the copy of the transaction r works on: it is stale as soon  *)
(* as another request updates the store.                                   *)
(*                                                                         *)
(* A request starts after PaidRouteService.Resolve has claimed its intent. *)
(* Errors of the store, of schema validation, of the entitlement check and *)
(* of the browser purchase session all leave Execute early without a       *)
(* write: Abort stands for them and for a process crash.  A write that is  *)
(* applied but reported as failed is that write followed by an Abort.      *)
(***************************************************************************)
EXTENDS Transaction, FiniteSets, Sequences

CONSTANTS
    Requests,         \* request handlers that may run at the same time
    Intents,          \* purchase intents; transactionIDForIntent is 1:1
    ApprovedIntents,  \* the intents that required (and got) an approval
    OriginalBody,     \* the body frozen in the intent (RequestBodyHash)
    PaymentIdOf,      \* proof -> payment identifier (parsePaymentProof)
    Payers,           \* wallet addresses
    PayerOf,          \* payment identifier -> wallet that signed it
    NoTxn,            \* the store has no transaction for the intent
    Quirks,           \* what the facilitator may do, see below
    AbortAt           \* the calls before which a request may be cut off

\* The ways a facilitator may depart from the ideal one:
\*   payer_omitted     a verify or settle response carries no payer;
\*   payer_differs     the settled payer is not the verified one;
\*   refuses_settled   an authorization is refused although it was, or later
\*                     is, transferred (its nonce is used, a response with
\*                     another amount, a transfer that was still pending).
AllQuirks == {"payer_omitted", "payer_differs", "refuses_settled"}

VARIABLES
    \* DynamoDB
    txn,       \* the transaction of each intent, as a read returns it
    claims,    \* payment-claim items: payment identifier -> intent
    chain,     \* the evidence chain of each transaction: its event types
    \* the outside world
    ledger,    \* what became of a payment: "open", "refused", or its payer
    dispatches,\* how often the seller was called for an intent
    effects,   \* how often such a call took effect at the seller
    \* the request handlers
    pc, req, view, payer, result

store    == <<txn, claims, chain>>
world    == <<ledger, dispatches, effects>>
handlers == <<pc, req, view, payer, result>>
vars     == <<txn, claims, chain, ledger, dispatches, effects,
              pc, req, view, payer, result>>

\* The handler calls of ExecutionService.Execute between the claim and the
\* stored outcome: the request owns the one seller invocation.
OwnerPCs == { "recordForwarding", "sign", "failBefore", "dispatch",
              "saveOutcome" }

PCs == OwnerPCs \cup
    { "idle", "loadForRetry", "prepareRetry", "load", "create",
      "recordChallenge", "verify", "saveVerified", "recordVerification",
      "settle", "finalize", "failPayment", "review", "claim",
      "recordDelivery" }

EventTypes == { "payment.challenged", "payment.verified", "proxy.forwarded",
                "delivery.succeeded", "delivery.failed" }

RequestRecords ==
    [ intent : Intents \cup {None}, proof : Proofs \cup {None},
      body : Bodies \cup {None} ]

\* What the seller call (or the step before it) reported to the handler.
Results ==
    [ code : FailureCodes, status : UpstreamStatuses \cup {None},
      retrySafe : BOOLEAN ]

NoRequest == [intent |-> None, proof |-> None, body |-> None]
NoResult  == [code |-> "none", status |-> None, retrySafe |-> FALSE]

ASSUME CheckoutAssumption ==
    /\ ApprovedIntents \subseteq Intents
    /\ OriginalBody \in Bodies
    /\ PaymentIdOf \in [Proofs -> PaymentIds]
    /\ PayerOf \in [PaymentIds -> Payers]
    /\ None \notin Intents \cup Payers
    /\ Payers \cap {"open", "refused"} = {}
    /\ NoTxn \notin Transactions
    /\ Quirks \subseteq AllQuirks
    /\ AbortAt \subseteq PCs \ {"idle"}

Settled(id) == ledger[id] \in Payers

Init ==
    /\ txn        = [i \in Intents |-> NoTxn]
    /\ claims     = [id \in PaymentIds |-> None]
    /\ chain      = [i \in Intents |-> << >>]
    /\ ledger     = [id \in PaymentIds |-> "open"]
    /\ dispatches = [i \in Intents |-> 0]
    /\ effects    = [i \in Intents |-> 0]
    /\ pc         = [r \in Requests |-> "idle"]
    /\ req        = [r \in Requests |-> NoRequest]
    /\ view       = [r \in Requests |-> NoTxn]
    /\ payer      = [r \in Requests |-> None]
    /\ result     = [r \in Requests |-> NoResult]

-----------------------------------------------------------------------------
\* Handler control

\* The handler returns to its caller; its slot is free for another request.
Return(r) ==
    /\ pc'     = [pc EXCEPT ![r] = "idle"]
    /\ req'    = [req EXCEPT ![r] = NoRequest]
    /\ view'   = [view EXCEPT ![r] = NoTxn]
    /\ payer'  = [payer EXCEPT ![r] = None]
    /\ result' = [result EXCEPT ![r] = NoResult]

Goto(r, next) == pc' = [pc EXCEPT ![r] = next]

\* The body decides between a first execution and a corrected retry.
Begin(r, i, proof, body) ==
    /\ pc[r] = "idle"
    /\ req' = [req EXCEPT ![r] = [intent |-> i, proof |-> proof, body |-> body]]
    /\ Goto(r, IF body = OriginalBody THEN "load" ELSE "loadForRetry")
    /\ UNCHANGED <<store, world, view, payer, result>>

\* A crash, or an error that makes Execute return between two calls.
Abort(r) ==
    /\ pc[r] \in AbortAt
    /\ Return(r)
    /\ UNCHANGED <<store, world>>

-----------------------------------------------------------------------------
\* Conditional writes of the transaction repository

\* Faulty variant: last writer wins.
FaultyVersionMatches(r) == txn[req[r].intent] # NoTxn

\* Update with the version r loaded: the write is refused once any other
\* request has written the transaction.
VersionMatches(r) ==
    /\ txn[req[r].intent] # NoTxn
    /\ txn[req[r].intent].version = view[r].version

\* A mutation and its Update: can is the guard of the mutating method, next
\* the record it makes.  Store it and go on to the next call, or give up.
Update(r, can, next, after) ==
    IF can /\ VersionMatches(r)
      THEN /\ txn'  = [txn EXCEPT ![req[r].intent] = Restore(next)]
           /\ view' = [view EXCEPT ![r] = next]
           /\ Goto(r, after)
           /\ UNCHANGED <<req, payer, result>>
      ELSE Return(r) /\ UNCHANGED txn

\* An update that ends the request, whether it was applied or refused.
UpdateAndReturn(r, can, next) ==
    /\ txn' = IF can /\ VersionMatches(r)
                THEN [txn EXCEPT ![req[r].intent] = Restore(next)]
                ELSE txn
    /\ Return(r)

appendEvent(i, event) == chain' = [chain EXCEPT ![i] = Append(@, event)]

\* appendOnce: the event is in the chain already, or is appended.  A lost
\* race on the sequence number is an error of the call, hence an Abort.
appendOnce(i, event) ==
    IF \E n \in DOMAIN chain[i] : chain[i][n] = event
      THEN UNCHANGED chain
      ELSE appendEvent(i, event)

-----------------------------------------------------------------------------
\* The corrected-body retry of a failed fulfillment

\* Faulty variant: counts attempts from zero, so the retry is never offered.
FaultyLoadForRetry(r) ==
    LET t == txn[req[r].intent] IN
    /\ pc[r] = "loadForRetry"
    /\ IF /\ t # NoTxn
          /\ CanRetryFulfillment(t) /\ t.fulfillmentAttempts = 0
         THEN /\ view' = [view EXCEPT ![r] = t]
              /\ Goto(r, "prepareRetry")
              /\ UNCHANGED <<req, payer, result>>
         ELSE Return(r)
    /\ UNCHANGED <<store, world>>

LoadForRetry(r) ==
    LET t == txn[req[r].intent] IN
    /\ pc[r] = "loadForRetry"
    /\ IF /\ t # NoTxn
          /\ CanRetryFulfillment(t)
          /\ req[r].proof # None
          /\ req[r].proof = t.paymentProofHash
         THEN /\ view' = [view EXCEPT ![r] = t]
              /\ Goto(r, "prepareRetry")
              /\ UNCHANGED <<req, payer, result>>
         ELSE Return(r)
    /\ UNCHANGED <<store, world>>

PrepareRetry(r) ==
    /\ pc[r] = "prepareRetry"
    /\ Update(r, CanRetryFulfillment(view[r]),
              PrepareFulfillmentRetry(view[r], req[r].body), "claim")
    /\ UNCHANGED <<claims, chain, world>>

-----------------------------------------------------------------------------
\* loadOrCreateTransaction, the challenge, and what to do next

Load(r) ==
    LET t == txn[req[r].intent] IN
    /\ pc[r] = "load"
    /\ view' = [view EXCEPT ![r] = t]
    /\ Goto(r, IF t = NoTxn THEN "create" ELSE "recordChallenge")
    /\ UNCHANGED <<store, world, req, payer, result>>

FirstTransaction(i) ==
    RequirePayment(IF i \in ApprovedIntents
                     THEN MarkApproved(RequireApproval(NewTransaction))
                     ELSE NewTransaction)

\* A request that loses the race to create the transaction loads the other's.
Create(r) ==
    LET i == req[r].intent IN
    /\ pc[r] = "create"
    /\ IF txn[i] = NoTxn
         THEN /\ txn'  = [txn EXCEPT ![i] = FirstTransaction(i)]
              /\ view' = [view EXCEPT ![r] = FirstTransaction(i)]
              /\ Goto(r, "recordChallenge")
         ELSE /\ Goto(r, "load")
              /\ UNCHANGED <<txn, view>>
    /\ UNCHANGED <<claims, chain, world, req, payer, result>>

\* Faulty variant: a verified payment is never taken up again.
FaultyAfterChallenge(t, proof) ==
    IF proof # None /\ t.paymentIdentifier = None THEN "verify"
    ELSE IF CanMarkForwarded(t) THEN "claim" ELSE "idle"

\* The call after the challenge is recorded, "idle" for an answer at once: a
\* challenge, ErrPaymentReplay or ErrPaymentWalletMismatch.
AfterChallenge(t, proof) ==
    LET finalized == /\ t.status = "PAYMENT_VERIFIED"
                     /\ t.paymentFinality = "finalized"
        inReview  == t.failureCode = "settlement_payer_mismatch"
    IN  CASE proof = None ->
               IF finalized /\ ~inReview THEN "claim" ELSE "idle"
          [] proof # None /\ t.paymentIdentifier = None -> "verify"
          [] OTHER ->
               IF proof # t.paymentProofHash THEN "idle"
               ELSE IF finalized THEN "claim"
               ELSE IF AwaitsSettlement(t) /\ ~inReview
                 THEN "recordVerification" ELSE "idle"

RecordChallenge(r) ==
    LET next == AfterChallenge(view[r], req[r].proof) IN
    /\ pc[r] = "recordChallenge"
    /\ appendOnce(req[r].intent, "payment.challenged")
    /\ IF next = "idle" THEN Return(r)
       ELSE Goto(r, next) /\ UNCHANGED <<req, view, payer, result>>
    /\ UNCHANGED <<txn, claims, world>>

-----------------------------------------------------------------------------
\* Verification and settlement with the facilitator

ReportedPayer(p) ==
    {p} \cup (IF "payer_omitted" \in Quirks THEN {None} ELSE {})

\* Verify answers with the payer, or refuses (or fails) and the request ends.
Verify(r) ==
    /\ pc[r] = "verify"
    /\ \/ /\ \E p \in ReportedPayer(PayerOf[PaymentIdOf[req[r].proof]]) :
               payer' = [payer EXCEPT ![r] = p]
          /\ Goto(r, "saveVerified")
          /\ UNCHANGED <<req, view, result>>
       \/ Return(r)
    /\ UNCHANGED <<store, world>>

\* Faulty variant: the payment claim is overwritten, not created.
FaultySaveVerified(r) ==
    LET i    == req[r].intent
        id   == PaymentIdOf[req[r].proof]
        next == VerifyPayment(view[r], id, req[r].proof)
    IN
    /\ pc[r] = "saveVerified"
    /\ IF CanVerifyPayment(view[r]) /\ VersionMatches(r)
         THEN /\ txn'    = [txn EXCEPT ![i] = next]
              /\ claims' = [claims EXCEPT ![id] = i]
              /\ view'   = [view EXCEPT ![r] = next]
              /\ Goto(r, "recordVerification")
              /\ UNCHANGED <<req, payer, result>>
         ELSE Return(r) /\ UNCHANGED <<txn, claims>>
    /\ UNCHANGED <<chain, world>>

\* One DynamoDB transaction: the payment claim must be new and the version
\* unchanged.
SaveVerified(r) ==
    LET i    == req[r].intent
        id   == PaymentIdOf[req[r].proof]
        next == VerifyPayment(view[r], id, req[r].proof)
    IN
    /\ pc[r] = "saveVerified"
    /\ IF CanVerifyPayment(view[r]) /\ VersionMatches(r) /\ claims[id] = None
         THEN /\ txn'    = [txn EXCEPT ![i] = next]
              /\ claims' = [claims EXCEPT ![id] = i]
              /\ view'   = [view EXCEPT ![r] = next]
              /\ Goto(r, "recordVerification")
              /\ UNCHANGED <<req, payer, result>>
         ELSE Return(r) /\ UNCHANGED <<txn, claims>>
    /\ UNCHANGED <<chain, world>>

RecordVerification(r) ==
    /\ pc[r] = "recordVerification"
    /\ appendOnce(req[r].intent, "payment.verified")
    /\ Goto(r, "settle")
    /\ UNCHANGED <<txn, claims, world, req, view, payer, result>>

\* The facilitator transfers an authorization at most once; asked again it
\* confirms the transfer it made.
Transfer(id, p) ==
    \/ /\ ledger[id] = "open"
       /\ p = PayerOf[id] \/ "payer_differs" \in Quirks
       /\ ledger' = [ledger EXCEPT ![id] = p]
    \/ ledger[id] = p /\ UNCHANGED ledger

Refuse(id) ==
    \/ /\ "refuses_settled" \in Quirks
       /\ UNCHANGED ledger
    \/ /\ ~Settled(id)
       /\ ledger' = [ledger EXCEPT ![id] = "refused"]

\* Only two known payers can disagree.
PayerMismatch(verified, settled) ==
    verified # None /\ settled # None /\ verified # settled

SettleConfirmed(r) ==
    LET id == PaymentIdOf[req[r].proof] IN
    /\ pc[r] = "settle"
    /\ \E p \in Payers :
         /\ Transfer(id, p)
         /\ \E reported \in ReportedPayer(p) :
              Goto(r, IF id # view[r].paymentIdentifier THEN "failPayment"
                      ELSE IF PayerMismatch(payer[r], reported) THEN "review"
                      ELSE "finalize")
    /\ UNCHANGED <<store, dispatches, effects, req, view, payer, result>>

SettleRefused(r) ==
    /\ pc[r] = "settle"
    /\ Refuse(PaymentIdOf[req[r].proof])
    /\ Goto(r, "failPayment")
    /\ UNCHANGED <<store, dispatches, effects, req, view, payer, result>>

\* Faulty variants: a timeout is taken for a refusal, or for a success.
TimeoutIsRefusal(r) ==
    /\ pc[r] = "settle"
    /\ \/ UNCHANGED ledger
       \/ \E p \in Payers : Transfer(PaymentIdOf[req[r].proof], p)
    /\ Goto(r, "failPayment")
    /\ UNCHANGED <<store, dispatches, effects, req, view, payer, result>>

TimeoutIsSuccess(r) ==
    /\ pc[r] = "settle"
    /\ Goto(r, "finalize")
    /\ UNCHANGED <<store, world, req, view, payer, result>>

\* A timeout or an outage: the transfer may have happened all the same.
SettleUnknown(r) ==
    /\ pc[r] = "settle"
    /\ \/ UNCHANGED ledger
       \/ \E p \in Payers : Transfer(PaymentIdOf[req[r].proof], p)
    /\ Return(r)
    /\ UNCHANGED <<store, dispatches, effects>>

Finalize(r) ==
    /\ pc[r] = "finalize"
    /\ Update(r, CanFinalizePayment(view[r], PaymentIdOf[req[r].proof]),
              FinalizePayment(view[r]), "claim")
    /\ UNCHANGED <<claims, chain, world>>

RejectPayment(r) ==
    /\ pc[r] = "failPayment"
    /\ UpdateAndReturn(r, CanFailPayment(view[r]),
                       FailPayment(view[r], "settlement_rejected"))
    /\ UNCHANGED <<claims, chain, world>>

Review(r) ==
    /\ pc[r] = "review"
    /\ UpdateAndReturn(r, CanRequirePaymentReview(view[r]),
                       RequirePaymentReview(view[r], "settlement_payer_mismatch"))
    /\ UNCHANGED <<claims, chain, world>>

-----------------------------------------------------------------------------
\* ExecutionService.Execute: claim, evidence, signature, seller, outcome

\* Faulty variant: a reopened transaction may be executed with any body.
FaultyBodyAllowed(r) == pc[r] = "claim"

\* A reopened transaction may only be executed with the body it was reopened for.
BodyAllowed(r) ==
    view[r].recoveryRequestBody \in {None, req[r].body}

Claim(r) ==
    LET i == req[r].intent IN
    /\ pc[r] = "claim"
    /\ IF BodyAllowed(r) /\ VersionMatches(r) /\ CanMarkForwarded(txn[i])
         THEN /\ txn'  = [txn EXCEPT ![i] = MarkForwarded(txn[i])]
              /\ view' = [view EXCEPT ![r] = MarkForwarded(txn[i])]
              /\ Goto(r, "recordForwarding")
              /\ UNCHANGED <<req, payer, result>>
         ELSE Return(r) /\ UNCHANGED txn
    /\ UNCHANGED <<claims, chain, world>>

\* Remember why the seller will not be called, and go on to record it.
GiveUp(r, code) ==
    /\ Goto(r, "failBefore")
    /\ result' = [result EXCEPT ![r].code = code]

\* Faulty variant: forwarding evidence is best effort.
FaultyRecordForwarding(r) ==
    /\ pc[r] = "recordForwarding"
    /\ UNCHANGED chain \/ appendEvent(req[r].intent, "proxy.forwarded")
    /\ Goto(r, "sign")
    /\ UNCHANGED <<txn, claims, world, req, view, payer, result>>

\* The append may fail, and may have been applied even so.
RecordForwarding(r) ==
    /\ pc[r] = "recordForwarding"
    /\ \/ /\ appendEvent(req[r].intent, "proxy.forwarded")
          /\ Goto(r, "sign")
          /\ UNCHANGED result
       \/ /\ \/ UNCHANGED chain
             \/ appendEvent(req[r].intent, "proxy.forwarded")
          /\ GiveUp(r, "forwarding_evidence_unavailable")
    /\ UNCHANGED <<txn, claims, world, req, view, payer>>

Sign(r) ==
    /\ pc[r] = "sign"
    /\ \/ Goto(r, "dispatch") /\ UNCHANGED result
       \/ GiveUp(r, "execution_authorization_unavailable")
    /\ UNCHANGED <<store, world, req, view, payer>>

\* Faulty variant: the request gives up without recording the failure.
FaultyFailBeforeDispatch(r) ==
    /\ pc[r] = "failBefore"
    /\ Return(r)
    /\ UNCHANGED <<store, world>>

FailBeforeDispatch(r) ==
    /\ pc[r] = "failBefore"
    /\ UpdateAndReturn(r, CanMarkFailed(view[r]),
                       MarkFailedWithRecovery(view[r], result[r].code, None, TRUE))
    /\ UNCHANGED <<claims, chain, world>>

\* What Forward can return.  The seller promises that a 400/422 marked
\* retry-safe had no effect; a 2xx had one; any other answer, and a transport
\* error, leaves it open.
SellerAnswers ==
    [ code : {"none"}, status : {"2xx"}, retrySafe : {FALSE} ]
    \cup [ code : {"upstream_status"}, status : {"4xx_input"}, retrySafe : BOOLEAN ]
    \cup [ code : {"upstream_status"}, status : {"other"}, retrySafe : {FALSE} ]
    \cup [ code : TransportCodes, status : {None}, retrySafe : {FALSE} ]

EffectsOf(answer) ==
    CASE answer.status = "2xx" -> {1}
      [] answer.retrySafe      -> {0}
      [] OTHER                 -> {0, 1}

Dispatch(r) ==
    LET i == req[r].intent IN
    /\ pc[r] = "dispatch"
    /\ \E answer \in SellerAnswers :
         /\ result' = [result EXCEPT ![r] = answer]
         /\ \E n \in EffectsOf(answer) :
              effects' = [effects EXCEPT ![i] = @ + n]
    /\ dispatches' = [dispatches EXCEPT ![i] = @ + 1]
    /\ Goto(r, "saveOutcome")
    /\ UNCHANGED <<store, ledger, req, view, payer>>

Outcome(t, answer) ==
    IF answer.status = "2xx" THEN MarkFulfilled(t)
    ELSE MarkFailedWithRecovery(t, answer.code, answer.status, answer.retrySafe)

SaveOutcome(r) ==
    /\ pc[r] = "saveOutcome"
    /\ Update(r, CanMarkFulfilled(view[r]) /\ CanMarkFailed(view[r]),
              Outcome(view[r], result[r]), "recordDelivery")
    /\ UNCHANGED <<claims, chain, world>>

RecordDelivery(r) ==
    /\ pc[r] = "recordDelivery"
    /\ appendEvent(req[r].intent,
                   IF result[r].status = "2xx" THEN "delivery.succeeded"
                                               ELSE "delivery.failed")
    /\ Return(r)
    /\ UNCHANGED <<txn, claims, world>>

-----------------------------------------------------------------------------

Step(r) ==
    \/ LoadForRetry(r) \/ PrepareRetry(r)
    \/ Load(r) \/ Create(r) \/ RecordChallenge(r)
    \/ Verify(r) \/ SaveVerified(r) \/ RecordVerification(r)
    \/ SettleConfirmed(r) \/ SettleRefused(r) \/ SettleUnknown(r)
    \/ Finalize(r) \/ RejectPayment(r) \/ Review(r)
    \/ Claim(r) \/ RecordForwarding(r) \/ Sign(r) \/ FailBeforeDispatch(r)
    \/ Dispatch(r) \/ SaveOutcome(r) \/ RecordDelivery(r)

BeginSome(r) ==
    \E i \in Intents, proof \in Proofs \cup {None}, body \in Bodies :
        Begin(r, i, proof, body)

Next == \E r \in Requests : BeginSome(r) \/ Step(r) \/ Abort(r)

Spec == Init /\ [][Next]_vars

\* A request that is running makes its next call: goroutines are scheduled,
\* and every call carries a deadline.  Nobody has to send a request.
FairSpec == Spec /\ \A r \in Requests : WF_vars(Step(r))

\* Buyers also repeat every request they may send; the facilitator answers a
\* settlement if it is asked often enough, and a delivery that is tried often
\* enough is not cut off each time.
BuyersRetry ==
    /\ \A i \in Intents, proof \in Proofs \cup {None}, body \in Bodies :
         SF_vars(\E r \in Requests : Begin(r, i, proof, body))
    /\ SF_vars(\E r \in Requests : SettleConfirmed(r))
    /\ SF_vars(\E r \in Requests : Claim(r))

RetrySpec == FairSpec /\ BuyersRetry
-----------------------------------------------------------------------------
\* Properties

Count(events, type) == Cardinality({n \in DOMAIN events : events[n] = type})

\* Every variable holds values of its type.
TypeOK ==
    /\ txn \in [Intents -> Transactions \cup {NoTxn}]
    /\ claims \in [PaymentIds -> Intents \cup {None}]
    /\ chain \in [Intents -> Seq(EventTypes)]
    /\ ledger \in [PaymentIds -> Payers \cup {"open", "refused"}]
    /\ dispatches \in [Intents -> Nat]
    /\ effects \in [Intents -> Nat]
    /\ pc \in [Requests -> PCs]
    /\ req \in [Requests -> RequestRecords]
    /\ view \in [Requests -> Transactions \cup {NoTxn}]
    /\ payer \in [Requests -> Payers \cup {None}]
    /\ result \in [Requests -> Results]

\* A purchase takes effect at the seller at most once, however requests,
\* corrected-body retries and crashes interleave ("invokes the seller at most
\* once", ExecutionService.Execute; the retry is the exception it must survive).
SellerEffectAtMostOnce == \A i \in Intents : effects[i] <= 1

\* One payment buys one transaction and one transaction takes one payment:
\* money moves only for an identifier that is claimed, and recorded, by exactly
\* the transaction it was sent for, even if the settle reply was lost.
ChargeBelongsToOneTransaction ==
    \A id \in PaymentIds :
        Settled(id) =>
            /\ claims[id] # None
            /\ \A i \in Intents :
                 txn[i] # NoTxn =>
                    (txn[i].paymentIdentifier = id <=> claims[id] = i)
            /\ txn[claims[id]] # NoTxn

\* The seller is never called for a purchase whose payment has not settled.
NeverForwardUnpaid ==
    \A i \in Intents :
        dispatches[i] > 0 =>
            /\ txn[i] # NoTxn
            /\ txn[i].paymentIdentifier # None
            /\ Settled(txn[i].paymentIdentifier)

\* A payment that was transferred is never written off as rejected, which would
\* send the buyer to a new checkout and a second charge: while its outcome is
\* unknown it stays confirmed.
SettledNeverWrittenOff ==
    \A i \in Intents :
        txn[i] # NoTxn /\ txn[i].paymentFinality = "failed" =>
            ~Settled(txn[i].paymentIdentifier)

\* The seller only ever receives the body the transaction is bound to: the one
\* of the intent, or after a reopening the corrected one, never the other.
SellerSeesBoundBody ==
    \A r \in Requests :
        pc[r] = "dispatch" =>
            LET t == txn[req[r].intent] IN
            req[r].body = IF t.recoveryRequestBody = None
                            THEN OriginalBody ELSE t.recoveryRequestBody

\* The evidence chain tells the story of the calls: no seller call without its
\* forwarding event, none before the challenge and the verification are on
\* record, and no delivery event without a call.
EvidenceCoversDispatch ==
    \A i \in Intents :
        LET events == chain[i] IN
        /\ Count(events, "proxy.forwarded") >= dispatches[i]
        /\ Count(events, "delivery.succeeded") + Count(events, "delivery.failed")
             <= dispatches[i]
        /\ dispatches[i] > 0 =>
             /\ events[1] = "payment.challenged"
             /\ events[2] = "payment.verified"
        /\ Count(events, "delivery.succeeded") = 1 => effects[i] = 1

\* A payment moves at most two seller calls, and each of them was counted as
\* an attempt before it was made.
AttemptsCoverDispatches ==
    \A i \in Intents :
        dispatches[i] > 0 =>
            /\ dispatches[i] <= txn[i].fulfillmentAttempts
            /\ txn[i].fulfillmentAttempts <= 2

FinalityRank == [none |-> 0, confirmed |-> 1, finalized |-> 2, failed |-> 2]

\* No request, however stale its copy, undoes what another recorded: a stored
\* transaction keeps its payment, its finality only advances, its attempts are
\* not forgotten, a fulfilled one keeps everything but may be disputed, and every
\* change is a new version.
RecordedFactsPersist ==
    [][\A i \in Intents :
         txn[i] # NoTxn /\ txn'[i] # txn[i] =>
            /\ txn'[i] # NoTxn
            /\ txn'[i].version = txn[i].version + 1
            /\ txn[i].paymentIdentifier # None =>
                 /\ txn'[i].paymentIdentifier = txn[i].paymentIdentifier
                 /\ txn'[i].paymentProofHash = txn[i].paymentProofHash
            /\ FinalityRank[txn'[i].paymentFinality]
                 >= FinalityRank[txn[i].paymentFinality]
            /\ txn[i].paymentFinality \in {"finalized", "failed"} =>
                 txn'[i].paymentFinality = txn[i].paymentFinality
            /\ txn'[i].fulfillmentAttempts >= txn[i].fulfillmentAttempts
            /\ txn[i].status = "FULFILLED" =>
                 txn'[i] = [txn[i] EXCEPT !.status = "DISPUTED", !.version = @ + 1]]_vars

\* "Settlement reports a different payer after verification: ... never forward."
NeverForwardForeignPayer ==
    \A i \in Intents :
        dispatches[i] > 0 =>
            ledger[txn[i].paymentIdentifier] = PayerOf[txn[i].paymentIdentifier]

Decided(i) == txn[i] # NoTxn /\ txn[i].status \in {"FULFILLED", "FAILED"}

\* A claimed delivery is decided: a forwarded transaction becomes fulfilled or
\* failed, so that the buyer has either the goods or a remedy.
ForwardedIsDecided ==
    \A i \in Intents :
        (txn[i] # NoTxn /\ txn[i].status = "FORWARDED") ~> Decided(i)

\* A payment that another wallet made waits for a person to review it.
InReview(i) == txn[i] # NoTxn /\ txn[i].failureCode = "settlement_payer_mismatch"

\* A buyer who repeats the request after an unknown settlement outcome gets
\* there: a verified payment is settled and its delivery decided, unless it is
\* held for review.
VerifiedIsDecided ==
    BuyersRetry =>
        \A i \in Intents :
            (txn[i] # NoTxn /\ txn[i].status = "PAYMENT_VERIFIED") ~> Decided(i) \/ InReview(i)

Retryable(i) == txn[i] # NoTxn /\ CanRetryFulfillment(txn[i])

\* A buyer who sends a corrected body once, with the same payment, while the
\* retry is on offer gets the second attempt and its outcome, whichever of the
\* requests that race for it makes the call.  Nobody has to repeat a request.
SendsCorrection(r, i) ==
    /\ pc[r] = "loadForRetry"
    /\ req[r].intent = i
    /\ req[r].proof = txn[i].paymentProofHash

CorrectedRetryIsDecided ==
    \A i \in Intents :
        Retryable(i) /\ (\E r \in Requests : SendsCorrection(r, i))
            ~> Decided(i) /\ txn[i].fulfillmentAttempts = 2

\* A failure the buyer is told to retry with the same payment is retried by a
\* buyer who repeats the request: the retry "may carry corrected request
\* bytes", it does not have to.  The code refuses the original bytes.
RetryableIsRetried == \A i \in Intents : Retryable(i) ~> ~Retryable(i)
=============================================================================

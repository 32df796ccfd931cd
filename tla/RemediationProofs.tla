------------------------- MODULE RemediationProofs -------------------------
(***************************************************************************)
(* The safety of Remediation, for any number of requests, clerks, intents  *)
(* and references.                                                         *)
(*                                                                         *)
(* Disputes write the transaction that checkouts work on, so the proof     *)
(* first carries the invariant of CheckoutProofs over the clerks' writes:  *)
(* they touch only a transaction that no request owns, and keep its        *)
(* payment.  A clerk, like a request, acts on a copy that is the stored    *)
(* record if it has its version; a transaction in dispute is written by    *)
(* clerks alone, and only one of them is about to record its dispute.      *)
(* What a buyer is told of a purchase (Reporting) is true, since every     *)
(* failure is stored with its reason.  All of it implements Purchase: each *)
(* step of a request or a clerk is one step of the purchase, or none.      *)
(***************************************************************************)
EXTENDS Remediation, Reporting, CheckoutProofs

\* The dispute and refund requests, by control point.
ClerkRecords ==
    [ pc : ClerkPCs, intent : Intents \cup {None}, view : Transactions \cup {NoTxn},
      dispute : DisputeRecords \cup {None}, refund : RefundRecords \cup {None} ]

\* The calls of Service.Create after its load.
DisputePCs == {"open", "record", "recommend"}

\* What a verdict says of the delivery is true of the record t, and of the seller.
Truth(i, d, t) ==
    /\ d.reason = "not_delivered" /\ d.status = "refund_recommended" =>
         t.upstreamStatus # "2xx"
    /\ d.reason = "not_delivered" /\ d.status = "denied" => effects[i] = 1

\* A clerk k works on a copy that is the stored record if it has its version.
ClerkOK(k) ==
    k.pc \in DisputePCs =>
        /\ k.intent \in Intents
        /\ k.view \in Transactions
        /\ k.dispute \in DisputeRecords
        /\ txn[k.intent] # NoTxn
        /\ k.view.version <= txn[k.intent].version
        /\ k.view.version = txn[k.intent].version => k.view = txn[k.intent]
        /\ Truth(k.intent, k.dispute, k.view)
        /\ k.pc = "open" => k.view.status \in {"FULFILLED", "FAILED"}
        /\ k.pc # "open" => InDispute(k.view) /\ InDispute(txn[k.intent])
        /\ k.pc = "record" =>
             /\ disputes[k.intent] = << >>
             /\ Truth(k.intent, k.dispute, txn[k.intent])

\* One clerk at a time is about to record the dispute of a transaction.
OneRecorder ==
    \A b, c \in Clerks :
        /\ clerk[b].pc = "record"
        /\ clerk[c].pc = "record"
        /\ clerk[b].intent = clerk[c].intent
        => b = c

\* A stored dispute is the only one, and its verdict is true.
DisputesOK(i) ==
    /\ Len(disputes[i]) <= 1
    /\ Len(disputes[i]) = 1 =>
         /\ txn[i] # NoTxn
         /\ InDispute(txn[i])
         /\ Truth(i, disputes[i][1], txn[i])

\* A refund belongs to a recorded dispute, and is the only one of that dispute.
RefundsOK ==
    /\ \A x \in refunds : x.dispute \in DOMAIN disputes[x.intent]
    /\ \A x, y \in refunds : x.intent = y.intent /\ x.dispute = y.dispute => x = y
    /\ \A c \in Clerks : clerk[c].pc = "audit" => clerk[c].refund \in refunds

\* Disputes, refunds, audit events and clerks have their types.
RemediesType ==
    /\ disputes \in [Intents -> Seq(DisputeRecords)]
    /\ refunds \subseteq RefundRecords
    /\ audited \subseteq refunds
    /\ clerk \in [Clerks -> ClerkRecords]

\* The invariant of the checkouts, which the clerks keep, and what the clerks
\* add to it.
RemediationInv ==
    /\ EvidenceInv
    /\ RemediesType
    /\ \A c \in Clerks : ClerkOK(clerk[c])
    /\ OneRecorder
    /\ \A i \in Intents : DisputesOK(i)
    /\ RefundsOK

-----------------------------------------------------------------------------
\* The clerks' writes of a transaction

\* The record t is s in a later stage of its dispute.
Disputed(s, t) ==
    /\ t \in Transactions
    /\ t.version = s.version + 1
    /\ s.status \in {"FULFILLED", "FAILED", "DISPUTED", "REFUND_RECOMMENDED"}
    /\ t.status \in {"DISPUTED", "REFUND_RECOMMENDED"}
    /\ t.paymentIdentifier = s.paymentIdentifier
    /\ t.paymentProofHash = s.paymentProofHash
    /\ t.paymentFinality = s.paymentFinality
    /\ t.fulfillmentAttempts = s.fulfillmentAttempts
    /\ t.upstreamStatus = s.upstreamStatus
    /\ t.failureCode = s.failureCode

\* Such a write keeps what the record says true.
LEMMA DisputedStored ==
    ASSUME NEW i \in Intents, NEW s \in Transactions, NEW t, StoredOK(i, s), Disputed(s, t)
    PROVE  StoredOK(i, t)
BY DEF StoredOK, Disputed, ClaimedOK

\* It keeps the invariant of the checkouts and of their evidence.
LEMMA DisputeWrite ==
    ASSUME EvidenceInv, NEW i \in Intents, NEW t, txn[i] # NoTxn, Disputed(txn[i], t),
           txn' = [txn EXCEPT ![i] = t], UNCHANGED <<claims, chain, world, handlers>>
    PROVE  EvidenceInv'
<1>1. Inv /\ TypeOK /\ t \in Transactions /\ txn[i] \in Transactions /\ StoredOK(i, txn[i])
  BY DEF EvidenceInv, Inv, RecordOK, TypeOK, Disputed
<1>2. /\ \A j \in Intents : txn'[j] = IF j = i THEN t ELSE txn[j]
      /\ UNCHANGED <<claims, chain, ledger, dispatches, effects, pc, req, view, payer, result>>
  BY <1>1 DEF TypeOK, world, handlers
<1>3. TypeOK'
  BY <1>1, <1>2 DEF TypeOK
<1>4. t # NoTxn /\ t.version > txn[i].version
  BY <1>1, CheckoutAssumption DEF Disputed, Transactions
<1>5. FactsPersist /\ \A id \in PaymentIds : PaymentOK(id)'
  BY <1>1, <1>2, PaymentsKept DEF Disputed
<1>6. StoreAdvances
  BY <1>2, <1>4 DEF StoreAdvances
<1>7. ASSUME NEW q \in Requests PROVE RequestOK(q)'
  <2>1. pc[q] \in OwnerPCs => req[q].intent \in Intents \ {i}
    BY <1>1 DEF Inv, RequestOK, ParamsOK, OwnerOK, OwnerPCs, Txn, Disputed
  <2> QED BY <1>1, <1>2, <1>3, <1>5, <1>6, <2>1, RequestKept
<1>8. OneOwner'
  BY <1>1, <1>2 DEF Inv, OneOwner
<1>9. ASSUME NEW j \in Intents PROVE RecordOK(j)'
  <2>1. RecordOK(j) /\ StoredOK(i, t)
    BY <1>1, DisputedStored DEF Inv
  <2>2. txn[j] # NoTxn => StoredOK(j, txn'[j])
    BY <1>2, <2>1 DEF RecordOK
  <2>3. txn'[j] = NoTxn <=> txn[j] = NoTxn
    BY <1>2, <1>4
  <2> QED BY <1>2, <2>1, <2>2, <2>3 DEF RecordOK, StoredOK, ClaimedOK, Settled
<1>10. Inv'
  BY <1>3, <1>5, <1>7, <1>8, <1>9 DEF Inv
<1>11. \A j \in Intents : Delivered(j)' <=> Delivered(j)
  BY <1>2, <1>4 DEF Delivered, Disputed
<1>12. ASSUME NEW j \in Intents PROVE ChainOK(j)'
  <2>1. ChainOK(j)
    BY DEF EvidenceInv
  <2>2. txn'[j] # NoTxn /\ txn'[j].paymentFinality = "finalized" =>
          txn[j] # NoTxn /\ txn[j].paymentFinality = "finalized"
    BY <1>2 DEF Disputed
  <2>3. Pending(j)' = Pending(j) /\ Forwards(j)' = Forwards(j) /\ Outcomes(j)' = Outcomes(j)
    BY <1>2 DEF Pending, Forwards, Outcomes
  <2> QED BY <1>2, <1>11, <2>1, <2>2, <2>3 DEF ChainOK, BeginsOK
<1>13. ASSUME NEW q \in Requests PROVE StoryOK(q)'
  <2>1. StoryOK(q) /\ (pc[q] # "idle" => req[q].intent \in Intents)
    BY <1>1 DEF EvidenceInv, Inv, RequestOK, ParamsOK
  <2>2. pc[q] # "idle" => (Delivered(req[q].intent)' <=> Delivered(req[q].intent))
    BY <1>2, <1>11, <2>1 DEF Delivered
  <2> QED BY <1>2, <2>1, <2>2 DEF StoryOK, Forwards
<1> QED BY <1>10, <1>12, <1>13 DEF EvidenceInv

\* OpenDispute and RecommendRefund, as they are stored.
LEMMA DisputedBy ==
    ASSUME NEW i \in Intents, NEW s \in Transactions, StoredOK(i, s),
           s.status \in {"FULFILLED", "FAILED", "DISPUTED", "REFUND_RECOMMENDED"}
    PROVE  /\ Disputed(s, OpenDispute(s)) /\ Restore(OpenDispute(s)) = OpenDispute(s)
           /\ Disputed(s, RecommendRefund(s)) /\ Restore(RecommendRefund(s)) = RecommendRefund(s)
<1>1. ASSUME NEW next \in {"DISPUTED", "REFUND_RECOMMENDED"}
      PROVE  Disputed(s, transition(s, next)) /\ Restore(transition(s, next)) = transition(s, next)
  <2>1. PICK t : t = transition(s, next)
    OBVIOUS
  <2>2. t \in Transactions
    BY <2>1, TransitionType DEF Statuses
  <2>3. /\ t.status = next /\ t.version = s.version + 1
        /\ t.paymentIdentifier = s.paymentIdentifier
        /\ t.paymentProofHash = s.paymentProofHash
        /\ t.paymentFinality = s.paymentFinality
        /\ t.fulfillmentAttempts = s.fulfillmentAttempts
        /\ t.upstreamStatus = s.upstreamStatus
        /\ t.failureCode = s.failureCode
    BY <2>1 DEF transition, Transactions
  <2>4. s.fulfillmentAttempts # 0
    BY DEF StoredOK
  <2> QED BY <2>1, <2>2, <2>3, <2>4 DEF Disputed, Restore
<1> QED BY <1>1 DEF OpenDispute, RecommendRefund

-----------------------------------------------------------------------------
\* What any step keeps for the clerks

\* A record is only replaced by a newer one, a disputed one by a disputed one
\* with the same delivery, and an effect at the seller is not undone.
StoreMoves ==
    /\ StoreAdvances
    /\ \A i \in Intents :
         txn[i] # NoTxn /\ InDispute(txn[i]) =>
            /\ InDispute(txn'[i])
            /\ txn'[i].upstreamStatus = txn[i].upstreamStatus
    /\ \A i \in Intents : effects[i] = 1 => effects'[i] = 1

\* A dispute ends the delivery: the requests leave the record alone and do not
\* call the seller.
LEMMA RequestsMove ==
    ASSUME Inv, Inv', Next
    PROVE  /\ StoreMoves
           /\ \A i \in Intents :
                txn[i] # NoTxn /\ InDispute(txn[i]) =>
                  txn'[i] = txn[i] /\ dispatches'[i] = dispatches[i]
<1>1. PICK r \in Requests : BeginSome(r) \/ Step(r) \/ Abort(r)
  BY DEF Next
<1>2. TypeOK /\ TypeOK'
  BY DEF Inv
<1>3. ASSUME NEW i \in Intents, txn[i] # NoTxn
      PROVE  /\ txn'[i] # NoTxn
             /\ txn'[i] = txn[i] \/ txn'[i].version > txn[i].version
             /\ InDispute(txn[i]) => txn'[i] = txn[i]
  <2>1. txn'[i] = txn[i] \/ Advances(txn[i], txn'[i])
    BY <1>1, <1>3, StepAdvances DEF AdvancesBy
  <2>2. txn[i].version \in Nat
    BY <1>2, <1>3 DEF TypeOK, Transactions
  <2>3. CASE Advances(txn[i], txn'[i])
    BY <2>2, <2>3, CheckoutAssumption DEF Advances, InDispute
  <2> QED BY <1>3, <2>1, <2>3
<1>4. StoreAdvances
  BY <1>3 DEF StoreAdvances
<1>5. CASE ~Dispatch(r)
  <2>1. UNCHANGED <<dispatches, effects>>
    BY <1>1, <1>5 DEF BeginSome, Begin, Abort, Step, LoadForRetry, Load, Verify, SettleConfirmed,
       SettleRefused, SettleUnknown, Sign, PrepareRetry, SaveVerified, Finalize, Create,
       RecordChallenge, RecordVerification, RecordForwarding, RecordDelivery,
       RejectPayment, Review, Claim, FailBeforeDispatch, SaveOutcome, store, world
  <2> QED BY <1>3, <1>4, <2>1 DEF StoreMoves
<1>6. CASE Dispatch(r)
  <2>1. PICK i \in Intents : i = req[r].intent
    BY <1>6 DEF Dispatch, Inv, RequestOK, ParamsOK
  <2>2. txn[i].status = "FORWARDED" /\ effects[i] = 0
    BY <1>6, <2>1 DEF Dispatch, Inv, RequestOK, OwnerOK, OwnerPCs, PrePCs, Txn
  <2>3. \A j \in Intents \ {i} : dispatches'[j] = dispatches[j] /\ effects'[j] = effects[j]
    BY <1>2, <1>6, <2>1 DEF Dispatch, TypeOK
  <2>4. ~InDispute(txn[i])
    BY <2>2 DEF InDispute
  <2> QED BY <1>3, <1>4, <2>2, <2>3, <2>4 DEF StoreMoves
<1> QED BY <1>5, <1>6

\* So does the write of a clerk move the store.
LEMMA ClerkMoves ==
    ASSUME EvidenceInv, NEW i \in Intents, NEW t, txn[i] # NoTxn, Disputed(txn[i], t),
           txn' = [txn EXCEPT ![i] = t], UNCHANGED effects
    PROVE  StoreMoves
<1>1. TypeOK /\ \A j \in Intents : txn'[j] = IF j = i THEN t ELSE txn[j]
  BY DEF EvidenceInv, Inv, TypeOK
<1>2. txn[i].version \in Nat
  BY <1>1 DEF TypeOK, Transactions
<1>3. t # NoTxn /\ t.version > txn[i].version /\ InDispute(t)
        /\ t.upstreamStatus = txn[i].upstreamStatus
  BY <1>2, CheckoutAssumption DEF Disputed, InDispute
<1> QED BY <1>1, <1>3 DEF StoreMoves, StoreAdvances

\* A clerk keeps its part of the invariant while somebody else steps.
LEMMA ClerkKept ==
    ASSUME RemediationInv, EvidenceInv', StoreMoves, NEW k \in ClerkRecords, ClerkOK(k),
           k.pc = "record" => disputes'[k.intent] = disputes[k.intent]
    PROVE  ClerkOK(k)'
<1> SUFFICES ASSUME k.pc \in DisputePCs PROVE ClerkOK(k)'
  BY DEF ClerkOK
<1>1. PICK i \in Intents : i = k.intent
  BY DEF ClerkOK
<1>2. /\ txn[i] # NoTxn /\ txn[i] \in Transactions
      /\ txn'[i] \in Transactions \cup {NoTxn}
      /\ k.view \in Transactions
  BY <1>1 DEF ClerkOK, RemediationInv, EvidenceInv, Inv, TypeOK
<1>3. txn'[i] # NoTxn /\ (txn'[i] = txn[i] \/ txn'[i].version > txn[i].version)
  BY <1>2 DEF StoreMoves, StoreAdvances
<1>4. txn[i].version \in Nat /\ txn'[i].version \in Nat /\ k.view.version \in Nat
  BY <1>2, <1>3 DEF Transactions
<1>5. /\ k.view.version <= txn'[i].version
      /\ k.view.version = txn'[i].version => k.view = txn'[i]
  BY <1>1, <1>3, <1>4 DEF ClerkOK
<1>6. InDispute(txn[i]) => InDispute(txn'[i]) /\ txn'[i].upstreamStatus = txn[i].upstreamStatus
  BY <1>2 DEF StoreMoves
<1>7. effects[i] = 1 => effects'[i] = 1
  BY DEF StoreMoves
<1>8. Truth(i, k.dispute, k.view)'
  BY <1>1, <1>7 DEF ClerkOK, Truth
<1>9. k.pc = "record" => Truth(i, k.dispute, txn[i])'
  BY <1>1, <1>6, <1>7 DEF ClerkOK, Truth
<1>10. k.pc # "open" => InDispute(k.view)' /\ InDispute(txn[i])'
  BY <1>1, <1>6 DEF ClerkOK, InDispute
<1> QED BY <1>1, <1>2, <1>3, <1>5, <1>8, <1>9, <1>10 DEF ClerkOK

\* A stored dispute stays true.
LEMMA DisputesKept ==
    ASSUME NEW i \in Intents, DisputesOK(i), StoreMoves, disputes'[i] = disputes[i]
    PROVE  DisputesOK(i)'
<1>1. effects[i] = 1 => effects'[i] = 1
  BY DEF StoreMoves
<1>2. ASSUME Len(disputes[i]) = 1
      PROVE  txn'[i] # NoTxn /\ InDispute(txn'[i]) /\ txn'[i].upstreamStatus = txn[i].upstreamStatus
  BY <1>2 DEF DisputesOK, StoreMoves, StoreAdvances
<1> QED BY <1>1, <1>2 DEF DisputesOK, Truth, InDispute

\* A step of one clerk, from its parts.
LEMMA ClerkStepOK ==
    ASSUME RemediationInv, EvidenceInv', StoreMoves, RemediesType', NEW c \in Clerks,
           \A b \in Clerks \ {c} : clerk'[b] = clerk[b],
           \A b \in Clerks \ {c} :
             clerk[b].pc = "record" => disputes'[clerk[b].intent] = disputes[clerk[b].intent],
           ClerkOK(clerk[c])',
           clerk'[c].pc = "record" =>
             \A b \in Clerks \ {c} : clerk[b].pc = "record" => clerk[b].intent # clerk'[c].intent,
           \A i \in Intents : DisputesOK(i)', RefundsOK'
    PROVE  RemediationInv'
<1>1. ASSUME NEW b \in Clerks \ {c} PROVE ClerkOK(clerk[b])'
  <2>1. PICK k \in ClerkRecords : k = clerk[b]
    BY DEF RemediationInv, RemediesType
  <2>2. ClerkOK(k) /\ k = clerk'[b] /\ (k.pc = "record" => disputes'[k.intent] = disputes[k.intent])
    BY <2>1 DEF RemediationInv
  <2>3. ClerkOK(k)'
    BY <2>2, ClerkKept
  <2> QED BY <2>2, <2>3 DEF ClerkOK, Truth, InDispute
<1>2. \A b \in Clerks : ClerkOK(clerk[b])'
  BY <1>1
<1>3. OneRecorder'
  BY DEF RemediationInv, OneRecorder
<1> QED BY <1>2, <1>3 DEF RemediationInv

-----------------------------------------------------------------------------
\* One lemma per action of a clerk

\* classify tells what the record says of the delivery.
LEMMA Classified ==
    ASSUME NEW reason \in Reasons, NEW t, t.status \in {"FULFILLED", "FAILED"}
    PROVE  /\ classify(reason, t) \in Verdicts
           /\ reason = "not_delivered" =>
                classify(reason, t) =
                  IF t.status = "FULFILLED" THEN "denied" ELSE "refund_recommended"
<1>1. CASE t.status = "FULFILLED"
  <2>1. DeliverySucceeded(t) = {TRUE}
    BY <1>1 DEF DeliverySucceeded
  <2>2. DeliverySucceeded(t) # {} /\ TRUE \in DeliverySucceeded(t)
    BY <2>1
  <2> QED BY <1>1, <2>2 DEF classify, Verdicts, Reasons
<1>2. CASE t.status = "FAILED"
  <2>1. DeliverySucceeded(t) = {FALSE}
    BY <1>2 DEF DeliverySucceeded
  <2>2. DeliverySucceeded(t) # {} /\ TRUE \notin DeliverySucceeded(t)
    BY <2>1
  <2> QED BY <1>2, <2>2 DEF classify, Verdicts, Reasons
<1> QED BY <1>1, <1>2

\* The store does not move.
LEMMA StillStore ==
    ASSUME RemediationInv, UNCHANGED vars
    PROVE  EvidenceInv' /\ StoreMoves
<1>1. EvidenceInv'
  <2>1. Inv'
    BY NextOK DEF RemediationInv, EvidenceInv
  <2>2. \A i \in Intents : ChainOK(i)'
    BY DEF vars, RemediationInv, EvidenceInv, ChainOK, BeginsOK, Delivered, Forwards, Outcomes,
           Pending
  <2>3. \A r \in Requests : StoryOK(r)'
    BY DEF vars, RemediationInv, EvidenceInv, StoryOK, Delivered, Forwards
  <2> QED BY <2>1, <2>2, <2>3 DEF EvidenceInv
<1>2. StoreMoves
  BY DEF vars, StoreMoves, StoreAdvances
<1> QED BY <1>1, <1>2

\* A clerk that is done, or cut off, keeps nothing.
LEMMA ClerkEnds ==
    ASSUME RemediationInv, EvidenceInv', StoreMoves, NEW c \in Clerks, Set(c, NoClerk),
           UNCHANGED <<disputes, refunds>>, audited' \subseteq refunds
    PROVE  RemediationInv'
<1>1. NoClerk \in ClerkRecords /\ NoClerk.pc = "idle"
  BY DEF NoClerk, Clerk, ClerkRecords, ClerkPCs
<1>2. /\ clerk'[c] = NoClerk /\ \A b \in Clerks \ {c} : clerk'[b] = clerk[b]
      /\ clerk' \in [Clerks -> ClerkRecords]
  BY <1>1 DEF Set, RemediationInv, RemediesType
<1>3. RemediesType'
  BY <1>2 DEF RemediationInv, RemediesType
<1>4. ClerkOK(clerk[c])'
  BY <1>1, <1>2 DEF ClerkOK, DisputePCs
<1>5. \A i \in Intents : DisputesOK(i)'
  BY DisputesKept DEF RemediationInv
<1>6. RefundsOK'
  BY <1>1, <1>2 DEF RemediationInv, RefundsOK
<1> QED BY <1>1, <1>2, <1>3, <1>4, <1>5, <1>6, ClerkStepOK

\* The verdict is true of the record that was read.
LEMMA BeginDisputeOK ==
    ASSUME RemediationInv, NEW c \in Clerks, NEW i \in Intents, NEW reason \in Reasons,
           BeginDispute(c, i, reason)
    PROVE  RemediationInv'
<1>1. EvidenceInv' /\ StoreMoves /\ UNCHANGED <<vars, disputes, refunds, audited>>
  BY StillStore DEF BeginDispute
<1>2. /\ txn[i] \in Transactions /\ StoredOK(i, txn[i]) /\ txn[i] # NoTxn
      /\ txn[i].status \in {"FULFILLED", "FAILED"}
  BY DEF BeginDispute, CanOpenDispute, CanTransition, allowedTransition, RemediationInv,
         EvidenceInv, Inv, TypeOK, RecordOK
<1>3. PICK d : d = [reason |-> reason, status |-> classify(reason, txn[i])]
  OBVIOUS
<1>4. d \in DisputeRecords /\ Truth(i, d, txn[i])
  <2>1. /\ classify(reason, txn[i]) \in Verdicts
        /\ reason = "not_delivered" =>
             classify(reason, txn[i]) =
               IF txn[i].status = "FULFILLED" THEN "denied" ELSE "refund_recommended"
    BY <1>2, Classified
  <2>2. d \in DisputeRecords
    BY <1>3, <2>1 DEF DisputeRecords
  <2>3. d.reason = "not_delivered" =>
          d.status = IF txn[i].status = "FULFILLED" THEN "denied" ELSE "refund_recommended"
    BY <1>3, <2>1
  <2>4. /\ txn[i].status = "FULFILLED" => effects[i] = 1
        /\ txn[i].status = "FAILED" => txn[i].upstreamStatus # "2xx"
    BY <1>2 DEF StoredOK
  <2> QED BY <1>2, <2>2, <2>3, <2>4 DEF Truth
<1>5. PICK k : k = Clerk("open", i, txn[i], d, None)
  OBVIOUS
<1>6. /\ k \in ClerkRecords /\ k.pc = "open" /\ k.intent = i /\ k.view = txn[i] /\ k.dispute = d
  BY <1>2, <1>4, <1>5 DEF Clerk, ClerkRecords, ClerkPCs
<1>7. /\ clerk'[c] = k /\ \A b \in Clerks \ {c} : clerk'[b] = clerk[b]
      /\ clerk' \in [Clerks -> ClerkRecords]
  BY <1>3, <1>5, <1>6 DEF BeginDispute, Set, RemediationInv, RemediesType
<1>8. RemediesType'
  BY <1>1, <1>7 DEF RemediationInv, RemediesType
<1>9. ClerkOK(clerk[c])'
  <2>1. txn[i].version \in Nat
    BY <1>2 DEF Transactions
  <2> QED BY <1>1, <1>2, <1>4, <1>6, <1>7, <2>1 DEF ClerkOK, Truth, vars
<1>10. \A j \in Intents : DisputesOK(j)'
  BY <1>1, DisputesKept DEF RemediationInv
<1>11. RefundsOK'
  BY <1>1, <1>6, <1>7 DEF RemediationInv, RefundsOK
<1> QED BY <1>1, <1>6, <1>7, <1>8, <1>9, <1>10, <1>11, ClerkStepOK

\* What a clerk knows that passes the version condition.
LEMMA ClerkContext ==
    ASSUME RemediationInv, NEW c \in Clerks, clerk[c].pc \in DisputePCs, DisputeVersionMatches(c)
    PROVE  /\ clerk[c] \in ClerkRecords /\ ClerkOK(clerk[c])
           /\ clerk[c].intent \in Intents
           /\ clerk[c].view \in Transactions
           /\ clerk[c].view = txn[clerk[c].intent]
           /\ txn[clerk[c].intent] # NoTxn
           /\ StoredOK(clerk[c].intent, clerk[c].view)
           /\ clerk[c].view.status \in {"FULFILLED", "FAILED", "DISPUTED", "REFUND_RECOMMENDED"}
<1>1. clerk[c] \in ClerkRecords /\ ClerkOK(clerk[c])
  BY DEF RemediationInv, RemediesType
<1>2. /\ clerk[c].intent \in Intents /\ clerk[c].view \in Transactions
      /\ txn[clerk[c].intent] # NoTxn
      /\ clerk[c].view = txn[clerk[c].intent]
  BY <1>1 DEF ClerkOK, DisputeVersionMatches
<1>3. StoredOK(clerk[c].intent, clerk[c].view)
  BY <1>2 DEF RemediationInv, EvidenceInv, Inv, RecordOK
<1>4. clerk[c].view.status \in {"FULFILLED", "FAILED", "DISPUTED", "REFUND_RECOMMENDED"}
  BY <1>1, <1>3 DEF ClerkOK, InDispute, StoredOK
<1> QED BY <1>1, <1>2, <1>3, <1>4

\* The first complaint that is applied closes the transaction to the others.
LEMMA OpenTheDisputeOK ==
    ASSUME RemediationInv, NEW c \in Clerks, OpenTheDispute(c)
    PROVE  RemediationInv'
<1>0. clerk[c].pc = "open" /\ UNCHANGED <<claims, chain, world, handlers, disputes, refunds, audited>>
  BY DEF OpenTheDispute
<1>1. CASE ~DisputeVersionMatches(c)
  <2>1. Set(c, NoClerk) /\ UNCHANGED txn
    BY <1>1 DEF OpenTheDispute, DisputeUpdate
  <2>2. EvidenceInv' /\ StoreMoves
    BY <1>0, <2>1, StillStore DEF vars, world, handlers
  <2> QED BY <1>0, <2>1, <2>2, ClerkEnds DEF RemediationInv, RemediesType
<1>2. CASE DisputeVersionMatches(c)
  <2>1. PICK i, t, u : i = clerk[c].intent /\ t = clerk[c].view /\ u = OpenDispute(t)
    OBVIOUS
  <2>2. /\ clerk[c] \in ClerkRecords /\ ClerkOK(clerk[c]) /\ i \in Intents /\ t \in Transactions
        /\ t = txn[i] /\ txn[i] # NoTxn /\ StoredOK(i, t)
        /\ t.status \in {"FULFILLED", "FAILED", "DISPUTED", "REFUND_RECOMMENDED"}
    BY <1>0, <1>2, <2>1, ClerkContext DEF DisputePCs
  <2>3. Disputed(t, u) /\ Restore(u) = u
    BY <2>1, <2>2, DisputedBy
  <2>4. PICK k : k = [clerk[c] EXCEPT !.pc = "record", !.view = u]
    OBVIOUS
  <2>5. /\ txn' = [txn EXCEPT ![i] = u]
        /\ clerk' = [clerk EXCEPT ![c] = k]
    BY <1>2, <2>1, <2>3, <2>4 DEF OpenTheDispute, DisputeUpdate, Set
  <2>6. EvidenceInv' /\ StoreMoves
    BY <1>0, <2>2, <2>3, <2>5, DisputeWrite, ClerkMoves DEF RemediationInv, world
  <2>7. /\ k \in ClerkRecords /\ k.pc = "record" /\ k.intent = i /\ k.view = u
        /\ k.dispute = clerk[c].dispute
    <3>1. "record" \in ClerkPCs /\ u \in Transactions
      BY <2>3 DEF ClerkPCs, Disputed
    <3>2. k = [[clerk[c] EXCEPT !.pc = "record"] EXCEPT !.view = u]
      BY <2>2, <2>4 DEF ClerkRecords
    <3> QED BY <2>1, <2>2, <3>1, <3>2 DEF ClerkRecords
  <2>8. /\ clerk'[c] = k /\ \A b \in Clerks \ {c} : clerk'[b] = clerk[b]
        /\ clerk' \in [Clerks -> ClerkRecords]
    BY <2>5, <2>7 DEF RemediationInv, RemediesType
  <2>9. RemediesType'
    BY <1>0, <2>8 DEF RemediationInv, RemediesType
  <2>10. txn[i].status \in {"FULFILLED", "FAILED"} /\ ~InDispute(txn[i])
    BY <1>0, <2>1, <2>2 DEF ClerkOK, DisputePCs, InDispute
  <2>11. disputes[i] = << >>
    <3>1. disputes[i] \in Seq(DisputeRecords) /\ DisputesOK(i)
      BY <2>2 DEF RemediationInv, RemediesType
    <3>2. ASSUME NEW s \in Seq(DisputeRecords), Len(s) <= 1, Len(s) # 1 PROVE s = << >>
      <4>1. Len(s) \in Nat
        OBVIOUS
      <4>2. Len(s) = 0
        <5>1. ASSUME NEW n \in Nat, n <= 1, n # 1 PROVE n = 0
          BY <5>1
        <5> QED BY <3>2, <4>1, <5>1
      <4> QED BY <4>2
    <3> QED BY <2>10, <3>1, <3>2 DEF DisputesOK
  <2>12. /\ txn'[i] = u /\ u \in Transactions /\ u # NoTxn /\ InDispute(u)
         /\ u.upstreamStatus = t.upstreamStatus /\ u.version \in Nat
    BY <2>2, <2>3, <2>5, CheckoutAssumption
    DEF RemediationInv, EvidenceInv, Inv, TypeOK, Disputed, InDispute, Transactions
  <2>13. ClerkOK(clerk[c])'
    <3>1. /\ clerk[c].dispute \in DisputeRecords /\ Truth(i, clerk[c].dispute, t)
      BY <1>0, <2>1, <2>2 DEF ClerkOK, DisputePCs
    <3> QED BY <1>0, <2>2, <2>7, <2>8, <2>11, <2>12, <3>1 DEF ClerkOK, Truth, InDispute, world
  <2>14. ASSUME NEW b \in Clerks \ {c}, clerk[b].pc = "record" PROVE clerk[b].intent # i
    BY <2>10, <2>14 DEF RemediationInv, ClerkOK, DisputePCs
  <2>15. \A j \in Intents : DisputesOK(j)'
    BY <1>0, <2>6, DisputesKept DEF RemediationInv
  <2>16. RefundsOK'
    BY <1>0, <2>7, <2>8 DEF RemediationInv, RefundsOK
  <2> QED BY <1>0, <2>6, <2>7, <2>8, <2>9, <2>13, <2>14, <2>15, <2>16, ClerkStepOK
<1> QED BY <1>1, <1>2

\* The dispute of a transaction is recorded once, with a true verdict.
LEMMA RecordDisputeOK ==
    ASSUME RemediationInv, NEW c \in Clerks, RecordDispute(c)
    PROVE  RemediationInv'
<1>0. clerk[c].pc = "record" /\ UNCHANGED <<vars, refunds, audited>>
  BY DEF RecordDispute
<1>1. EvidenceInv' /\ StoreMoves
  BY <1>0, StillStore
<1>2. PICK i, d : i = clerk[c].intent /\ d = clerk[c].dispute
  OBVIOUS
<1>3. clerk[c] \in ClerkRecords /\ ClerkOK(clerk[c])
  BY DEF RemediationInv, RemediesType
<1>4. /\ i \in Intents /\ d \in DisputeRecords /\ disputes[i] = << >> /\ Truth(i, d, txn[i])
      /\ InDispute(txn[i]) /\ txn[i] # NoTxn
  BY <1>0, <1>2, <1>3 DEF ClerkOK, DisputePCs
<1>5. /\ disputes'[i] = <<d>> /\ \A j \in Intents \ {i} : disputes'[j] = disputes[j]
      /\ disputes' \in [Intents -> Seq(DisputeRecords)]
  <2>1. Append(disputes[i], d) = <<d>> /\ <<d>> \in Seq(DisputeRecords)
    BY <1>4
  <2>2. disputes' = [disputes EXCEPT ![i] = <<d>>]
    BY <1>2, <2>1 DEF RecordDispute
  <2> QED BY <1>4, <2>1, <2>2 DEF RemediationInv, RemediesType
<1>6. PICK k : k = IF d.status = "refund_recommended"
                     THEN [clerk[c] EXCEPT !.pc = "recommend"] ELSE NoClerk
  OBVIOUS
<1>7. /\ k \in ClerkRecords /\ k.pc \in {"idle", "recommend"}
      /\ k.pc = "recommend" =>
           k.intent = i /\ k.dispute = d /\ k.view = clerk[c].view
  <2>1. NoClerk \in ClerkRecords /\ NoClerk.pc = "idle"
    BY DEF NoClerk, Clerk, ClerkRecords, ClerkPCs
  <2>2. "recommend" \in ClerkPCs
    BY DEF ClerkPCs
  <2>3. PICK x : x = [clerk[c] EXCEPT !.pc = "recommend"]
    OBVIOUS
  <2>4. x \in ClerkRecords /\ x.pc = "recommend" /\ x.intent = i /\ x.dispute = d
          /\ x.view = clerk[c].view
    BY <1>2, <1>3, <2>2, <2>3 DEF ClerkRecords
  <2> QED BY <1>6, <2>1, <2>3, <2>4
<1>8. /\ clerk'[c] = k /\ \A b \in Clerks \ {c} : clerk'[b] = clerk[b]
      /\ clerk' \in [Clerks -> ClerkRecords]
  <2>1. clerk' = [clerk EXCEPT ![c] = k]
    BY <1>2, <1>6 DEF RecordDispute, Set
  <2> QED BY <1>7, <2>1 DEF RemediationInv, RemediesType
<1>9. RemediesType'
  BY <1>0, <1>5, <1>8 DEF RemediationInv, RemediesType
<1>10. ASSUME NEW b \in Clerks \ {c}, clerk[b].pc = "record"
       PROVE  disputes'[clerk[b].intent] = disputes[clerk[b].intent]
  <2>1. clerk[b].intent # i /\ clerk[b].intent \in Intents
    BY <1>0, <1>2, <1>10 DEF RemediationInv, OneRecorder, ClerkOK, DisputePCs
  <2> QED BY <1>5, <2>1
<1>11. ClerkOK(clerk[c])'
  <2>1. CASE k.pc = "idle"
    BY <1>8, <2>1 DEF ClerkOK, DisputePCs
  <2>2. CASE k.pc = "recommend"
    BY <1>0, <1>2, <1>3, <1>7, <1>8, <2>2 DEF ClerkOK, DisputePCs, Truth, InDispute, vars
  <2> QED BY <1>7, <2>1, <2>2
<1>12. ASSUME NEW j \in Intents PROVE DisputesOK(j)'
  <2>1. CASE j # i
    BY <1>1, <1>5, <2>1, DisputesKept DEF RemediationInv
  <2>2. CASE j = i
    <3>1. Len(disputes'[i]) = 1 /\ disputes'[i][1] = d
      BY <1>5
    <3> QED BY <1>0, <1>4, <2>2, <3>1 DEF DisputesOK, Truth, InDispute, vars
  <2> QED BY <2>1, <2>2
<1>13. RefundsOK'
  <2>1. \A x \in refunds : x.intent \in Intents \ {i}
    <3>1. DOMAIN disputes[i] = {}
      BY <1>4
    <3> QED BY <3>1 DEF RemediationInv, RemediesType, RefundsOK, RefundRecords
  <2>2. \A x \in refunds : x.dispute \in DOMAIN disputes'[x.intent]
    BY <1>5, <2>1 DEF RemediationInv, RefundsOK
  <2>3. \A b \in Clerks : clerk'[b].pc = "audit" => clerk'[b].refund \in refunds
    BY <1>7, <1>8 DEF RemediationInv, RefundsOK
  <2> QED BY <1>0, <2>2, <2>3 DEF RemediationInv, RefundsOK
<1> QED BY <1>1, <1>7, <1>8, <1>9, <1>10, <1>11, <1>12, <1>13, ClerkStepOK

\* The recommendation moves a disputed transaction on.
LEMMA RecommendTheRefundOK ==
    ASSUME RemediationInv, NEW c \in Clerks, RecommendTheRefund(c)
    PROVE  RemediationInv'
<1>0. /\ clerk[c].pc = "recommend"
      /\ UNCHANGED <<claims, chain, world, handlers, disputes, refunds, audited>>
  BY DEF RecommendTheRefund
<1>1. CASE ~DisputeVersionMatches(c)
  <2>1. Set(c, NoClerk) /\ UNCHANGED txn
    BY <1>1 DEF RecommendTheRefund, DisputeUpdate
  <2>2. EvidenceInv' /\ StoreMoves
    BY <1>0, <2>1, StillStore DEF vars, world, handlers
  <2> QED BY <1>0, <2>1, <2>2, ClerkEnds DEF RemediationInv, RemediesType
<1>2. CASE DisputeVersionMatches(c)
  <2>1. PICK i, t, u : i = clerk[c].intent /\ t = clerk[c].view /\ u = RecommendRefund(t)
    OBVIOUS
  <2>2. /\ i \in Intents /\ t \in Transactions
        /\ t = txn[i] /\ txn[i] # NoTxn /\ StoredOK(i, t)
        /\ t.status \in {"FULFILLED", "FAILED", "DISPUTED", "REFUND_RECOMMENDED"}
    BY <1>0, <1>2, <2>1, ClerkContext DEF DisputePCs
  <2>3. Disputed(t, u) /\ Restore(u) = u
    BY <2>1, <2>2, DisputedBy
  <2>4. /\ txn' = [txn EXCEPT ![i] = u] /\ Set(c, NoClerk)
    BY <1>2, <2>1, <2>3 DEF RecommendTheRefund, DisputeUpdate
  <2>5. EvidenceInv' /\ StoreMoves
    BY <1>0, <2>2, <2>3, <2>4, DisputeWrite, ClerkMoves DEF RemediationInv, world
  <2> QED BY <1>0, <2>4, <2>5, ClerkEnds DEF RemediationInv, RemediesType
<1> QED BY <1>1, <1>2

\* A refund takes the one slot of its dispute.
LEMMA SaveRefundOK ==
    ASSUME RemediationInv, NEW c \in Clerks, NEW i \in Intents, NEW reference \in References,
           NEW n \in DOMAIN disputes[i], SaveRefund(c, i, n, reference)
    PROVE  RemediationInv'
<1>1. EvidenceInv' /\ StoreMoves /\ UNCHANGED <<vars, disputes, audited>>
  BY StillStore DEF SaveRefund
<1>2. PICK refund : refund = [intent |-> i, dispute |-> n, reference |-> reference]
  OBVIOUS
<1>3. refund \in RefundRecords /\ refund.intent = i /\ refund.dispute = n
  <2>1. disputes[i] \in Seq(DisputeRecords)
    BY DEF RemediationInv, RemediesType
  <2>2. n \in Nat
    BY <2>1
  <2> QED BY <1>2, <2>2 DEF RefundRecords
<1>4. PICK k : k = Clerk("audit", i, NoTxn, None, refund)
  OBVIOUS
<1>5. k \in ClerkRecords /\ k.pc = "audit" /\ k.refund = refund
  BY <1>3, <1>4 DEF Clerk, ClerkRecords, ClerkPCs
<1>6. Slot(refund) = {} /\ refunds' = refunds \cup {refund} /\ clerk' = [clerk EXCEPT ![c] = k]
  BY <1>2, <1>4 DEF SaveRefund, Set
<1>7. /\ clerk'[c] = k /\ \A b \in Clerks \ {c} : clerk'[b] = clerk[b]
      /\ clerk' \in [Clerks -> ClerkRecords]
  BY <1>5, <1>6 DEF RemediationInv, RemediesType
<1>8. RemediesType'
  BY <1>1, <1>3, <1>6, <1>7 DEF RemediationInv, RemediesType
<1>9. ClerkOK(clerk[c])'
  BY <1>5, <1>7 DEF ClerkOK, DisputePCs
<1>10. \A j \in Intents : DisputesOK(j)'
  BY <1>1, DisputesKept DEF RemediationInv
<1>11. RefundsOK'
  <2>1. \A x \in refunds : ~(x.intent = refund.intent /\ x.dispute = refund.dispute)
    BY <1>6 DEF Slot
  <2>2. \A x \in refunds' : x.dispute \in DOMAIN disputes'[x.intent]
    BY <1>1, <1>3, <1>6 DEF RemediationInv, RefundsOK
  <2>3. \A x, y \in refunds' : x.intent = y.intent /\ x.dispute = y.dispute => x = y
    BY <1>6, <2>1 DEF RemediationInv, RefundsOK
  <2>4. \A b \in Clerks : clerk'[b].pc = "audit" => clerk'[b].refund \in refunds'
    BY <1>5, <1>6, <1>7 DEF RemediationInv, RefundsOK
  <2> QED BY <2>2, <2>3, <2>4 DEF RefundsOK
<1> QED BY <1>1, <1>5, <1>7, <1>8, <1>9, <1>10, <1>11, ClerkStepOK

\* The audit event is of a refund that was recorded.
LEMMA AuditOrAbandonOK ==
    ASSUME RemediationInv, NEW c \in Clerks, AuditRefund(c) \/ AbandonClerk(c)
    PROVE  RemediationInv'
<1>1. EvidenceInv' /\ StoreMoves /\ UNCHANGED <<vars, disputes, refunds>> /\ Set(c, NoClerk)
  BY StillStore DEF AuditRefund, AbandonClerk
<1>2. audited' \subseteq refunds
  BY DEF AuditRefund, AbandonClerk, RemediationInv, RemediesType, RefundsOK
<1> QED BY <1>1, <1>2, ClerkEnds

\* The clerks keep what they have while requests step.
LEMMA RequestStepOK ==
    ASSUME RemediationInv, Next, UNCHANGED remedies
    PROVE  RemediationInv'
<1>1. Inv /\ Inv'
  BY NextOK DEF RemediationInv, EvidenceInv
<1>2. EvidenceInv'
  BY <1>1, EvidenceStep DEF Next, RemediationInv
<1>3. StoreMoves
  BY <1>1, RequestsMove
<1>4. ASSUME NEW c \in Clerks PROVE ClerkOK(clerk[c])'
  <2>1. PICK k \in ClerkRecords : k = clerk[c]
    BY DEF RemediationInv, RemediesType
  <2>2. ClerkOK(k) /\ k = clerk'[c]
    BY <2>1 DEF RemediationInv, remedies
  <2>3. ClerkOK(k)'
    BY <1>2, <1>3, <2>2, ClerkKept DEF remedies
  <2> QED BY <2>2, <2>3 DEF ClerkOK, Truth, InDispute
<1>5. \A i \in Intents : DisputesOK(i)'
  BY <1>3, DisputesKept DEF RemediationInv, remedies
<1>6. RemediesType' /\ OneRecorder' /\ RefundsOK'
  BY DEF RemediationInv, RemediesType, OneRecorder, RefundsOK, remedies
<1> QED BY <1>2, <1>4, <1>5, <1>6 DEF RemediationInv

-----------------------------------------------------------------------------
\* The theorems

\* Nobody has complained at the start.
LEMMA RemediationInitOK == RemediationInit => RemediationInv
<1> SUFFICES ASSUME RemediationInit PROVE RemediationInv
  OBVIOUS
<1>1. EvidenceInv
  BY EvidenceInit DEF RemediationInit
<1>2. NoClerk \in ClerkRecords /\ NoClerk.pc = "idle"
  BY DEF NoClerk, Clerk, ClerkRecords, ClerkPCs
<1>3. /\ clerk = [c \in Clerks |-> NoClerk] /\ refunds = {} /\ audited = {}
      /\ disputes = [i \in Intents |-> << >>]
  BY DEF RemediationInit
<1>4. RemediesType
  BY <1>2, <1>3 DEF RemediesType
<1>5. \A c \in Clerks : clerk[c].pc = "idle"
  BY <1>2, <1>3
<1>6. \A c \in Clerks : ClerkOK(clerk[c])
  BY <1>5 DEF ClerkOK, DisputePCs
<1>7. OneRecorder /\ RefundsOK
  BY <1>3, <1>5 DEF OneRecorder, RefundsOK
<1>8. \A i \in Intents : DisputesOK(i)
  BY <1>3 DEF DisputesOK
<1> QED BY <1>1, <1>4, <1>6, <1>7, <1>8 DEF RemediationInv

\* Every step of a request and of a clerk keeps the invariant.
LEMMA RemediationNextOK == RemediationInv /\ [RemediationNext]_allVars => RemediationInv'
<1> SUFFICES ASSUME RemediationInv, [RemediationNext]_allVars PROVE RemediationInv'
  OBVIOUS
<1>1. CASE UNCHANGED allVars
  <2>1. EvidenceInv' /\ StoreMoves
    BY <1>1, StillStore DEF allVars
  <2>2. ASSUME NEW c \in Clerks PROVE ClerkOK(clerk[c])'
    <3>1. PICK k \in ClerkRecords : k = clerk[c]
      BY DEF RemediationInv, RemediesType
    <3>2. ClerkOK(k) /\ k = clerk'[c]
      BY <1>1, <3>1 DEF RemediationInv, remedies, allVars
    <3>3. ClerkOK(k)'
      BY <1>1, <2>1, <3>2, ClerkKept DEF remedies, allVars
    <3> QED BY <3>2, <3>3 DEF ClerkOK, Truth, InDispute
  <2>3. \A i \in Intents : DisputesOK(i)'
    BY <1>1, <2>1, DisputesKept DEF RemediationInv, remedies, allVars
  <2>4. RemediesType' /\ OneRecorder' /\ RefundsOK'
    BY <1>1 DEF RemediationInv, RemediesType, OneRecorder, RefundsOK, remedies, allVars
  <2> QED BY <2>1, <2>2, <2>3, <2>4 DEF RemediationInv
<1>2. CASE Next /\ UNCHANGED remedies
  BY <1>2, RequestStepOK
<1>3. ASSUME NEW c \in Clerks, NEW i \in Intents, NEW reason \in Reasons, BeginDispute(c, i, reason)
      PROVE  RemediationInv'
  BY <1>3, BeginDisputeOK
<1>4. ASSUME NEW c \in Clerks, NEW i \in Intents, NEW reference \in References,
             NEW n \in DOMAIN disputes[i], SaveRefund(c, i, n, reference)
      PROVE  RemediationInv'
  BY <1>4, SaveRefundOK
<1>5. ASSUME NEW c \in Clerks, ClerkStep(c) \/ AbandonClerk(c) PROVE RemediationInv'
  BY <1>5, OpenTheDisputeOK, RecordDisputeOK, RecommendTheRefundOK, AuditOrAbandonOK
  DEF ClerkStep
<1> QED BY <1>1, <1>2, <1>3, <1>4, <1>5 DEF RemediationNext

\* The invariant holds in every reachable state, and with it the invariant of
\* the checkouts, disputes or not.
THEOREM RemediationInvariance == RemediationSpec => []RemediationInv
BY RemediationInitOK, RemediationNextOK, PTL DEF RemediationSpec

\* Every variable keeps its type.
THEOREM RemediationTypeCorrect == RemediationSpec => []RemediationTypeOK
<1>1. RemediationInv => RemediationTypeOK
  BY DEF RemediationInv, EvidenceInv, Inv, RemediesType, RemediationTypeOK, ClerkRecords
<1> QED BY <1>1, RemediationInvariance, PTL

\* However many buyers complain and sellers record refunds at once, a purchase
\* has one dispute and one refund at most.
THEOREM OneRefund == RemediationSpec => []RefundedAtMostOnce
<1>1. RemediationInv => RefundedAtMostOnce
  <2> SUFFICES ASSUME RemediationInv, NEW i \in Intents
               PROVE  /\ Len(disputes[i]) <= 1
                      /\ \A x, y \in {r \in refunds : r.intent = i} : x = y
    BY DEF RefundedAtMostOnce
  <2>1. disputes[i] \in Seq(DisputeRecords) /\ Len(disputes[i]) <= 1
    BY DEF RemediationInv, RemediesType, DisputesOK
  <2>2. \A n \in DOMAIN disputes[i] : n = 1
    BY <2>1
  <2>3. ASSUME NEW x \in refunds, x.intent = i PROVE x.dispute = 1
    BY <2>2, <2>3 DEF RemediationInv, RefundsOK
  <2> QED BY <2>1, <2>3 DEF RemediationInv, RefundsOK
<1> QED BY <1>1, RemediationInvariance, PTL

\* The verdict on a delivery is true in every later state: no refund for
\* non-delivery of what was delivered, and none denied without an effect.
THEOREM VerdictsAreTrue == RemediationSpec => []VerdictMatchesDelivery
<1>1. RemediationInv => VerdictMatchesDelivery
  <2> SUFFICES ASSUME RemediationInv, NEW i \in Intents, NEW n \in DOMAIN disputes[i]
               PROVE  /\ disputes[i][n] = [reason |-> "not_delivered",
                                           status |-> "refund_recommended"] =>
                           Count(chain[i], "delivery.succeeded") = 0
                      /\ disputes[i][n] = [reason |-> "not_delivered", status |-> "denied"] =>
                           effects[i] = 1
    BY DEF VerdictMatchesDelivery
  <2>1. disputes[i] \in Seq(DisputeRecords) /\ DisputesOK(i) /\ EvidenceInv
    BY DEF RemediationInv, RemediesType
  <2>2. n = 1 /\ Len(disputes[i]) = 1
    <3>1. Len(disputes[i]) <= 1
      BY <2>1 DEF DisputesOK
    <3>2. n \in 1 .. Len(disputes[i]) /\ Len(disputes[i]) \in Nat
      BY <2>1
    <3>3. ASSUME NEW m \in Nat, m <= 1, NEW k \in 1 .. m PROVE k = 1 /\ m = 1
      BY <3>3
    <3> QED BY <3>1, <3>2, <3>3
  <2>3. Truth(i, disputes[i][n], txn[i])
    BY <2>1, <2>2 DEF DisputesOK
  <2>4. ASSUME txn[i].upstreamStatus # "2xx" PROVE Count(chain[i], "delivery.succeeded") = 0
    <3>1. chain[i] \in Seq(EventTypes) /\ ChainOK(i)
      BY <2>1, ChainTypes DEF EvidenceInv, Inv
    <3>2. ~\E m \in DOMAIN chain[i] : chain[i][m] = "delivery.succeeded"
      BY <2>4, <3>1 DEF ChainOK, Delivered
    <3>3. Count(chain[i], "delivery.succeeded") = 0
            <=> ~\E m \in DOMAIN chain[i] : chain[i][m] = "delivery.succeeded"
      BY <3>1, CountType
    <3> QED BY <3>2, <3>3
  <2> QED BY <2>3, <2>4 DEF Truth
<1> QED BY <1>1, RemediationInvariance, PTL

\* Disputes leave the purchase safe: its effect stays single and its evidence
\* complete.
THEOREM DisputesKeepPurchasesSafe ==
    RemediationSpec => [](SellerEffectAtMostOnce /\ SellerSeesBoundBody /\ EvidenceCoversDispatch)
<1>1. RemediationInv => SellerEffectAtMostOnce /\ SellerSeesBoundBody
  BY DEF RemediationInv, EvidenceInv, Inv, RecordOK, SellerEffectAtMostOnce, RequestOK, OwnerOK,
         OwnerPCs, PrePCs, Txn, BoundBody, SellerSeesBoundBody
<1>2. RemediationInv => EvidenceCoversDispatch
  BY EvidenceOK DEF RemediationInv
<1> QED BY <1>1, <1>2, RemediationInvariance, PTL

\* A clerk's step leaves the store alone, or disputes one transaction.
LEMMA ClerkWrites ==
    ASSUME RemediationInv, RemediationNext, ~(Next /\ UNCHANGED remedies)
    PROVE  /\ UNCHANGED dispatches
           /\ \/ UNCHANGED vars
              \/ \E i \in Intents :
                   /\ txn[i] # NoTxn
                   /\ Disputed(txn[i], txn'[i])
                   /\ txn[i].status = "FULFILLED" => txn'[i] = OpenDispute(txn[i])
                   /\ \A j \in Intents \ {i} : txn'[j] = txn[j]
<1>1. PICK c \in Clerks :
        \/ \E i \in Intents, reason \in Reasons : BeginDispute(c, i, reason)
        \/ \E i \in Intents, reference \in References :
             \E n \in DOMAIN disputes[i] : SaveRefund(c, i, n, reference)
        \/ ClerkStep(c) \/ AbandonClerk(c)
  BY DEF RemediationNext
<1>2. ASSUME NEW next, DisputeVersionMatches(c), clerk[c].pc \in DisputePCs,
             next \in {OpenDispute(clerk[c].view), RecommendRefund(clerk[c].view)},
             clerk[c].view.status = "FULFILLED" => next = OpenDispute(clerk[c].view),
             txn' = [txn EXCEPT ![clerk[c].intent] = Restore(next)]
      PROVE  \E i \in Intents :
               /\ txn[i] # NoTxn
               /\ Disputed(txn[i], txn'[i])
               /\ txn[i].status = "FULFILLED" => txn'[i] = OpenDispute(txn[i])
               /\ \A j \in Intents \ {i} : txn'[j] = txn[j]
  <2>1. PICK i : i = clerk[c].intent
    OBVIOUS
  <2>2. /\ i \in Intents /\ clerk[c].view \in Transactions
        /\ clerk[c].view = txn[i] /\ txn[i] # NoTxn /\ StoredOK(i, clerk[c].view)
        /\ clerk[c].view.status \in {"FULFILLED", "FAILED", "DISPUTED", "REFUND_RECOMMENDED"}
    BY <1>2, <2>1, ClerkContext
  <2>3. Disputed(txn[i], next) /\ Restore(next) = next
    BY <1>2, <2>2, DisputedBy
  <2>4. txn'[i] = next /\ \A j \in Intents \ {i} : txn'[j] = txn[j]
    BY <1>2, <2>1, <2>2, <2>3 DEF RemediationInv, EvidenceInv, Inv, TypeOK
  <2> QED BY <1>2, <2>2, <2>3, <2>4
<1>3. CASE OpenTheDispute(c)
  <2>1. UNCHANGED dispatches /\ clerk[c].pc \in DisputePCs
    BY <1>3 DEF OpenTheDispute, world, DisputePCs
  <2>2. CASE DisputeVersionMatches(c)
    BY <1>2, <1>3, <2>1, <2>2 DEF OpenTheDispute, DisputeUpdate
  <2>3. CASE ~DisputeVersionMatches(c)
    BY <1>3, <2>1, <2>3 DEF OpenTheDispute, DisputeUpdate, vars, world, handlers
  <2> QED BY <2>1, <2>2, <2>3
<1>4. CASE RecommendTheRefund(c)
  <2>1. UNCHANGED dispatches /\ clerk[c].pc \in DisputePCs /\ clerk[c].view.status # "FULFILLED"
    BY <1>4 DEF RecommendTheRefund, world, DisputePCs, RemediationInv, ClerkOK, InDispute
  <2>2. CASE DisputeVersionMatches(c)
    BY <1>2, <1>4, <2>1, <2>2 DEF RecommendTheRefund, DisputeUpdate
  <2>3. CASE ~DisputeVersionMatches(c)
    BY <1>4, <2>1, <2>3 DEF RecommendTheRefund, DisputeUpdate, vars, world, handlers
  <2> QED BY <2>1, <2>2, <2>3
<1>5. CASE ~OpenTheDispute(c) /\ ~RecommendTheRefund(c)
  BY <1>1, <1>5 DEF BeginDispute, SaveRefund, ClerkStep, RecordDispute, AuditRefund, AbandonClerk, vars
<1> QED BY <1>3, <1>4, <1>5

\* A disputed purchase is closed: no request under way calls the seller for it,
\* reopens it or moves its money record.
THEOREM DisputesAreFinal == RemediationSpec => DisputeEndsDelivery
<1> DEFINE Closed(i) ==
      txn[i] # NoTxn /\ InDispute(txn[i]) =>
        /\ dispatches'[i] = dispatches[i]
        /\ InDispute(txn'[i])
        /\ txn'[i].paymentFinality = txn[i].paymentFinality
<1>1. ASSUME RemediationInv, Next, UNCHANGED remedies, NEW i \in Intents PROVE Closed(i)
  <2>1. Inv /\ Inv'
    BY <1>1, NextOK DEF RemediationInv, EvidenceInv
  <2> QED BY <1>1, <2>1, RequestsMove
<1>2. ASSUME RemediationInv, RemediationNext, ~(Next /\ UNCHANGED remedies), NEW i \in Intents
      PROVE  Closed(i)
  <2>1. CASE UNCHANGED vars
    BY <2>1 DEF vars
  <2>2. CASE ~UNCHANGED vars
    BY <1>2, <2>2, ClerkWrites DEF Disputed, InDispute
  <2> QED BY <2>1, <2>2
<1>3. RemediationInv /\ [RemediationNext]_allVars => [\A i \in Intents : Closed(i)]_allVars
  BY <1>1, <1>2
<1> QED BY <1>3, RemediationInvariance, PTL DEF RemediationSpec, DisputeEndsDelivery

\* Nor do clerks undo what requests have recorded.
THEOREM DisputesKeepFacts == RemediationSpec => RecordedFactsPersist
<1>1. ASSUME RemediationInv, Next, NEW i \in Intents PROVE FactsKept(i)
  BY <1>1, RequestKeepsFacts DEF RemediationInv, EvidenceInv
<1>2. ASSUME RemediationInv, RemediationNext, ~(Next /\ UNCHANGED remedies), ~UNCHANGED vars,
             NEW i \in Intents
      PROVE  FactsKept(i)
  <2>1. PICK j \in Intents :
          /\ txn[j] # NoTxn
          /\ Disputed(txn[j], txn'[j])
          /\ txn[j].status = "FULFILLED" => txn'[j] = OpenDispute(txn[j])
          /\ \A k \in Intents \ {j} : txn'[k] = txn[k]
    BY <1>2, ClerkWrites
  <2>2. CASE i = j
    <3>1. txn[i] \in Transactions /\ txn'[i] \in Transactions /\ txn'[i] # NoTxn
      BY <1>2, <2>1, <2>2, CheckoutAssumption DEF RemediationInv, EvidenceInv, Inv, TypeOK, Disputed
    <3>2. FinalityRank[txn'[i].paymentFinality] >= FinalityRank[txn[i].paymentFinality]
      BY <2>1, <2>2, <3>1 DEF Disputed, Transactions, Finalities, FinalityRank
    <3>3. txn'[i].fulfillmentAttempts >= txn[i].fulfillmentAttempts
      BY <2>1, <2>2, <3>1 DEF Disputed, Transactions
    <3>4. txn[i].status = "FULFILLED" =>
            txn'[i] = [txn[i] EXCEPT !.status = "DISPUTED", !.version = @ + 1]
      BY <2>1, <2>2 DEF OpenDispute, transition
    <3> QED BY <2>1, <2>2, <3>1, <3>2, <3>3, <3>4 DEF Disputed, FactsKept
  <2>3. CASE i # j
    BY <2>1, <2>3 DEF FactsKept
  <2> QED BY <2>2, <2>3
<1>3. RemediationInv /\ [RemediationNext]_allVars => [\A i \in Intents : FactsKept(i)]_vars
  BY <1>1, <1>2 DEF allVars
<1> QED BY <1>3, RemediationInvariance, PTL DEF RemediationSpec, RecordedFactsPersist, FactsKept

-----------------------------------------------------------------------------
\* What a buyer is told

\* A verified payment has a finality, a failure has a reason, and a disputed
\* transaction without a reason was delivered.
CodesOK(t) ==
    /\ t.status # "PAYMENT_REQUIRED" => t.paymentFinality # "none"
    /\ t.status = "FAILED" => t.failureCode # "none"
    /\ InDispute(t) /\ t.failureCode = "none" => t.upstreamStatus = "2xx"

\* A request that is about to store a failure has a reason for it.
ReasonOK(r) ==
    /\ pc[r] = "failBefore" => result[r].code # "none"
    /\ pc[r] = "saveOutcome" /\ result[r].status # "2xx" => result[r].code # "none"

\* The invariant of the disputes, with the reasons.
AdviceInv ==
    /\ RemediationInv
    /\ \A i \in Intents : txn[i] # NoTxn => CodesOK(txn[i])
    /\ \A r \in Requests : ReasonOK(r)

\* Restore counts an attempt and changes nothing else.
LEMMA RestoreCodes ==
    ASSUME NEW t \in Transactions, CodesOK(t)
    PROVE  CodesOK(Restore(t))
BY DEF Restore, Transactions, CodesOK, InDispute

\* A conditional write of a record with a reason.
LEMMA WrittenCodes ==
    ASSUME TypeOK, NEW i \in Intents, NEW t, txn' = [txn EXCEPT ![i] = t], CodesOK(t),
           \A j \in Intents : txn[j] # NoTxn => CodesOK(txn[j])
    PROVE  \A j \in Intents : txn'[j] # NoTxn => CodesOK(txn'[j])
BY DEF TypeOK

\* Whatever a request stores has a reason if it is a failure.
LEMMA StepKeepsCodes ==
    ASSUME AdviceInv, NEW r \in Requests, BeginSome(r) \/ Step(r) \/ Abort(r)
    PROVE  \A i \in Intents : txn'[i] # NoTxn => CodesOK(txn'[i])
<1>0. Inv /\ TypeOK /\ \A i \in Intents : txn[i] # NoTxn => CodesOK(txn[i])
  BY DEF AdviceInv, RemediationInv, EvidenceInv, Inv
<1>1. CASE UNCHANGED txn
  BY <1>0, <1>1
<1>v. ASSUME pc[r] \in ViewPCs, VersionMatches(r)
      PROVE  /\ TypeOK /\ RequestOK(r) /\ req[r].intent \in Intents
             /\ view[r] \in Transactions /\ StoredOK(req[r].intent, view[r])
             /\ CodesOK(view[r])
  BY <1>0, <1>v, UpdateContext DEF VersionMatches
<1>w. ASSUME pc[r] \in ViewPCs, VersionMatches(r), NEW t \in Transactions, CodesOK(t),
             txn' = [txn EXCEPT ![req[r].intent] = Restore(t)]
      PROVE  \A i \in Intents : txn'[i] # NoTxn => CodesOK(txn'[i])
  BY <1>0, <1>v, <1>w, RestoreCodes, WrittenCodes
<1>2. CASE PrepareRetry(r) /\ ~UNCHANGED txn
  <2>1. PICK t : t = PrepareFulfillmentRetry(view[r], req[r].body)
    OBVIOUS
  <2>2. /\ CanRetryFulfillment(view[r]) /\ VersionMatches(r) /\ pc[r] \in ViewPCs
        /\ txn' = [txn EXCEPT ![req[r].intent] = Restore(t)]
    BY <1>2, <2>1 DEF PrepareRetry, Update, ViewPCs
  <2>3. view[r] \in Transactions /\ req[r].body \in Bodies
    BY <1>2, <1>v, <2>2 DEF PrepareRetry, RequestOK, ParamsOK
  <2>4. t \in Transactions
    BY <2>1, <2>3, PrepareRetryType
  <2>5. t.status = "PAYMENT_VERIFIED" /\ t.paymentFinality = "finalized"
    BY <2>1, <2>2, <2>3 DEF CanRetryFulfillment, PrepareFulfillmentRetry, Transactions
  <2> QED BY <1>w, <2>2, <2>4, <2>5 DEF CodesOK, InDispute
<1>3. CASE Create(r) /\ ~UNCHANGED txn
  <2>1. /\ req[r].intent \in Intents
        /\ txn' = [txn EXCEPT ![req[r].intent] = FirstTransaction(req[r].intent)]
    BY <1>0, <1>3 DEF Create, Inv, RequestOK, ParamsOK
  <2>2. FirstTransaction(req[r].intent).status = "PAYMENT_REQUIRED"
    BY DEF FirstTransaction, RequirePayment, MarkApproved, RequireApproval, NewTransaction, transition
  <2> QED BY <1>0, <2>1, <2>2, WrittenCodes DEF CodesOK, InDispute
<1>4. CASE SaveVerified(r) /\ ~UNCHANGED txn
  <2>1. PICK id, t : id = PaymentIdOf[req[r].proof] /\ t = VerifyPayment(view[r], id, req[r].proof)
    OBVIOUS
  <2>2. /\ VersionMatches(r) /\ pc[r] \in ViewPCs
        /\ txn' = [txn EXCEPT ![req[r].intent] = t]
    BY <1>4, <2>1 DEF SaveVerified, ViewPCs, ProofPCs
  <2>3. t.status = "PAYMENT_VERIFIED" /\ t.paymentFinality = "confirmed"
    BY <1>v, <2>1, <2>2 DEF VerifyPayment, transition, Transactions
  <2> QED BY <1>0, <1>v, <2>2, <2>3, WrittenCodes DEF CodesOK, InDispute
<1>5. CASE Finalize(r) /\ ~UNCHANGED txn
  <2>1. PICK t : t = FinalizePayment(view[r])
    OBVIOUS
  <2>2. /\ CanFinalizePayment(view[r], PaymentIdOf[req[r].proof])
        /\ VersionMatches(r) /\ pc[r] \in ViewPCs
        /\ txn' = [txn EXCEPT ![req[r].intent] = Restore(t)]
    BY <1>5, <2>1 DEF Finalize, Update, ViewPCs, ProofPCs, SettlementPCs
  <2>3. t \in Transactions
    BY <1>v, <2>1, <2>2, FinalizePaymentType
  <2>4. t.status = "PAYMENT_VERIFIED" /\ t.paymentFinality = "finalized"
    BY <1>v, <2>1, <2>2 DEF CanFinalizePayment, AwaitsSettlement, FinalizePayment, Transactions
  <2> QED BY <1>w, <2>2, <2>3, <2>4 DEF CodesOK, InDispute
<1>6. CASE RejectPayment(r) /\ ~UNCHANGED txn
  <2>1. PICK t : t = FailPayment(view[r], "settlement_rejected")
    OBVIOUS
  <2>2. /\ VersionMatches(r) /\ pc[r] \in ViewPCs
        /\ txn' = [txn EXCEPT ![req[r].intent] = Restore(t)]
    BY <1>6, <2>1 DEF RejectPayment, UpdateAndReturn, ViewPCs, ProofPCs, SettlementPCs
  <2>3. t \in Transactions
    BY <1>v, <2>1, <2>2, FailPaymentType DEF FailureCodes
  <2>4. /\ t.status = "FAILED" /\ t.paymentFinality = "failed"
        /\ t.failureCode = "settlement_rejected"
    BY <1>v, <2>1, <2>2 DEF FailPayment, transition, Transactions
  <2> QED BY <1>w, <2>2, <2>3, <2>4 DEF CodesOK, InDispute
<1>7. CASE Review(r) /\ ~UNCHANGED txn
  <2>1. PICK t : t = RequirePaymentReview(view[r], "settlement_payer_mismatch")
    OBVIOUS
  <2>2. /\ CanRequirePaymentReview(view[r]) /\ VersionMatches(r) /\ pc[r] \in ViewPCs
        /\ txn' = [txn EXCEPT ![req[r].intent] = Restore(t)]
    BY <1>7, <2>1 DEF Review, UpdateAndReturn, ViewPCs, ProofPCs, SettlementPCs
  <2>3. t \in Transactions
    BY <1>v, <2>1, <2>2, RequirePaymentReviewType DEF FailureCodes
  <2>4. t.status = "PAYMENT_VERIFIED" /\ t.paymentFinality = "confirmed"
    BY <1>v, <2>1, <2>2 DEF CanRequirePaymentReview, AwaitsSettlement, RequirePaymentReview,
       Transactions
  <2> QED BY <1>w, <2>2, <2>3, <2>4 DEF CodesOK, InDispute
<1>8. CASE Claim(r) /\ ~UNCHANGED txn
  <2>1. PICK s, t : s = txn[req[r].intent] /\ t = MarkForwarded(s)
    OBVIOUS
  <2>2. /\ CanMarkForwarded(s) /\ VersionMatches(r) /\ pc[r] \in ViewPCs
        /\ txn' = [txn EXCEPT ![req[r].intent] = t]
    BY <1>8, <2>1 DEF Claim, ViewPCs
  <2>3. req[r].intent \in Intents /\ s \in Transactions
    BY <1>0, <1>v, <2>1, <2>2 DEF TypeOK, VersionMatches
  <2>4. t.status = "FORWARDED" /\ t.paymentFinality = "finalized"
    BY <2>1, <2>2, <2>3 DEF CanMarkForwarded, MarkForwarded, transition, Transactions
  <2> QED BY <1>0, <2>2, <2>3, <2>4, WrittenCodes DEF CodesOK, InDispute
<1>9. CASE FailBeforeDispatch(r) /\ ~UNCHANGED txn
  <2>1. PICK t : t = MarkFailedWithRecovery(view[r], result[r].code, None, TRUE)
    OBVIOUS
  <2>2. /\ VersionMatches(r) /\ pc[r] \in ViewPCs /\ pc[r] = "failBefore"
        /\ txn' = [txn EXCEPT ![req[r].intent] = Restore(t)]
    BY <1>9, <2>1 DEF FailBeforeDispatch, UpdateAndReturn, ViewPCs, OwnerPCs
  <2>3. /\ view[r].paymentFinality = "finalized" /\ result[r].code \in FailureCodes
        /\ result[r].code # "none"
    BY <1>v, <2>2 DEF RequestOK, OwnerOK, OwnerPCs, TypeOK, Results, StoredOK, AdviceInv, ReasonOK
  <2>4. t \in Transactions
    <3>1. None \in UpstreamStatuses \cup {None} /\ TRUE \in BOOLEAN
      OBVIOUS
    <3> QED BY <1>v, <2>1, <2>2, <2>3, <3>1, MarkFailedType
  <2>5. t.status = "FAILED" /\ t.paymentFinality = "finalized" /\ t.failureCode # "none"
    BY <1>v, <2>1, <2>2, <2>3 DEF MarkFailedWithRecovery, transition, Transactions
  <2> QED BY <1>w, <2>2, <2>4, <2>5 DEF CodesOK, InDispute
<1>10. CASE SaveOutcome(r) /\ ~UNCHANGED txn
  <2>1. PICK t : t = Outcome(view[r], result[r])
    OBVIOUS
  <2>2. /\ VersionMatches(r) /\ pc[r] \in ViewPCs /\ pc[r] = "saveOutcome"
        /\ txn' = [txn EXCEPT ![req[r].intent] = Restore(t)]
    BY <1>10, <2>1 DEF SaveOutcome, Update, ViewPCs, OwnerPCs
  <2>3. /\ view[r].paymentFinality = "finalized" /\ result[r] \in Results
        /\ result[r].status # "2xx" => result[r].code # "none"
    BY <1>v, <2>2 DEF RequestOK, OwnerOK, OwnerPCs, TypeOK, StoredOK, AdviceInv, ReasonOK
  <2>4. t \in Transactions
    BY <1>v, <2>1, <2>2, <2>3, MarkFailedType, MarkFulfilledType DEF Outcome, Results
  <2>5. CASE result[r].status = "2xx"
    <3>1. t.status = "FULFILLED" /\ t.paymentFinality = "finalized"
      BY <1>v, <2>1, <2>2, <2>3, <2>5 DEF Outcome, MarkFulfilled, transition, Transactions
    <3> QED BY <1>w, <2>2, <2>4, <3>1 DEF CodesOK, InDispute
  <2>6. CASE result[r].status # "2xx"
    <3>1. t.status = "FAILED" /\ t.paymentFinality = "finalized" /\ t.failureCode # "none"
      BY <1>v, <2>1, <2>2, <2>3, <2>6 DEF Outcome, MarkFailedWithRecovery, transition,
         Transactions
    <3> QED BY <1>w, <2>2, <2>4, <3>1 DEF CodesOK, InDispute
  <2> QED BY <2>5, <2>6
<1>11. CASE BeginSome(r) \/ Abort(r)
  BY <1>1, <1>11 DEF BeginSome, Begin, Abort, store
<1> QED
  BY <1>1, <1>2, <1>3, <1>4, <1>5, <1>6, <1>7, <1>8, <1>9, <1>10, <1>11
  DEF Step, LoadForRetry, Load, RecordChallenge, Verify, RecordVerification,
      SettleConfirmed, SettleRefused, SettleUnknown, RecordForwarding, Sign, Dispatch,
      RecordDelivery, store

\* A request gives up before the call with the code of what failed, and has the
\* code of what the seller answered.
LEMMA StepKeepsReason ==
    ASSUME TypeOK, NEW r \in Requests, BeginSome(r) \/ Step(r) \/ Abort(r)
    PROVE  ReasonOK(r)'
<1>1. ASSUME Return(r) PROVE ReasonOK(r)'
  <2>1. pc'[r] = "idle"
    BY <1>1 DEF Return, TypeOK
  <2> QED BY <2>1 DEF ReasonOK
<1>2. ASSUME NEW next, next \notin {"failBefore", "saveOutcome"}, Goto(r, next)
      PROVE  ReasonOK(r)'
  <2>1. pc'[r] = next
    BY <1>2 DEF Goto, TypeOK
  <2> QED BY <1>2, <2>1 DEF ReasonOK
<1>3. CASE BeginSome(r)
  <2>1. PICK i \in Intents, proof \in Proofs \cup {None}, body \in Bodies :
          Begin(r, i, proof, body)
    BY <1>3 DEF BeginSome
  <2> QED BY <1>2, <2>1 DEF Begin
<1>4. CASE Abort(r) \/ FailBeforeDispatch(r) \/ RecordDelivery(r) \/ RejectPayment(r) \/ Review(r)
           \/ SettleUnknown(r)
  BY <1>1, <1>4 DEF Abort, FailBeforeDispatch, RecordDelivery, RejectPayment, Review,
     SettleUnknown, UpdateAndReturn
<1>5. CASE LoadForRetry(r) \/ Load(r) \/ Create(r)
  BY <1>1, <1>2, <1>5 DEF LoadForRetry, Load, Create
<1>6. CASE PrepareRetry(r) \/ Finalize(r) \/ SaveOutcome(r)
  BY <1>1, <1>2, <1>6 DEF PrepareRetry, Finalize, SaveOutcome, Update
<1>7. CASE SaveVerified(r) \/ Claim(r)
  BY <1>1, <1>2, <1>7 DEF SaveVerified, Claim
<1>8. CASE RecordChallenge(r)
  BY <1>1, <1>2, <1>8 DEF RecordChallenge, AfterChallenge
<1>9. CASE RecordVerification(r) \/ SettleConfirmed(r) \/ SettleRefused(r) \/ Verify(r)
  BY <1>1, <1>2, <1>9 DEF RecordVerification, SettleConfirmed, SettleRefused, Verify
<1>10. ASSUME NEW code, code # "none", GiveUp(r, code) PROVE ReasonOK(r)'
  <2>1. pc'[r] = "failBefore" /\ result'[r].code = code
    BY <1>10 DEF GiveUp, Goto, TypeOK, Results
  <2> QED BY <1>10, <2>1 DEF ReasonOK
<1>11. CASE RecordForwarding(r) \/ Sign(r)
  BY <1>2, <1>10, <1>11 DEF RecordForwarding, Sign
<1>12. CASE Dispatch(r)
  <2>1. PICK answer \in SellerAnswers : result' = [result EXCEPT ![r] = answer]
    BY <1>12 DEF Dispatch
  <2>2. answer.status # "2xx" => answer.code # "none"
    BY DEF SellerAnswers, TransportCodes
  <2>3. result'[r] = answer /\ pc'[r] = "saveOutcome"
    BY <1>12, <2>1 DEF Dispatch, Goto, TypeOK
  <2> QED BY <2>2, <2>3 DEF ReasonOK
<1> QED
  BY <1>3, <1>4, <1>5, <1>6, <1>7, <1>8, <1>9, <1>11, <1>12 DEF Step

\* A dispute keeps the reason of the failure it is about.
LEMMA DisputedCodes ==
    ASSUME NEW i \in Intents, NEW s \in Transactions, NEW t, StoredOK(i, s), CodesOK(s),
           Disputed(s, t)
    PROVE  CodesOK(t)
BY DEF StoredOK, CodesOK, Disputed, InDispute

\* Every step of a request and of a clerk keeps the reasons.
LEMMA AdviceNextOK == AdviceInv /\ [RemediationNext]_allVars => AdviceInv'
<1> SUFFICES ASSUME AdviceInv, [RemediationNext]_allVars PROVE AdviceInv'
  OBVIOUS
<1>1. RemediationInv' /\ RemediationInv /\ TypeOK
  BY RemediationNextOK DEF AdviceInv, RemediationInv, EvidenceInv, Inv
<1>2. CASE Next /\ UNCHANGED remedies
  <2>1. PICK r \in Requests : BeginSome(r) \/ Step(r) \/ Abort(r)
    BY <1>2 DEF Next
  <2>2. \A i \in Intents : txn'[i] # NoTxn => CodesOK(txn'[i])
    BY <2>1, StepKeepsCodes
  <2>3. ReasonOK(r)' /\ OthersUntouched(r)
    BY <1>1, <2>1, StepKeepsReason, StepUntouched
  <2>4. \A q \in Requests : ReasonOK(q)'
    BY <2>3 DEF AdviceInv, ReasonOK, OthersUntouched
  <2> QED BY <1>1, <2>2, <2>4 DEF AdviceInv, CodesOK, InDispute
<1>3. CASE RemediationNext /\ ~(Next /\ UNCHANGED remedies)
  <2>1. UNCHANGED <<pc, result>>
    BY <1>3 DEF RemediationNext, BeginDispute, SaveRefund, ClerkStep, OpenTheDispute, RecordDispute,
       RecommendTheRefund, AuditRefund, AbandonClerk, vars, handlers
  <2>2. ASSUME NEW i \in Intents, txn'[i] # NoTxn PROVE CodesOK(txn'[i])
    <3>1. CASE txn'[i] = txn[i]
      BY <2>2, <3>1 DEF AdviceInv, CodesOK, InDispute
    <3>2. CASE txn[i] # NoTxn /\ Disputed(txn[i], txn'[i])
      <4>1. txn[i] \in Transactions /\ StoredOK(i, txn[i]) /\ CodesOK(txn[i])
        BY <1>1, <3>2 DEF AdviceInv, RemediationInv, EvidenceInv, Inv, RecordOK, TypeOK
      <4> QED BY <3>2, <4>1, DisputedCodes
    <3> QED BY <1>1, <1>3, <3>1, <3>2, ClerkWrites DEF vars
  <2>3. \A q \in Requests : ReasonOK(q)'
    BY <2>1 DEF AdviceInv, ReasonOK
  <2> QED BY <1>1, <2>2, <2>3 DEF AdviceInv, CodesOK, InDispute
<1>4. CASE UNCHANGED allVars
  BY <1>1, <1>4 DEF AdviceInv, CodesOK, ReasonOK, InDispute, allVars, vars, handlers
<1> QED BY <1>2, <1>3, <1>4

\* Nothing has failed at the start.
LEMMA AdviceInitOK == RemediationInit => AdviceInv
<1> SUFFICES ASSUME RemediationInit PROVE AdviceInv
  OBVIOUS
<1>1. RemediationInv
  BY RemediationInitOK
<1>2. /\ \A i \in Intents : txn[i] = NoTxn
      /\ \A r \in Requests : pc[r] = "idle"
  BY DEF RemediationInit, Init
<1> QED BY <1>1, <1>2 DEF AdviceInv, ReasonOK

\* The buyer has paid for the record t.
Paid(t) == t.paymentIdentifier # None /\ Settled(t.paymentIdentifier)

\* What the buyer of the record t is told.
Told(t, expired) == CommerceLifecycleAt(t, expired, FALSE)

\* What is told of the record t of the intent i, as AdviceIsSafe has it.
AdviceTrue(i, t, told, expired) ==
    /\ told \in Reports
    /\ told.action = "create_new_intent" => ~Paid(t)
    /\ told.commerce \in {"awaiting_payment", "abandoned"} => ~Paid(t) /\ dispatches[i] = 0
    /\ told.payment = "finalized" => Paid(t) /\ HasReceipt(i)
    /\ told.payment = "finalized" /\ told.action = "none" => told.fulfillment = "succeeded"
    /\ told.action = "retry_same_payment" => effects[i] = 0
    /\ told.fulfillment = "succeeded" => effects[i] = 1
    /\ told.fulfillment = "not_started" => effects[i] = 0
    /\ told.commerce = "fulfilled" <=> SummaryColumn(t, expired) = "fulfilled"

\* What a buyer is told of a record is true of the money, of the seller and of
\* the evidence.
LEMMA AdviceOK ==
    ASSUME "refuses_settled" \notin Quirks, AdviceInv, NEW i \in Stored, NEW expired \in BOOLEAN,
           NEW t, t = txn[i], NEW told, told = Told(t, expired)
    PROVE  AdviceTrue(i, t, told, expired)
<1>1. /\ i \in Intents /\ t \in Transactions /\ t # NoTxn
      /\ StoredOK(i, t) /\ CodesOK(t) /\ ChainOK(i)
      /\ chain[i] \in Seq(EventTypes) /\ dispatches[i] \in Nat
  BY ChainTypes DEF Stored, AdviceInv, RemediationInv, EvidenceInv, Inv, RecordOK, TypeOK
<1>2. t.paymentFinality \in {"none", "confirmed", "finalized", "failed"}
  BY <1>1 DEF Transactions, Finalities
<1>3. t.paymentFinality = "failed" => ~Paid(t)
  BY <1>1, CheckoutAssumption DEF StoredOK, Settled, Paid
<1>4. t.status = "PAYMENT_REQUIRED" <=> t.paymentFinality = "none"
  BY <1>1 DEF StoredOK, CodesOK
<1>5. t.paymentFinality = "none" => ~Paid(t) /\ dispatches[i] = 0
  BY <1>1, <1>4 DEF StoredOK, Paid
<1>6. t.paymentFinality = "finalized" => Paid(t) /\ HasReceipt(i)
  <2>1. Len(chain[i]) >= 2 => chain[i] # << >>
    OBVIOUS
  <2> QED BY <1>1, <2>1, CheckoutAssumption DEF StoredOK, ChainOK, HasReceipt, Paid
<1>7. ASSUME Abandoned(t, expired)
      PROVE  told = [ commerce |-> "abandoned", payment |-> "expired",
                      fulfillment |-> "not_started", action |-> "create_new_intent" ]
  BY <1>7 DEF CommerceLifecycleAt, Told
<1>8. ASSUME ~Abandoned(t, expired)
      PROVE  told = [ commerce    |-> CommerceView(t),
                      payment     |-> PaymentView(t).payment,
                      fulfillment |-> FulfillmentView(t),
                      action      |-> Advice(t) ]
  BY <1>8 DEF CommerceLifecycleAt, Told
<1>9. CASE Abandoned(t, expired)
  <2>1. t.status = "PAYMENT_REQUIRED" /\ t.paymentFinality = "none"
    BY <1>9 DEF Abandoned
  <2>2. effects[i] = 0
    BY <1>1, <2>1 DEF StoredOK
  <2>3. SummaryColumn(t, expired) = "abandoned"
    <3>1. CommerceLifecycleAt(t, expired, FALSE).commerce = "abandoned"
      BY <1>9 DEF CommerceLifecycleAt
    <3>2. SellerOutcomeAt(t, expired) = "abandoned"
      BY <3>1 DEF SellerOutcomeAt
    <3> QED BY <2>1, <3>2 DEF SummaryColumn
  <2> QED BY <1>5, <1>7, <1>9, <2>1, <2>2, <2>3 DEF Reports, AdviceTrue
<1>10. CASE ~Abandoned(t, expired)
  <2>1. PICK p, f, c, a : /\ p = PaymentView(t) /\ f = FulfillmentView(t)
                          /\ c = CommerceView(t) /\ a = Advice(t)
    OBVIOUS
  <2>2. told = [commerce |-> c, payment |-> p.payment, fulfillment |-> f, action |-> a]
    BY <1>8, <1>10, <2>1
  <2>3. /\ t.paymentFinality = "none" =>
             p = [commerce |-> "awaiting_payment", payment |-> "pending",
                  action |-> "retry_same_request"]
        /\ t.paymentFinality = "confirmed" =>
             p = [commerce |-> "payment_processing", payment |-> "confirmed",
                  action |-> "await_reconciliation"]
        /\ t.paymentFinality = "finalized" =>
             p = [commerce |-> "paid", payment |-> "finalized", action |-> "retry_same_request"]
        /\ t.paymentFinality = "failed" =>
             p = [commerce |-> "failed", payment |-> "failed", action |-> "create_new_intent"]
    BY <1>2, <2>1 DEF PaymentView
  <2>4. /\ t.status = "FORWARDED" => c = "fulfilling"
        /\ t.status = "FULFILLED" => c = "fulfilled"
        /\ t.status = "FAILED" => c = "failed"
        /\ t.status = "DISPUTED" => c = "disputed"
        /\ t.status = "REFUND_RECOMMENDED" => c = "refund_recommended"
        /\ t.status \in {"PAYMENT_REQUIRED", "PAYMENT_VERIFIED"} => c = p.commerce
    BY <2>1 DEF CommerceView
  <2>5. /\ t.status = "FULFILLED" => a = "none"
        /\ t.status = "FAILED" /\ t.paymentFinality = "finalized" => a = FailureAdvice(t)
        /\ t.status = "FAILED" /\ t.paymentFinality # "finalized" => a = p.action
        /\ t.status = "DISPUTED" => a = "await_resolution"
        /\ t.status = "REFUND_RECOMMENDED" => a = "record_external_refund"
        /\ t.status \in {"PAYMENT_REQUIRED", "PAYMENT_VERIFIED", "FORWARDED"} => a = p.action
    BY <2>1 DEF Advice
  <2>6. /\ FailureAdvice(t) \in {"retry_same_payment", "request_seller_review", "open_dispute"}
        /\ FailureAdvice(t) = "retry_same_payment" => t.status = "FAILED" /\ t.retrySafe
    BY DEF FailureAdvice, CanRetryFulfillment
  <2>7. /\ t.status = "FORWARDED" => f = "in_progress"
        /\ t.status = "FULFILLED" => f = "succeeded"
        /\ t.status = "FAILED" => f = "failed"
        /\ t.status = "PAYMENT_REQUIRED" => f \in {"not_started", "failed"}
        /\ t.status = "PAYMENT_VERIFIED" => f = "not_started"
        /\ t.status \in {"DISPUTED", "REFUND_RECOMMENDED"} =>
             \/ f = "failed"
             \/ f = "succeeded" /\ t.upstreamStatus = "2xx"
    BY <1>1, <2>1 DEF FulfillmentView, StoredOK, CodesOK, InDispute
  <2>8. /\ t.status \in {"PAYMENT_REQUIRED", "PAYMENT_VERIFIED", "FORWARDED", "FULFILLED",
                         "FAILED", "DISPUTED", "REFUND_RECOMMENDED"}
        /\ t.status \in {"PAYMENT_REQUIRED", "PAYMENT_VERIFIED"} => effects[i] = 0
        /\ t.status = "FAILED" /\ t.retrySafe => effects[i] = 0
        /\ t.status = "FULFILLED" => t.upstreamStatus = "2xx"
        /\ t.upstreamStatus = "2xx" => effects[i] = 1
    BY <1>1 DEF StoredOK
  <2>9. SummaryColumn(t, expired) = "fulfilled" <=> t.status = "FULFILLED"
    <3>1. SellerOutcomeAt(t, expired) # "abandoned"
      <4>1. CommerceLifecycleAt(t, expired, FALSE).commerce = c
        BY <1>10, <2>1 DEF CommerceLifecycleAt
      <4>2. c # "abandoned"
        BY <1>2, <2>3, <2>4, <2>8
      <4> QED BY <4>1, <4>2 DEF SellerOutcomeAt
    <3> QED BY <2>8, <3>1 DEF SummaryColumn
  <2>10. told \in Reports
    BY <1>2, <2>2, <2>3, <2>4, <2>5, <2>6, <2>7, <2>8 DEF Reports
  <2>11. /\ told.commerce = c /\ told.payment = p.payment
         /\ told.fulfillment = f /\ told.action = a
    BY <2>2
  <2>12. told.action = "create_new_intent" => ~Paid(t)
    BY <1>2, <1>3, <2>3, <2>5, <2>6, <2>8, <2>11
  <2>13. told.commerce \in {"awaiting_payment", "abandoned"} => ~Paid(t) /\ dispatches[i] = 0
    BY <1>2, <1>5, <2>3, <2>4, <2>8, <2>11
  <2>14. told.payment = "finalized" => t.paymentFinality = "finalized"
    <3>1. /\ t.paymentFinality = "none" => p.payment = "pending"
          /\ t.paymentFinality = "confirmed" => p.payment = "confirmed"
          /\ t.paymentFinality = "failed" => p.payment = "failed"
      BY <2>3
    <3> QED BY <1>2, <2>11, <3>1
  <2>15. told.payment = "finalized" /\ told.action = "none" => told.fulfillment = "succeeded"
    BY <2>3, <2>5, <2>6, <2>7, <2>8, <2>11, <2>14
  <2>16. /\ told.action = "retry_same_payment" => effects[i] = 0
         /\ told.fulfillment = "succeeded" => effects[i] = 1
         /\ told.fulfillment = "not_started" => effects[i] = 0
    BY <1>2, <2>3, <2>5, <2>6, <2>7, <2>8, <2>11
  <2>17. told.commerce = "fulfilled" <=> SummaryColumn(t, expired) = "fulfilled"
    BY <1>2, <2>3, <2>4, <2>8, <2>9, <2>11
  <2> QED BY <1>6, <2>10, <2>12, <2>13, <2>14, <2>15, <2>16, <2>17 DEF AdviceTrue
<1> QED BY <1>9, <1>10

\* Following the advice never costs the buyer twice and never leaves a payer
\* without a remedy, if the facilitator does not refuse what it has settled.
THEOREM AdviceIsSound ==
    ASSUME "refuses_settled" \notin Quirks
    PROVE  RemediationSpec => []AdviceIsSafe
<1>1. AdviceInv => AdviceIsSafe
  <2> SUFFICES ASSUME AdviceInv, NEW i \in Stored, NEW expired \in BOOLEAN
               PROVE  AdviceTrue(i, txn[i], Told(txn[i], expired), expired)
    BY DEF AdviceIsSafe, AdviceTrue, Paid, Told
  <2> QED BY AdviceOK
<1> QED BY <1>1, AdviceInitOK, AdviceNextOK, PTL DEF RemediationSpec

-----------------------------------------------------------------------------
\* The promise of Purchase

\* What a write of one record does to the purchases.
LEMMA OneRecordMoves ==
    ASSUME TypeOK, NEW i \in Intents, NEW t \in Transactions, txn' = [txn EXCEPT ![i] = t]
    PROVE  /\ PaymentOf'  = [PaymentOf EXCEPT ![i] = t.paymentIdentifier]
           /\ FinalityOf' = [FinalityOf EXCEPT ![i] = t.paymentFinality]
           /\ DeliveryOf' = [DeliveryOf EXCEPT ![i] = DeliveryStage(t)]
<1>1. /\ t # NoTxn
      /\ \A j \in Intents : txn'[j] = IF j = i THEN t ELSE txn[j]
  BY CheckoutAssumption DEF TypeOK
<1>2. PaymentOf' = [PaymentOf EXCEPT ![i] = t.paymentIdentifier]
  <2> DEFINE P(u) == IF u = NoTxn THEN None ELSE u.paymentIdentifier
  <2>1. PaymentOf = [j \in Intents |-> P(txn[j])] /\ PaymentOf' = [j \in Intents |-> P(txn'[j])]
    BY DEF PaymentOf
  <2>2. P(t) = t.paymentIdentifier
    BY <1>1
  <2> HIDE DEF P
  <2> QED BY <1>1, <2>1, <2>2
<1>3. FinalityOf' = [FinalityOf EXCEPT ![i] = t.paymentFinality]
  <2> DEFINE F(u) == IF u = NoTxn THEN "none" ELSE u.paymentFinality
  <2>1. FinalityOf = [j \in Intents |-> F(txn[j])] /\ FinalityOf' = [j \in Intents |-> F(txn'[j])]
    BY DEF FinalityOf
  <2>2. F(t) = t.paymentFinality
    BY <1>1
  <2> HIDE DEF F
  <2> QED BY <1>1, <2>1, <2>2
<1>4. DeliveryOf' = [DeliveryOf EXCEPT ![i] = DeliveryStage(t)]
  <2>1. DeliveryOf' = [j \in Intents |-> DeliveryStage(txn'[j])]
    BY DEF DeliveryOf, DeliveryStage, InDispute, CanRetryFulfillment
  <2>2. \A j \in Intents : DeliveryStage(txn'[j]) = IF j = i THEN DeliveryStage(t) ELSE DeliveryStage(txn[j])
    BY <1>1
  <2> QED BY <2>1, <2>2 DEF DeliveryOf
<1> QED BY <1>2, <1>3, <1>4

\* A function updated with the value it has is the same.
LEMMA SameUpdate ==
    ASSUME NEW S, NEW f, f = [j \in S |-> f[j]], NEW i \in S, NEW v, f[i] = v
    PROVE  [f EXCEPT ![i] = v] = f
<1>1. \A j \in S : [f EXCEPT ![i] = v][j] = f[j]
  OBVIOUS
<1>2. [f EXCEPT ![i] = v] = [j \in S |-> [f EXCEPT ![i] = v][j]]
  OBVIOUS
<1> QED BY <1>1, <1>2

\* A write that leaves payment and stage alone is no step of the purchase.
LEMMA SameStep ==
    ASSUME TypeOK, NEW i \in Intents, NEW s, s = txn[i], NEW t \in Transactions,
           txn' = [txn EXCEPT ![i] = t], UNCHANGED <<ledger, effects, refunds>>,
           PaymentOf[i] = t.paymentIdentifier, FinalityOf[i] = t.paymentFinality,
           DeliveryStage(s) = DeliveryStage(t)
    PROVE  UNCHANGED Bargain!purchaseVars
<1>1. /\ PaymentOf = [j \in Intents |-> PaymentOf[j]]
      /\ FinalityOf = [j \in Intents |-> FinalityOf[j]]
      /\ DeliveryOf = [j \in Intents |-> DeliveryOf[j]] /\ DeliveryOf[i] = DeliveryStage(s)
  BY DEF PaymentOf, FinalityOf, DeliveryOf
<1>2. PaymentOf' = PaymentOf /\ FinalityOf' = FinalityOf /\ DeliveryOf' = DeliveryOf
  <2>1. /\ PaymentOf'  = [PaymentOf EXCEPT ![i] = t.paymentIdentifier]
        /\ FinalityOf' = [FinalityOf EXCEPT ![i] = t.paymentFinality]
        /\ DeliveryOf' = [DeliveryOf EXCEPT ![i] = DeliveryStage(t)]
    BY OneRecordMoves
  <2>2. [PaymentOf EXCEPT ![i] = t.paymentIdentifier] = PaymentOf
    BY <1>1, SameUpdate
  <2>3. [FinalityOf EXCEPT ![i] = t.paymentFinality] = FinalityOf
    BY <1>1, SameUpdate
  <2>4. [DeliveryOf EXCEPT ![i] = DeliveryStage(t)] = DeliveryOf
    BY <1>1, SameUpdate
  <2> QED BY <2>1, <2>2, <2>3, <2>4
<1>3. Moved' = Moved /\ RefundOf' = RefundOf
  BY DEF Moved, Settled, RefundOf
<1> QED BY <1>1, <1>2, <1>3 DEF Bargain!purchaseVars

\* A write that keeps the payment takes the delivery to its next stage.
LEMMA StageStep ==
    ASSUME TypeOK, NEW i \in Intents, NEW s \in Transactions, s = txn[i],
           NEW t \in Transactions,
           txn' = [txn EXCEPT ![i] = t], UNCHANGED <<ledger, effects, refunds>>,
           t.paymentIdentifier = s.paymentIdentifier,
           t.paymentFinality = s.paymentFinality,
           NEW stages, DeliveryStage(s) \in stages, NEW next, DeliveryStage(t) = next
    PROVE  Bargain!Deliver(i, stages, next)
<1>0. s # NoTxn
  BY CheckoutAssumption
<1>1. /\ PaymentOf = [j \in Intents |-> PaymentOf[j]] /\ PaymentOf[i] = s.paymentIdentifier
      /\ FinalityOf = [j \in Intents |-> FinalityOf[j]] /\ FinalityOf[i] = s.paymentFinality
      /\ DeliveryOf[i] = DeliveryStage(s)
  BY <1>0 DEF PaymentOf, FinalityOf, DeliveryOf
<1>2. /\ PaymentOf' = PaymentOf /\ FinalityOf' = FinalityOf
      /\ DeliveryOf' = [DeliveryOf EXCEPT ![i] = next]
  <2>1. /\ PaymentOf'  = [PaymentOf EXCEPT ![i] = t.paymentIdentifier]
        /\ FinalityOf' = [FinalityOf EXCEPT ![i] = t.paymentFinality]
        /\ DeliveryOf' = [DeliveryOf EXCEPT ![i] = DeliveryStage(t)]
    BY OneRecordMoves
  <2>2. [PaymentOf EXCEPT ![i] = t.paymentIdentifier] = PaymentOf
    BY <1>1, SameUpdate
  <2>3. [FinalityOf EXCEPT ![i] = t.paymentFinality] = FinalityOf
    BY <1>1, SameUpdate
  <2> QED BY <2>1, <2>2, <2>3
<1>3. Moved' = Moved /\ RefundOf' = RefundOf
  BY DEF Moved, Settled, RefundOf
<1> QED BY <1>1, <1>2, <1>3 DEF Bargain!Deliver

\* The stage of a record that is not in dispute.
LEMMA Stages ==
    ASSUME NEW t \in Transactions
    PROVE  /\ t.status \in {"PAYMENT_REQUIRED", "PAYMENT_VERIFIED"} =>
                DeliveryStage(t) = IF t.fulfillmentAttempts = 0 THEN "waiting" ELSE "reopened"
           /\ t.status = "FORWARDED" =>
                DeliveryStage(t) = IF t.fulfillmentAttempts = 1 THEN "working" ELSE "retrying"
           /\ t.status = "FULFILLED" => DeliveryStage(t) = "delivered"
           /\ t.status = "FAILED" =>
                DeliveryStage(t) = IF CanRetryFulfillment(t) THEN "retryable" ELSE "failed"
           /\ InDispute(t) => DeliveryStage(t) = "disputed"
<1>1. t # NoTxn
  BY CheckoutAssumption
<1> QED BY <1>1 DEF DeliveryStage, InDispute

\* The transaction that is created is a purchase without a payment yet.
LEMMA CreateIsSilent ==
    ASSUME Inv, NEW r \in Requests, Create(r), UNCHANGED refunds, ~UNCHANGED txn
    PROVE  UNCHANGED Bargain!purchaseVars
<1>1. PICK i \in Intents : i = req[r].intent
  BY DEF Create, Inv, RequestOK, ParamsOK
<1>2. PICK t : t = FirstTransaction(i)
  OBVIOUS
<1>3. txn[i] = NoTxn /\ txn' = [txn EXCEPT ![i] = t] /\ UNCHANGED <<ledger, effects>> /\ TypeOK
  BY <1>1, <1>2 DEF Create, world, Inv
<1> DEFINE Unpaid(x) == /\ x \in Transactions /\ x.paymentIdentifier = None
                        /\ x.paymentFinality = "none" /\ x.fulfillmentAttempts = 0
<1>4. ASSUME NEW x, Unpaid(x), NEW next \in Statuses
      PROVE  Unpaid(transition(x, next)) /\ transition(x, next).status = next
  BY <1>4, TransitionType DEF transition, Transactions
<1>5. Unpaid(NewTransaction)
  BY DEF NewTransaction, Transactions, Statuses, Finalities, FailureCodes
<1> HIDE DEF Unpaid
<1>6. Unpaid(t) /\ t.status = "PAYMENT_REQUIRED"
  <2>1. /\ "PAYMENT_REQUIRED" \in Statuses /\ "APPROVAL_PENDING" \in Statuses
        /\ "APPROVED" \in Statuses
    BY DEF Statuses
  <2>2. Unpaid(MarkApproved(RequireApproval(NewTransaction)))
    BY <1>4, <1>5, <2>1 DEF MarkApproved, RequireApproval
  <2> QED BY <1>2, <1>4, <1>5, <2>1, <2>2 DEF FirstTransaction, RequirePayment
<1> USE DEF Unpaid
<1>7. DeliveryStage(t) = "waiting" /\ DeliveryStage(txn[i]) = "waiting"
  BY <1>3, <1>6, Stages DEF DeliveryStage
<1>8. PaymentOf[i] = t.paymentIdentifier /\ FinalityOf[i] = t.paymentFinality
  BY <1>3, <1>6 DEF PaymentOf, FinalityOf
<1> QED BY <1>3, <1>6, <1>7, <1>8, SameStep

\* A verified payment is pledged: its identifier was not claimed, so that no
\* other record has it.
LEMMA SaveVerifiedPledges ==
    ASSUME Inv, NEW r \in Requests, SaveVerified(r), UNCHANGED refunds, ~UNCHANGED txn
    PROVE  \E id \in PaymentIds : Bargain!Pledge(req[r].intent, id)
<1>1. PICK i, s, id, t : /\ i = req[r].intent /\ s = view[r]
                         /\ id = PaymentIdOf[req[r].proof]
                         /\ t = VerifyPayment(s, id, req[r].proof)
  OBVIOUS
<1>2. /\ CanVerifyPayment(s) /\ VersionMatches(r) /\ pc[r] \in ViewPCs /\ pc[r] \in ProofPCs
      /\ claims[id] = None /\ txn' = [txn EXCEPT ![i] = t] /\ UNCHANGED <<ledger, effects>>
  BY <1>1 DEF SaveVerified, ViewPCs, ProofPCs, world
<1>3. /\ TypeOK /\ i \in Intents /\ s \in Transactions /\ s = txn[i] /\ s # NoTxn
      /\ StoredOK(i, s) /\ req[r].proof \in Proofs /\ id \in PaymentIds
  BY <1>1, <1>2, UpdateContext, CheckoutAssumption DEF RequestOK, ParamsOK
<1>4. s.status = "PAYMENT_REQUIRED"
  BY <1>2 DEF CanVerifyPayment, CanTransition, allowedTransition
<1>5. s.paymentFinality = "none" /\ s.fulfillmentAttempts = 0
  BY <1>3, <1>4 DEF StoredOK
<1>6. t \in Transactions
  BY <1>1, <1>3, VerifyPaymentType
<1>7. /\ t.status = "PAYMENT_VERIFIED" /\ t.paymentFinality = "confirmed"
      /\ t.paymentIdentifier = id /\ t.fulfillmentAttempts = 0
  BY <1>1, <1>3, <1>5 DEF VerifyPayment, transition, Transactions
<1>8. DeliveryStage(s) = "waiting" /\ DeliveryStage(t) = "waiting"
  BY <1>3, <1>4, <1>5, <1>6, <1>7, Stages
<1>9. FinalityOf[i] = "none" /\ DeliveryOf[i] = "waiting"
  BY <1>3, <1>5, <1>8 DEF FinalityOf, DeliveryOf
<1>10. ASSUME NEW j \in Intents PROVE PaymentOf[j] # id
  <2>1. id # None
    BY <1>3, NoneAssumption
  <2>2. CASE txn[j] = NoTxn
    BY <2>1, <2>2 DEF PaymentOf
  <2>3. CASE txn[j] # NoTxn
    <3>1. ClaimedOK(j, txn[j])
      BY <2>3 DEF Inv, RecordOK, StoredOK
    <3>2. PaymentOf[j] = txn[j].paymentIdentifier
      BY <2>3 DEF PaymentOf
    <3>3. j # None
      BY CheckoutAssumption
    <3> QED BY <1>2, <2>1, <3>1, <3>2, <3>3 DEF ClaimedOK
  <2> QED BY <2>2, <2>3
<1>11. /\ PaymentOf'  = [PaymentOf EXCEPT ![i] = id]
       /\ FinalityOf' = [FinalityOf EXCEPT ![i] = "confirmed"]
       /\ DeliveryOf' = DeliveryOf
  <2>1. /\ PaymentOf'  = [PaymentOf EXCEPT ![i] = t.paymentIdentifier]
        /\ FinalityOf' = [FinalityOf EXCEPT ![i] = t.paymentFinality]
        /\ DeliveryOf' = [DeliveryOf EXCEPT ![i] = DeliveryStage(t)]
    BY <1>2, <1>3, <1>6, OneRecordMoves
  <2>2. [DeliveryOf EXCEPT ![i] = "waiting"] = DeliveryOf
    <3>1. DeliveryOf = [j \in Intents |-> DeliveryOf[j]]
      BY DEF DeliveryOf
    <3> QED BY <1>3, <1>9, <3>1, SameUpdate
  <2> QED BY <1>7, <1>8, <2>1, <2>2
<1>12. Moved' = Moved /\ RefundOf' = RefundOf
  BY <1>2 DEF Moved, Settled, RefundOf
<1>13. Bargain!Pledge(i, id)
  BY <1>2, <1>9, <1>10, <1>11, <1>12 DEF Bargain!Pledge
<1> QED BY <1>1, <1>3, <1>13

\* A settlement is recorded only after the transfer.
LEMMA FinalizeTakes ==
    ASSUME Inv, NEW r \in Requests, Finalize(r), UNCHANGED refunds, ~UNCHANGED txn
    PROVE  Bargain!Take(req[r].intent)
<1>1. PICK i, s, t : i = req[r].intent /\ s = view[r] /\ t = FinalizePayment(s)
  OBVIOUS
<1>2. /\ CanFinalizePayment(s, PaymentIdOf[req[r].proof]) /\ VersionMatches(r)
      /\ pc[r] \in ViewPCs /\ pc[r] = "finalize"
      /\ txn' = [txn EXCEPT ![i] = Restore(t)] /\ UNCHANGED <<ledger, effects>>
  BY <1>1 DEF Finalize, Update, ViewPCs, ProofPCs, SettlementPCs, world
<1>3. /\ TypeOK /\ RequestOK(r) /\ i \in Intents /\ s \in Transactions /\ s = txn[i] /\ s # NoTxn
      /\ StoredOK(i, s)
  BY <1>1, <1>2, UpdateContext
<1>4. /\ s.status = "PAYMENT_VERIFIED" /\ s.paymentFinality = "confirmed"
      /\ s.paymentIdentifier = PaymentIdOf[req[r].proof] /\ Settled(s.paymentIdentifier)
      /\ s.paymentIdentifier \in PaymentIds
  BY <1>1, <1>2, <1>3, CheckoutAssumption DEF CanFinalizePayment, AwaitsSettlement, RequestOK,
     SettlementOK, SettlementPCs, ParamsOK, ProofPCs
<1>5. t \in Transactions
  BY <1>1, <1>3, FinalizePaymentType
<1>6. /\ t.status = s.status /\ t.paymentFinality = "finalized"
      /\ t.paymentIdentifier = s.paymentIdentifier
      /\ t.fulfillmentAttempts = s.fulfillmentAttempts
  BY <1>1, <1>3 DEF FinalizePayment, Transactions
<1>7. Restore(t) = t
  BY <1>4, <1>6 DEF Restore
<1>8. DeliveryStage(t) = DeliveryStage(s)
  BY <1>3, <1>4, <1>5, <1>6, Stages
<1>9. /\ PaymentOf[i] = s.paymentIdentifier /\ FinalityOf[i] = "confirmed"
      /\ DeliveryOf[i] = DeliveryStage(s) /\ s.paymentIdentifier \in Moved
  BY <1>3, <1>4 DEF PaymentOf, FinalityOf, DeliveryOf, Moved
<1>10. /\ PaymentOf' = PaymentOf /\ FinalityOf' = [FinalityOf EXCEPT ![i] = "finalized"]
       /\ DeliveryOf' = DeliveryOf
  <2>1. /\ PaymentOf'  = [PaymentOf EXCEPT ![i] = t.paymentIdentifier]
        /\ FinalityOf' = [FinalityOf EXCEPT ![i] = t.paymentFinality]
        /\ DeliveryOf' = [DeliveryOf EXCEPT ![i] = DeliveryStage(t)]
    BY <1>2, <1>3, <1>5, <1>7, OneRecordMoves
  <2>2. /\ DeliveryOf = [j \in Intents |-> DeliveryOf[j]]
        /\ PaymentOf = [j \in Intents |-> PaymentOf[j]]
    BY DEF DeliveryOf, PaymentOf
  <2>3. [DeliveryOf EXCEPT ![i] = DeliveryStage(t)] = DeliveryOf
    BY <1>3, <1>8, <1>9, <2>2, SameUpdate
  <2>4. [PaymentOf EXCEPT ![i] = t.paymentIdentifier] = PaymentOf
    BY <1>3, <1>6, <1>9, <2>2, SameUpdate
  <2> QED BY <1>6, <2>1, <2>3, <2>4
<1>11. Moved' = Moved /\ RefundOf' = RefundOf
  BY <1>2 DEF Moved, Settled, RefundOf
<1> QED BY <1>1, <1>2, <1>9, <1>10, <1>11 DEF Bargain!Take

\* A payment is written off only when the facilitator refused it.
LEMMA RejectTurnsDown ==
    ASSUME Inv, NEW r \in Requests, RejectPayment(r), UNCHANGED refunds, ~UNCHANGED txn
    PROVE  Bargain!TurnDown(req[r].intent)
<1>1. PICK i, s, t, u : /\ i = req[r].intent /\ s = view[r]
                        /\ t = FailPayment(s, "settlement_rejected") /\ u = Restore(t)
  OBVIOUS
<1>2. /\ CanFailPayment(s) /\ VersionMatches(r)
      /\ pc[r] \in ViewPCs /\ pc[r] = "failPayment"
      /\ txn' = [txn EXCEPT ![i] = u] /\ UNCHANGED <<ledger, effects>>
  BY <1>1 DEF RejectPayment, UpdateAndReturn, ViewPCs, ProofPCs, SettlementPCs, world
<1>3. /\ TypeOK /\ RequestOK(r) /\ i \in Intents /\ s \in Transactions /\ s = txn[i] /\ s # NoTxn
  BY <1>1, <1>2, UpdateContext
<1>4. /\ s.paymentFinality = "confirmed"
      /\ s.paymentIdentifier = PaymentIdOf[req[r].proof]
      /\ "refuses_settled" \notin Quirks => ledger[s.paymentIdentifier] = "refused"
  BY <1>1, <1>2, <1>3, CheckoutAssumption DEF CanFailPayment, AwaitsSettlement, RequestOK,
     SettlementOK, SettlementPCs
<1>5. t \in Transactions
  BY <1>1, <1>3, FailPaymentType DEF FailureCodes
<1>6. /\ t.status = "FAILED" /\ t.paymentFinality = "failed"
      /\ t.paymentIdentifier = s.paymentIdentifier
  BY <1>1, <1>3 DEF FailPayment, transition, Transactions
<1>7. /\ u \in Transactions /\ u.status = "FAILED" /\ u.paymentFinality = "failed"
      /\ u.paymentIdentifier = s.paymentIdentifier
  BY <1>1, <1>5, <1>6, RestoreFields DEF Restore, Transactions
<1>8. DeliveryStage(u) = "failed"
  BY <1>7, Stages DEF CanRetryFulfillment
<1>9. /\ PaymentOf[i] = s.paymentIdentifier /\ FinalityOf[i] = "confirmed"
      /\ "refuses_settled" \notin Quirks => s.paymentIdentifier \notin Moved
  BY <1>3, <1>4, CheckoutAssumption DEF PaymentOf, FinalityOf, Moved, Settled
<1>10. /\ PaymentOf' = PaymentOf /\ FinalityOf' = [FinalityOf EXCEPT ![i] = "failed"]
       /\ DeliveryOf' = [DeliveryOf EXCEPT ![i] = "failed"]
  <2>1. /\ PaymentOf'  = [PaymentOf EXCEPT ![i] = u.paymentIdentifier]
        /\ FinalityOf' = [FinalityOf EXCEPT ![i] = u.paymentFinality]
        /\ DeliveryOf' = [DeliveryOf EXCEPT ![i] = DeliveryStage(u)]
    BY <1>2, <1>3, <1>7, OneRecordMoves
  <2>2. PaymentOf = [j \in Intents |-> PaymentOf[j]]
    BY DEF PaymentOf
  <2>3. [PaymentOf EXCEPT ![i] = u.paymentIdentifier] = PaymentOf
    BY <1>3, <1>7, <1>9, <2>2, SameUpdate
  <2> QED BY <1>7, <1>8, <2>1, <2>3
<1>11. Moved' = Moved /\ RefundOf' = RefundOf
  BY <1>2 DEF Moved, Settled, RefundOf
<1> QED BY <1>1, <1>2, <1>9, <1>10, <1>11 DEF Bargain!TurnDown

\* A payment under review stays where it is.
LEMMA ReviewIsSilent ==
    ASSUME Inv, NEW r \in Requests, Review(r), UNCHANGED refunds, ~UNCHANGED txn
    PROVE  UNCHANGED Bargain!purchaseVars
<1>1. PICK i, s, t : /\ i = req[r].intent /\ s = view[r]
                     /\ t = RequirePaymentReview(s, "settlement_payer_mismatch")
  OBVIOUS
<1>2. /\ CanRequirePaymentReview(s) /\ VersionMatches(r) /\ pc[r] \in ViewPCs
      /\ txn' = [txn EXCEPT ![i] = Restore(t)] /\ UNCHANGED <<ledger, effects>>
  BY <1>1 DEF Review, UpdateAndReturn, ViewPCs, ProofPCs, SettlementPCs, world
<1>3. TypeOK /\ i \in Intents /\ s \in Transactions /\ s = txn[i] /\ s # NoTxn
  BY <1>1, <1>2, UpdateContext
<1>4. s.status = "PAYMENT_VERIFIED"
  BY <1>2 DEF CanRequirePaymentReview, AwaitsSettlement
<1>5. t \in Transactions
  BY <1>1, <1>3, RequirePaymentReviewType DEF FailureCodes
<1>6. /\ t.status = s.status /\ t.paymentFinality = s.paymentFinality
      /\ t.paymentIdentifier = s.paymentIdentifier
      /\ t.fulfillmentAttempts = s.fulfillmentAttempts
  BY <1>1, <1>3 DEF RequirePaymentReview, Transactions
<1>7. Restore(t) = t
  BY <1>4, <1>6 DEF Restore
<1>8. DeliveryStage(t) = DeliveryStage(s)
  BY <1>3, <1>4, <1>5, <1>6, Stages
<1>9. PaymentOf[i] = t.paymentIdentifier /\ FinalityOf[i] = t.paymentFinality
  BY <1>3, <1>6 DEF PaymentOf, FinalityOf
<1> QED BY <1>2, <1>3, <1>5, <1>7, <1>8, <1>9, SameStep

\* The seller is engaged by the claim: for a finalized payment, and a second
\* time only for a record that was reopened.
LEMMA ClaimEngages ==
    ASSUME Inv, NEW r \in Requests, Claim(r), UNCHANGED refunds, ~UNCHANGED txn
    PROVE  Bargain!Engage(req[r].intent)
<1>1. PICK i, s, t : i = req[r].intent /\ s = txn[i] /\ t = MarkForwarded(s)
  OBVIOUS
<1>2. /\ CanMarkForwarded(s) /\ VersionMatches(r) /\ pc[r] \in ViewPCs
      /\ txn' = [txn EXCEPT ![i] = t] /\ UNCHANGED <<ledger, effects, refunds>>
  BY <1>1 DEF Claim, ViewPCs, world
<1>3. TypeOK /\ i \in Intents /\ s \in Transactions /\ s # NoTxn /\ StoredOK(i, s)
  BY <1>1, <1>2, UpdateContext
<1>4. /\ s.status = "PAYMENT_VERIFIED" /\ s.paymentFinality = "finalized"
      /\ s.fulfillmentAttempts \in Nat /\ s.fulfillmentAttempts <= 1
  BY <1>2, <1>3 DEF CanMarkForwarded, StoredOK, Transactions
<1>5. t \in Transactions
  BY <1>1, <1>3, MarkForwardedType
<1>6. /\ t.status = "FORWARDED" /\ t.paymentFinality = s.paymentFinality
      /\ t.paymentIdentifier = s.paymentIdentifier
      /\ t.fulfillmentAttempts = s.fulfillmentAttempts + 1
  BY <1>1, <1>3 DEF MarkForwarded, transition, Transactions
<1>7. FinalityOf[i] = "finalized"
  BY <1>1, <1>3, <1>4 DEF FinalityOf
<1>8. CASE s.fulfillmentAttempts = 0
  <2>1. DeliveryStage(s) \in {"waiting"} /\ DeliveryStage(t) = "working"
    BY <1>3, <1>4, <1>5, <1>6, <1>8, Stages
  <2>2. Bargain!Deliver(i, {"waiting"}, "working")
    BY <1>1, <1>2, <1>3, <1>5, <1>6, <2>1, StageStep
  <2> QED BY <1>1, <1>7, <2>2 DEF Bargain!Engage
<1>9. CASE s.fulfillmentAttempts = 1
  <2>1. DeliveryStage(s) \in {"reopened"} /\ DeliveryStage(t) = "retrying"
    BY <1>3, <1>4, <1>5, <1>6, <1>9, Stages
  <2>2. Bargain!Deliver(i, {"reopened"}, "retrying")
    BY <1>1, <1>2, <1>3, <1>5, <1>6, <2>1, StageStep
  <2> QED BY <1>1, <1>7, <2>2 DEF Bargain!Engage
<1> QED BY <1>4, <1>8, <1>9

\* A corrected body reopens a delivery that may be repeated.
LEMMA PrepareRetryReopens ==
    ASSUME Inv, NEW r \in Requests, PrepareRetry(r), UNCHANGED refunds, ~UNCHANGED txn
    PROVE  Bargain!Reopen(req[r].intent)
<1>1. PICK i, s, t : /\ i = req[r].intent /\ s = view[r]
                     /\ t = PrepareFulfillmentRetry(s, req[r].body)
  OBVIOUS
<1>2. /\ CanRetryFulfillment(s) /\ VersionMatches(r) /\ pc[r] \in ViewPCs /\ pc[r] # "idle"
      /\ txn' = [txn EXCEPT ![i] = Restore(t)] /\ UNCHANGED <<ledger, effects, refunds>>
  BY <1>1 DEF PrepareRetry, Update, ViewPCs, world
<1>3. /\ TypeOK /\ i \in Intents /\ s \in Transactions /\ s = txn[i] /\ req[r].body \in Bodies
  BY <1>1, <1>2, UpdateContext DEF RequestOK, ParamsOK
<1>4. t \in Transactions
  BY <1>1, <1>3, PrepareRetryType
<1>5. /\ t.status = "PAYMENT_VERIFIED" /\ t.paymentFinality = s.paymentFinality
      /\ t.paymentIdentifier = s.paymentIdentifier
      /\ t.fulfillmentAttempts = s.fulfillmentAttempts
  BY <1>1, <1>3 DEF PrepareFulfillmentRetry, Transactions
<1>6. s.status = "FAILED" /\ s.fulfillmentAttempts = 1
  BY <1>2 DEF CanRetryFulfillment
<1>7. Restore(t) = t
  BY <1>5 DEF Restore
<1>8. DeliveryStage(s) \in {"retryable"} /\ DeliveryStage(t) = "reopened"
  BY <1>2, <1>3, <1>4, <1>5, <1>6, Stages
<1> QED BY <1>1, <1>2, <1>3, <1>4, <1>5, <1>7, <1>8, StageStep DEF Bargain!Reopen

\* A failed delivery may be repeated only when it was the first and the seller
\* did nothing.
LEMMA FailureFinishes ==
    ASSUME TypeOK, NEW i \in Intents, NEW s \in Transactions, s = txn[i], StoredOK(i, s),
           s.status = "FORWARDED", effects[i] \in {0, 1},
           NEW code \in FailureCodes, NEW upstream \in UpstreamStatuses \cup {None},
           NEW safe \in BOOLEAN, safe => effects[i] = 0,
           NEW t, t = MarkFailedWithRecovery(s, code, upstream, safe),
           txn' = [txn EXCEPT ![i] = Restore(t)], UNCHANGED <<ledger, effects, refunds>>
    PROVE  Bargain!Finish(i)
<1>1. t \in Transactions
  BY MarkFailedType
<1>2. /\ t.status = "FAILED" /\ t.paymentFinality = s.paymentFinality
      /\ t.paymentIdentifier = s.paymentIdentifier
      /\ t.fulfillmentAttempts = s.fulfillmentAttempts
      /\ t.retrySafe => safe
  BY DEF MarkFailedWithRecovery, transition, Transactions
<1>3. Restore(t) = t
  BY <1>2 DEF Restore, StoredOK
<1>4. DeliveryStage(s) = IF s.fulfillmentAttempts = 1 THEN "working" ELSE "retrying"
  BY Stages
<1>5. CASE CanRetryFulfillment(t)
  <2>1. DeliveryStage(t) = "retryable" /\ DeliveryStage(s) \in {"working"} /\ effects[i] = 0
    BY <1>1, <1>2, <1>4, <1>5, Stages DEF CanRetryFulfillment
  <2>2. Bargain!Deliver(i, {"working"}, "retryable")
    BY <1>1, <1>2, <1>3, <2>1, StageStep
  <2> QED BY <2>1, <2>2 DEF Bargain!Finish
<1>6. CASE ~CanRetryFulfillment(t)
  <2>1. DeliveryStage(t) = "failed" /\ DeliveryStage(s) \in Bargain!Working
    BY <1>1, <1>2, <1>4, <1>6, Stages DEF Bargain!Working
  <2>2. Bargain!Deliver(i, Bargain!Working, "failed")
    BY <1>1, <1>2, <1>3, <2>1, StageStep
  <2> QED BY <2>2 DEF Bargain!Finish
<1> QED BY <1>5, <1>6

\* A delivery that ends before the seller is called fails.
LEMMA FailBeforeDispatchFinishes ==
    ASSUME Inv, NEW r \in Requests, FailBeforeDispatch(r), UNCHANGED refunds, ~UNCHANGED txn
    PROVE  Bargain!Finish(req[r].intent)
<1>1. PICK i, s, t : /\ i = req[r].intent /\ s = view[r]
                     /\ t = MarkFailedWithRecovery(s, result[r].code, None, TRUE)
  OBVIOUS
<1>2. /\ VersionMatches(r) /\ pc[r] \in ViewPCs /\ pc[r] \in PrePCs /\ pc[r] \in OwnerPCs
      /\ txn' = [txn EXCEPT ![i] = Restore(t)] /\ UNCHANGED <<ledger, effects, refunds>>
  BY <1>1 DEF FailBeforeDispatch, UpdateAndReturn, ViewPCs, OwnerPCs, PrePCs, world
<1>3. /\ TypeOK /\ RequestOK(r) /\ i \in Intents /\ s \in Transactions /\ s = txn[i] /\ StoredOK(i, s)
  BY <1>1, <1>2, UpdateContext
<1>4. s.status = "FORWARDED" /\ effects[i] = 0 /\ result[r].code \in FailureCodes
  BY <1>1, <1>2, <1>3 DEF RequestOK, OwnerOK, TypeOK, Results
<1>5. None \in UpstreamStatuses \cup {None} /\ TRUE \in BOOLEAN
  OBVIOUS
<1>6. Bargain!Finish(i)
  BY <1>1, <1>2, <1>3, <1>4, <1>5, FailureFinishes
<1> QED BY <1>1, <1>6

\* The stored outcome is what the seller did.
LEMMA SaveOutcomeFinishes ==
    ASSUME Inv, NEW r \in Requests, SaveOutcome(r), UNCHANGED refunds, ~UNCHANGED txn
    PROVE  Bargain!Finish(req[r].intent)
<1>1. PICK i, s, t, answer : /\ i = req[r].intent /\ s = view[r] /\ answer = result[r]
                             /\ t = Outcome(s, answer)
  OBVIOUS
<1>2. /\ VersionMatches(r) /\ pc[r] \in ViewPCs /\ pc[r] = "saveOutcome" /\ pc[r] \in OwnerPCs
      /\ txn' = [txn EXCEPT ![i] = Restore(t)] /\ UNCHANGED <<ledger, effects, refunds>>
  BY <1>1 DEF SaveOutcome, Update, ViewPCs, OwnerPCs, world
<1>3. /\ TypeOK /\ RequestOK(r) /\ i \in Intents /\ s \in Transactions /\ s = txn[i] /\ StoredOK(i, s)
  BY <1>1, <1>2, UpdateContext
<1>4. /\ s.status = "FORWARDED" /\ effects[i] \in {0, 1}
      /\ answer \in Results
      /\ answer.retrySafe => effects[i] = 0
      /\ answer.status = "2xx" => effects[i] = 1
  <2>1. effects[i] \in Nat /\ effects[i] <= 1
    BY <1>3 DEF Inv, RecordOK, TypeOK
  <2>2. s.status = "FORWARDED" /\ answer \in Results
    BY <1>1, <1>2, <1>3 DEF RequestOK, OwnerOK, TypeOK
  <2>3. /\ answer.retrySafe => effects[i] = 0
        /\ answer.status = "2xx" => effects[i] = 1
    BY <1>1, <1>2, <1>3 DEF RequestOK, OwnerOK
  <2> QED BY <2>1, <2>2, <2>3
<1>5. CASE answer.status = "2xx"
  <2>1. t = MarkFulfilled(s) /\ t \in Transactions
    BY <1>1, <1>3, <1>5, MarkFulfilledType DEF Outcome
  <2>2. /\ t.status = "FULFILLED" /\ t.paymentFinality = s.paymentFinality
        /\ t.paymentIdentifier = s.paymentIdentifier
        /\ t.fulfillmentAttempts = s.fulfillmentAttempts
    BY <1>3, <2>1 DEF MarkFulfilled, transition, Transactions
  <2>3. Restore(t) = t
    BY <1>3, <1>4, <2>2 DEF Restore, StoredOK
  <2>4. DeliveryStage(t) = "delivered" /\ DeliveryStage(s) \in Bargain!Working
    BY <1>3, <1>4, <2>1, <2>2, Stages DEF Bargain!Working
  <2>5. Bargain!Deliver(i, Bargain!Working, "delivered")
    BY <1>2, <1>3, <2>1, <2>2, <2>3, <2>4, StageStep
  <2> QED BY <1>1, <1>4, <1>5, <2>5 DEF Bargain!Finish
<1>6. CASE answer.status # "2xx"
  <2>1. /\ t = MarkFailedWithRecovery(s, answer.code, answer.status, answer.retrySafe)
        /\ answer.code \in FailureCodes /\ answer.status \in UpstreamStatuses \cup {None}
        /\ answer.retrySafe \in BOOLEAN
    BY <1>1, <1>4, <1>6 DEF Outcome, Results
  <2>2. Bargain!Finish(i)
    BY <1>2, <1>3, <1>4, <2>1, FailureFinishes
  <2> QED BY <1>1, <2>2
<1> QED BY <1>5, <1>6

\* Only a payment that a purchase has pledged is moved, and not after it was
\* written off.
LEMMA TransferMoves ==
    ASSUME AdviceInv, NEW r \in Requests, pc[r] = "settle", NEW p \in Payers,
           NEW id, id = PaymentIdOf[req[r].proof], Transfer(id, p),
           UNCHANGED <<txn, effects, refunds>>
    PROVE  Bargain!Move(req[r].intent) \/ UNCHANGED Bargain!purchaseVars
<1>0. Inv
  BY DEF AdviceInv, RemediationInv, EvidenceInv
<1>1. PICK i \in Intents : i = req[r].intent
  BY <1>0 DEF Inv, RequestOK, ParamsOK
<1>2. /\ TypeOK /\ id \in PaymentIds /\ claims[id] = i
  BY <1>0, <1>1, CheckoutAssumption DEF Inv, RequestOK, ParamsOK, ProofPCs, SettlementOK, SettlementPCs
<1>3. /\ txn[i] # NoTxn /\ txn[i].paymentIdentifier = id /\ StoredOK(i, txn[i])
  BY <1>0, <1>1, <1>2, CheckoutAssumption DEF Inv, PaymentOK, RecordOK
<1>4. /\ PaymentOf[i] = id /\ FinalityOf[i] = txn[i].paymentFinality /\ id # None
      /\ txn[i] \in Transactions
  BY <1>2, <1>3, NoneAssumption DEF PaymentOf, FinalityOf, TypeOK
<1>5. /\ PaymentOf' = PaymentOf /\ FinalityOf' = FinalityOf /\ DeliveryOf' = DeliveryOf
      /\ RefundOf' = RefundOf
  BY DEF PaymentOf, FinalityOf, DeliveryOf, DeliveryStage, InDispute, CanRetryFulfillment, RefundOf
<1>6. CASE ledger[id] = p /\ UNCHANGED ledger
  <2>1. Moved' = Moved
    BY <1>6 DEF Moved, Settled
  <2> QED BY <1>5, <2>1 DEF Bargain!purchaseVars
<1>7. CASE ledger[id] = "open" /\ ledger' = [ledger EXCEPT ![id] = p]
  <2>1. id \notin Moved
    BY <1>7, CheckoutAssumption DEF Moved, Settled
  <2>2. Moved' = Moved \cup {id}
    BY <1>2, <1>7 DEF Moved, Settled, TypeOK
  <2>3. FinalityOf[i] = "confirmed" \/ "refuses_settled" \in Quirks
    <3>1. txn[i].status # "PAYMENT_REQUIRED"
      BY <1>3, <1>4 DEF StoredOK
    <3>2. txn[i].paymentFinality # "finalized"
      BY <1>3, <2>1 DEF StoredOK, Moved
    <3>3. txn[i].paymentFinality = "failed" => "refuses_settled" \in Quirks
      BY <1>3, <1>7 DEF StoredOK
    <3>4. txn[i].paymentFinality # "none"
      BY <1>3, <3>1 DEF AdviceInv, CodesOK
    <3> QED BY <1>4, <3>2, <3>3, <3>4 DEF Transactions, Finalities
  <2> QED BY <1>1, <1>4, <1>5, <2>1, <2>2, <2>3 DEF Bargain!Move
<1> QED BY <1>6, <1>7 DEF Transfer

\* A refusal moves nothing.
LEMMA RefusalIsSilent ==
    ASSUME TypeOK, NEW id \in PaymentIds, Refuse(id), UNCHANGED <<txn, effects, refunds>>
    PROVE  UNCHANGED Bargain!purchaseVars
<1>1. Moved' = Moved
  BY CheckoutAssumption DEF Refuse, Moved, Settled, TypeOK
<1>2. /\ PaymentOf' = PaymentOf /\ FinalityOf' = FinalityOf /\ DeliveryOf' = DeliveryOf
      /\ RefundOf' = RefundOf
  BY DEF PaymentOf, FinalityOf, DeliveryOf, DeliveryStage, InDispute, CanRetryFulfillment, RefundOf
<1> QED BY <1>1, <1>2 DEF Bargain!purchaseVars

\* A seller call has the one effect, or none.
LEMMA DispatchServes ==
    ASSUME Inv, NEW r \in Requests, Dispatch(r), UNCHANGED refunds
    PROVE  Bargain!Serve(req[r].intent) \/ UNCHANGED Bargain!purchaseVars
<1>1. PICK i \in Intents : i = req[r].intent
  BY DEF Dispatch, Inv, RequestOK, ParamsOK
<1>2. /\ TypeOK /\ pc[r] = "dispatch" /\ UNCHANGED <<txn, ledger>>
  BY DEF Dispatch, Inv, store
<1>3. txn[i].status = "FORWARDED" /\ effects[i] = 0 /\ txn[i] # NoTxn
  BY <1>1, <1>2 DEF Inv, RequestOK, OwnerOK, OwnerPCs, PrePCs, Txn, ViewPCs, Fresh
<1>4. txn[i] \in Transactions
  BY <1>2, <1>3 DEF TypeOK
<1>5. DeliveryOf[i] \in {"working", "retrying"}
  BY <1>3, <1>4, Stages DEF DeliveryOf
<1>6. /\ PaymentOf' = PaymentOf /\ FinalityOf' = FinalityOf /\ DeliveryOf' = DeliveryOf
      /\ Moved' = Moved /\ RefundOf' = RefundOf
  BY <1>2 DEF PaymentOf, FinalityOf, DeliveryOf, DeliveryStage, InDispute, CanRetryFulfillment, RefundOf,
     Moved, Settled
<1>7. PICK answer \in SellerAnswers : \E n \in EffectsOf(answer) : effects' = [effects EXCEPT ![i] = @ + n]
  BY <1>1 DEF Dispatch
<1>8. PICK n \in EffectsOf(answer) : effects' = [effects EXCEPT ![i] = @ + n]
  BY <1>7
<1>9. n \in {0, 1}
  BY AnswerOK
<1>10. CASE n = 0
  <2>1. effects = [j \in Intents |-> effects[j]] /\ effects' = [effects EXCEPT ![i] = 0]
    BY <1>2, <1>3, <1>8, <1>10 DEF TypeOK
  <2>2. effects' = effects
    BY <1>3, <2>1, SameUpdate
  <2> QED BY <1>6, <2>2 DEF Bargain!purchaseVars
<1>11. CASE n = 1
  <2>1. effects' = [effects EXCEPT ![i] = 1]
    BY <1>2, <1>3, <1>8, <1>11 DEF TypeOK
  <2> QED BY <1>1, <1>3, <1>5, <1>6, <2>1 DEF Bargain!Serve, Bargain!Working
<1> QED BY <1>9, <1>10, <1>11

\* A step that touches neither record, payment, seller nor refunds is no step
\* of the purchase.
LEMMA OtherIsSilent ==
    ASSUME UNCHANGED <<txn, ledger, effects, refunds>>
    PROVE  UNCHANGED Bargain!purchaseVars
BY DEF Bargain!purchaseVars, PaymentOf, FinalityOf, DeliveryOf, DeliveryStage, InDispute,
       CanRetryFulfillment, RefundOf, Moved, Settled

\* A request makes one step of Purchase, or none.
LEMMA RequestRefines ==
    ASSUME AdviceInv, Next, UNCHANGED remedies
    PROVE  [Bargain!Next]_(Bargain!purchaseVars)
<1>0. Inv
  BY DEF AdviceInv, RemediationInv, EvidenceInv
<1>1. PICK r \in Requests : BeginSome(r) \/ Step(r) \/ Abort(r)
  BY DEF Next
<1>2. PICK i : i = req[r].intent
  OBVIOUS
<1>3. pc[r] # "idle" => i \in Intents
  BY <1>0, <1>2 DEF Inv, RequestOK, ParamsOK
<1>4. UNCHANGED refunds
  BY DEF remedies
<1>5. CASE UNCHANGED <<txn, ledger, effects>>
  BY <1>0, <1>4, <1>5, OtherIsSilent
<1>6. CASE ~UNCHANGED txn
  <2>1. /\ pc[r] # "idle"
        /\ \/ Create(r) \/ SaveVerified(r) \/ Finalize(r) \/ RejectPayment(r) \/ Review(r)
           \/ Claim(r) \/ PrepareRetry(r) \/ FailBeforeDispatch(r) \/ SaveOutcome(r)
    <3>1. ~BeginSome(r) /\ ~Abort(r)
      BY <1>6 DEF BeginSome, Begin, Abort, store
    <3>2. \/ Create(r) \/ SaveVerified(r) \/ Finalize(r) \/ RejectPayment(r) \/ Review(r)
          \/ Claim(r) \/ PrepareRetry(r) \/ FailBeforeDispatch(r) \/ SaveOutcome(r)
      BY <1>1, <1>6, <3>1 DEF Step, LoadForRetry, Load, RecordChallenge, Verify, RecordVerification,
         SettleConfirmed, SettleRefused, SettleUnknown, RecordForwarding, Sign, Dispatch,
         RecordDelivery, store
    <3>3. pc[r] # "idle"
      BY <3>2 DEF Create, SaveVerified, Finalize, RejectPayment, Review, Claim, PrepareRetry,
         FailBeforeDispatch, SaveOutcome
    <3> QED BY <3>2, <3>3
  <2>2. CASE Create(r) \/ Review(r)
    BY <1>0, <1>4, <1>6, <2>2, CreateIsSilent, ReviewIsSilent
  <2>3. CASE SaveVerified(r)
    BY <1>0, <1>2, <1>3, <1>4, <1>6, <2>1, <2>3, SaveVerifiedPledges DEF Bargain!Next
  <2>4. CASE Finalize(r)
    BY <1>0, <1>2, <1>3, <1>4, <1>6, <2>1, <2>4, FinalizeTakes DEF Bargain!Next
  <2>5. CASE RejectPayment(r)
    BY <1>0, <1>2, <1>3, <1>4, <1>6, <2>1, <2>5, RejectTurnsDown DEF Bargain!Next
  <2>6. CASE Claim(r)
    BY <1>0, <1>2, <1>3, <1>4, <1>6, <2>1, <2>6, ClaimEngages DEF Bargain!Next
  <2>7. CASE PrepareRetry(r)
    BY <1>0, <1>2, <1>3, <1>4, <1>6, <2>1, <2>7, PrepareRetryReopens DEF Bargain!Next
  <2>8. CASE FailBeforeDispatch(r) \/ SaveOutcome(r)
    BY <1>0, <1>2, <1>3, <1>4, <1>6, <2>1, <2>8, FailBeforeDispatchFinishes, SaveOutcomeFinishes
    DEF Bargain!Next
  <2> QED BY <2>1, <2>2, <2>3, <2>4, <2>5, <2>6, <2>7, <2>8
<1>7. CASE UNCHANGED txn /\ ~UNCHANGED ledger
  <2>1. SettleConfirmed(r) \/ SettleRefused(r) \/ SettleUnknown(r)
    BY <1>1, <1>7 DEF BeginSome, Begin, Abort, Step, LoadForRetry, Load, Verify, Sign, PrepareRetry,
       SaveVerified, Finalize, Create, RecordChallenge, RecordVerification, RecordForwarding,
       RecordDelivery, RejectPayment, Review, Claim, FailBeforeDispatch, SaveOutcome, Dispatch,
       store, world
  <2>2. pc[r] = "settle" /\ UNCHANGED <<txn, effects, refunds>>
    BY <1>4, <2>1 DEF SettleConfirmed, SettleRefused, SettleUnknown, store
  <2>3. PICK id : id = PaymentIdOf[req[r].proof]
    OBVIOUS
  <2>4. TypeOK /\ id \in PaymentIds
    BY <1>0, <2>2, <2>3, CheckoutAssumption DEF Inv, RequestOK, ParamsOK, ProofPCs, SettlementPCs
  <2>5. ASSUME NEW p \in Payers, Transfer(id, p)
        PROVE  Bargain!Move(i) \/ UNCHANGED Bargain!purchaseVars
    BY <1>2, <2>2, <2>3, <2>5, TransferMoves
  <2>6. CASE Refuse(id)
    BY <1>0, <2>2, <2>4, <2>6, RefusalIsSilent
  <2>7. CASE ~Refuse(id)
    <3>1. \E p \in Payers : Transfer(id, p)
      BY <1>7, <2>1, <2>3, <2>7 DEF SettleConfirmed, SettleRefused, SettleUnknown
    <3> QED BY <1>3, <2>2, <2>5, <3>1 DEF Bargain!Next
  <2> QED BY <2>6, <2>7
<1>8. CASE UNCHANGED <<txn, ledger>> /\ ~UNCHANGED effects
  <2>1. Dispatch(r)
    BY <1>1, <1>8 DEF BeginSome, Begin, Abort, Step, LoadForRetry, Load, Verify, SettleConfirmed,
       SettleRefused, SettleUnknown, Sign, PrepareRetry, SaveVerified, Finalize, Create,
       RecordChallenge, RecordVerification, RecordForwarding, RecordDelivery,
       RejectPayment, Review, Claim, FailBeforeDispatch, SaveOutcome, store, world
  <2>2. pc[r] # "idle"
    BY <2>1 DEF Dispatch
  <2> QED BY <1>0, <1>2, <1>3, <1>4, <2>1, <2>2, DispatchServes DEF Bargain!Next
<1> QED BY <1>5, <1>6, <1>7, <1>8

\* A clerk's step disputes a purchase, refunds it, or is none of Purchase.
LEMMA ClerkRefines ==
    ASSUME RemediationInv, RemediationNext, ~(Next /\ UNCHANGED remedies)
    PROVE  [Bargain!Next]_(Bargain!purchaseVars)
<1>1. PICK c \in Clerks :
        \/ \E i \in Intents, reason \in Reasons : BeginDispute(c, i, reason)
        \/ \E i \in Intents, reference \in References :
             \E n \in DOMAIN disputes[i] : SaveRefund(c, i, n, reference)
        \/ ClerkStep(c) \/ AbandonClerk(c)
  BY DEF RemediationNext
<1>2. TypeOK
  BY DEF RemediationInv, EvidenceInv, Inv
<1>3. CASE OpenTheDispute(c) \/ RecommendTheRefund(c)
  <2>1. UNCHANGED <<ledger, effects, refunds>>
    BY <1>3 DEF OpenTheDispute, RecommendTheRefund, world
  <2>2. CASE UNCHANGED vars
    BY <2>1, <2>2, OtherIsSilent DEF vars
  <2>3. CASE ~UNCHANGED vars
    <3>1. PICK i \in Intents :
            /\ txn[i] # NoTxn
            /\ Disputed(txn[i], txn'[i])
            /\ \A j \in Intents \ {i} : txn'[j] = txn[j]
      BY <2>3, ClerkWrites
    <3>2. PICK s, t : s = txn[i] /\ t = txn'[i]
      OBVIOUS
    <3>3. s \in Transactions /\ t \in Transactions /\ Disputed(s, t)
      BY <1>2, <3>1, <3>2 DEF TypeOK, Disputed
    <3>4. txn' = [txn EXCEPT ![i] = t]
      <4>1. PICK u : txn' = [txn EXCEPT ![clerk[c].intent] = u]
        BY <1>2, <1>3, <2>1, <2>3 DEF OpenTheDispute, RecommendTheRefund, DisputeUpdate, vars, world,
           handlers
      <4>2. txn' = [j \in Intents |-> txn'[j]] /\ txn = [j \in Intents |-> txn[j]]
        BY <1>2, <4>1 DEF TypeOK
      <4> QED BY <3>1, <3>2, <4>2
    <3>5. /\ t.paymentIdentifier = s.paymentIdentifier /\ t.paymentFinality = s.paymentFinality
          /\ DeliveryStage(t) = "disputed"
      BY <3>3, Stages DEF Disputed, InDispute
    <3>6. CASE InDispute(s)
      <4>1. DeliveryStage(s) = DeliveryStage(t)
        BY <3>3, <3>5, <3>6, Stages
      <4>2. PaymentOf[i] = t.paymentIdentifier /\ FinalityOf[i] = t.paymentFinality
        BY <3>1, <3>2, <3>5 DEF PaymentOf, FinalityOf
      <4> QED BY <1>2, <2>1, <3>2, <3>3, <3>4, <4>1, <4>2, SameStep
    <3>7. CASE ~InDispute(s)
      <4>1. DeliveryStage(s) \in {"delivered", "failed", "retryable"}
        BY <3>3, <3>7, Stages DEF Disputed, InDispute
      <4>2. Bargain!Dispute(i)
        BY <1>2, <2>1, <3>2, <3>3, <3>4, <3>5, <4>1, StageStep DEF Bargain!Dispute
      <4> QED BY <4>2 DEF Bargain!Next
    <3> QED BY <3>6, <3>7
  <2> QED BY <2>2, <2>3
<1>4. ASSUME NEW i \in Intents, NEW x \in References, NEW n \in DOMAIN disputes[i],
             SaveRefund(c, i, n, x)
      PROVE  Bargain!Refund(i)
  <2>1. PICK z : z = [intent |-> i, dispute |-> n, reference |-> x]
    OBVIOUS
  <2>2. /\ txn[i].paymentFinality = "finalized" /\ Slot(z) = {} /\ refunds' = refunds \cup {z}
        /\ UNCHANGED vars
    BY <1>4, <2>1 DEF SaveRefund
  <2>3. n = 1 /\ txn[i] # NoTxn /\ InDispute(txn[i])
    <3>1. disputes[i] \in Seq(DisputeRecords) /\ DisputesOK(i)
      BY DEF RemediationInv, RemediesType
    <3>2. PICK m \in Nat : m = Len(disputes[i])
      BY <3>1
    <3>3. n \in 1 .. m /\ m <= 1
      BY <3>1, <3>2 DEF DisputesOK
    <3>4. n = 1 /\ m = 1
      <4>1. ASSUME NEW k \in Nat, k <= 1, NEW j \in 1 .. k PROVE j = 1 /\ k = 1
        BY <4>1
      <4> QED BY <3>3, <4>1
    <3> QED BY <3>1, <3>2, <3>4 DEF DisputesOK
  <2>4. txn[i] \in Transactions
    BY <1>2, <2>3 DEF TypeOK
  <2>5. DeliveryOf[i] = "disputed" /\ FinalityOf[i] = "finalized"
    BY <2>2, <2>3, <2>4, Stages DEF DeliveryOf, FinalityOf
  <2>6. \A y \in refunds : y.intent # i
    <3> SUFFICES ASSUME NEW y \in refunds, y.intent = i PROVE FALSE
      OBVIOUS
    <3>1. y.dispute \in DOMAIN disputes[i]
      BY DEF RemediationInv, RefundsOK
    <3>2. y.dispute = 1
      <4>1. disputes[i] \in Seq(DisputeRecords) /\ DisputesOK(i)
        BY DEF RemediationInv, RemediesType
      <4>2. PICK m \in Nat : m = Len(disputes[i])
        BY <4>1
      <4>3. y.dispute \in 1 .. m /\ m <= 1
        BY <3>1, <4>1, <4>2 DEF DisputesOK
      <4> QED BY <4>2, <4>3
    <3>3. y \in Slot(z)
      BY <2>1, <2>3, <3>2 DEF Slot
    <3> QED BY <2>2, <3>3
  <2>7. RefundOf[i] = {}
    BY <2>6 DEF RefundOf
  <2>8. RefundOf' = [RefundOf EXCEPT ![i] = {x}]
    <3>1. ASSUME NEW j \in Intents
          PROVE  {w.reference : w \in {y \in refunds' : y.intent = j}}
                   = IF j = i THEN {x} ELSE {w.reference : w \in {y \in refunds : y.intent = j}}
      BY <2>1, <2>2, <2>6
    <3> QED BY <3>1 DEF RefundOf
  <2>9. /\ PaymentOf' = PaymentOf /\ FinalityOf' = FinalityOf /\ DeliveryOf' = DeliveryOf
        /\ Moved' = Moved /\ effects' = effects
    BY <2>2 DEF PaymentOf, FinalityOf, DeliveryOf, DeliveryStage, InDispute, CanRetryFulfillment,
       Moved, Settled, vars
  <2> QED BY <2>5, <2>7, <2>8, <2>9 DEF Bargain!Refund
<1>5. CASE \E i \in Intents, reference \in References :
             \E n \in DOMAIN disputes[i] : SaveRefund(c, i, n, reference)
  BY <1>4, <1>5 DEF Bargain!Next
<1>6. CASE \/ \E i \in Intents, reason \in Reasons : BeginDispute(c, i, reason)
           \/ RecordDispute(c) \/ AuditRefund(c) \/ AbandonClerk(c)
  <2>1. UNCHANGED <<vars, refunds>>
    BY <1>6 DEF BeginDispute, RecordDispute, AuditRefund, AbandonClerk
  <2> QED BY <2>1, OtherIsSilent DEF vars
<1> QED BY <1>1, <1>3, <1>5, <1>6 DEF ClerkStep

\* Checkout, disputes and refunds implement Purchase: for every number of
\* requests and clerks, and whatever copies are stale, replies lost and calls cut
\* off, a payment serves one purchase, moves only while it is pledged and is not
\* written off when it moved (unless the facilitator refuses what it moves); the
\* seller is engaged for payments on record, has one effect, and is tried again
\* only after a failure without one; a dispute closes the purchase but for one
\* refund.
THEOREM PurchaseImplemented == RemediationSpec => ImplementsPurchase
<1>1. RemediationInit => Bargain!Init
  <2> SUFFICES ASSUME RemediationInit PROVE Bargain!Init
    OBVIOUS
  <2>1. Moved = {}
    BY CheckoutAssumption DEF RemediationInit, Init, Moved, Settled
  <2>2. \A i \in Intents : txn[i] = NoTxn /\ DeliveryStage(txn[i]) = "waiting"
    BY DEF RemediationInit, Init, DeliveryStage
  <2>3. RefundOf = [i \in Intents |-> {}]
    BY DEF RemediationInit, RefundOf
  <2> QED
    BY <2>1, <2>2, <2>3 DEF RemediationInit, Init, Bargain!Init, PaymentOf, FinalityOf, DeliveryOf
<1>2. AdviceInv /\ [RemediationNext]_allVars => [Bargain!Next]_(Bargain!purchaseVars)
  <2>1. CASE UNCHANGED allVars
    BY <2>1, OtherIsSilent DEF allVars, vars, remedies
  <2>2. ASSUME AdviceInv, RemediationNext PROVE [Bargain!Next]_(Bargain!purchaseVars)
    <3>1. CASE Next /\ UNCHANGED remedies
      BY <2>2, <3>1, RequestRefines
    <3>2. CASE ~(Next /\ UNCHANGED remedies)
      BY <2>2, <3>2, ClerkRefines DEF AdviceInv
    <3> QED BY <3>1, <3>2
  <2> QED BY <2>1, <2>2
<1> QED
  BY <1>1, <1>2, AdviceInitOK, AdviceNextOK, PTL DEF RemediationSpec, ImplementsPurchase, Bargain!Spec

-----------------------------------------------------------------------------
\* The sales figures

\* A copy is of a stored record, never ahead of it, and tells the same of one version.
HeldOK(r) ==
    view[r] # NoTxn =>
        /\ pc[r] \in ViewPCs \cup {"recordDelivery"}
        /\ req[r].intent \in Intents
        /\ Txn(r) # NoTxn
        /\ view[r].version <= Txn(r).version
        /\ view[r].version = Txn(r).version => SameFacts(view[r], Txn(r))

\* Two copies of one version tell the same.
CopiesAgree ==
    \A q, r \in Requests :
        /\ view[q] # NoTxn
        /\ view[r] # NoTxn
        /\ req[q].intent = req[r].intent
        /\ view[q].version = view[r].version
        => SameFacts(view[q], view[r])

\* The invariant of the disputes, with what the copies tell, of finitely many
\* transactions.
SalesInv ==
    /\ RemediationInv
    /\ IsFiniteSet(Stored)
    /\ \A r \in Requests : HeldOK(r)
    /\ CopiesAgree

\* What a step makes of the copy of its request: nothing, what it was, or the
\* record that is stored now.
CopyMoves(r) ==
    \/ view'[r] = NoTxn
    \/ /\ req'[r].intent = req[r].intent
       /\ pc'[r] \in ViewPCs
       /\ view'[r] = view[r] \/ view'[r].version = txn'[req[r].intent].version
    \/ /\ req'[r].intent = req[r].intent /\ req[r].intent \in Intents
       /\ pc'[r] = "recordDelivery"
       /\ txn'[req[r].intent] # NoTxn
       /\ view'[r].version = txn'[req[r].intent].version
       /\ SameFacts(view'[r], txn'[req[r].intent])

\* A request drops its copy, keeps it, or takes the one that is stored.
LEMMA StepCopies ==
    ASSUME Inv, NEW r \in Requests, HeldOK(r), BeginSome(r) \/ Step(r) \/ Abort(r)
    PROVE  CopyMoves(r)
<1>0. TypeOK
  BY DEF Inv
<1>1. ASSUME Return(r) PROVE CopyMoves(r)
  <2>1. view'[r] = NoTxn
    BY <1>0, <1>1 DEF Return, TypeOK
  <2> QED BY <2>1 DEF CopyMoves
<1>2. ASSUME NEW next \in ViewPCs, Goto(r, next), UNCHANGED <<req, view>>
      PROVE  CopyMoves(r)
  <2>1. pc'[r] = next
    BY <1>0, <1>2 DEF Goto, TypeOK
  <2> QED BY <1>2, <2>1 DEF CopyMoves
<1>3. ASSUME NEW next \in ViewPCs, Goto(r, next), UNCHANGED req, req[r].intent \in Intents,
             NEW t, NEW u, view' = [view EXCEPT ![r] = t],
             txn' = [txn EXCEPT ![req[r].intent] = u], u.version = t.version
      PROVE  CopyMoves(r)
  <2>1. pc'[r] = next /\ view'[r] = t /\ txn'[req[r].intent] = u
    BY <1>0, <1>3 DEF Goto, TypeOK
  <2> QED BY <1>3, <2>1 DEF CopyMoves
<1>4. CASE BeginSome(r)
  <2>1. pc[r] = "idle" /\ view' = view
    BY <1>4 DEF BeginSome, Begin
  <2>2. view[r] = NoTxn
    BY <2>1 DEF HeldOK, ViewPCs, OwnerPCs, ProofPCs, SettlementPCs
  <2> QED BY <2>1, <2>2 DEF CopyMoves
<1>5. CASE Abort(r) \/ FailBeforeDispatch(r) \/ RecordDelivery(r) \/ RejectPayment(r) \/ Review(r)
           \/ SettleUnknown(r)
  BY <1>1, <1>5 DEF Abort, FailBeforeDispatch, RecordDelivery, RejectPayment, Review,
     SettleUnknown, UpdateAndReturn
<1>6. CASE LoadForRetry(r) \/ Load(r)
  <2>1. req[r].intent \in Intents
    BY <1>6 DEF LoadForRetry, Load, Inv, RequestOK, ParamsOK
  <2>2. CASE Return(r)
    BY <1>1, <2>2
  <2>3. CASE ~Return(r)
    <3>1. /\ view' = [view EXCEPT ![r] = txn[req[r].intent]] /\ UNCHANGED <<txn, req>>
          /\ \/ txn[req[r].intent] = NoTxn
             \/ Goto(r, "prepareRetry")
             \/ Goto(r, "recordChallenge")
      BY <1>6, <2>3 DEF LoadForRetry, Load, store
    <3>2. view'[r] = txn[req[r].intent] /\ txn'[req[r].intent] = txn[req[r].intent]
      BY <1>0, <3>1 DEF TypeOK
    <3>3. view'[r] = NoTxn \/ pc'[r] \in ViewPCs
      BY <1>0, <3>1, <3>2 DEF Goto, TypeOK, ViewPCs
    <3> QED BY <3>1, <3>2, <3>3 DEF CopyMoves
  <2> QED BY <2>2, <2>3
<1>7. CASE Create(r)
  <2>1. PICK t : t = FirstTransaction(req[r].intent)
    OBVIOUS
  <2>2. /\ req[r].intent \in Intents
        /\ view[r] = NoTxn
    BY <1>7 DEF Create, Inv, RequestOK, ParamsOK, HeldOK, ViewPCs, OwnerPCs, ProofPCs, SettlementPCs
  <2>3. CASE txn[req[r].intent] = NoTxn
    BY <1>3, <1>7, <2>1, <2>2, <2>3 DEF Create, ViewPCs
  <2>4. CASE txn[req[r].intent] # NoTxn
    BY <1>7, <2>2, <2>4 DEF Create, CopyMoves
  <2> QED BY <2>3, <2>4
<1>8. CASE RecordChallenge(r)
  BY <1>1, <1>2, <1>8 DEF RecordChallenge, AfterChallenge, ViewPCs, ProofPCs, SettlementPCs
<1>9. CASE RecordVerification(r) \/ SettleConfirmed(r) \/ SettleRefused(r) \/ Verify(r)
  BY <1>1, <1>2, <1>9 DEF RecordVerification, SettleConfirmed, SettleRefused, Verify, ViewPCs,
     ProofPCs, SettlementPCs
<1>10. CASE RecordForwarding(r) \/ Sign(r)
  BY <1>2, <1>10 DEF RecordForwarding, Sign, GiveUp, ViewPCs, OwnerPCs
<1>11. CASE Dispatch(r)
  BY <1>2, <1>11 DEF Dispatch, ViewPCs, OwnerPCs
<1>v. ASSUME pc[r] \in ViewPCs, VersionMatches(r)
      PROVE  /\ RequestOK(r) /\ req[r].intent \in Intents /\ view[r] \in Transactions
             /\ view[r] = txn[req[r].intent] /\ StoredOK(req[r].intent, view[r])
  BY <1>v, UpdateContext
<1>12. ASSUME NEW can, NEW t, NEW after \in ViewPCs, Update(r, can, t, after), pc[r] \in ViewPCs,
              VersionMatches(r) /\ can => t \in Transactions
       PROVE  CopyMoves(r)
  <2>1. CASE can /\ VersionMatches(r)
    <3>1. Restore(t).version = t.version
      BY <1>12, <2>1, RestoreFields
    <3>2. /\ Goto(r, after) /\ UNCHANGED req /\ view' = [view EXCEPT ![r] = t]
          /\ txn' = [txn EXCEPT ![req[r].intent] = Restore(t)]
      BY <1>12, <2>1 DEF Update
    <3> QED BY <1>3, <1>12, <1>v, <2>1, <3>1, <3>2
  <2>2. CASE ~(can /\ VersionMatches(r))
    BY <1>1, <1>12, <2>2 DEF Update
  <2> QED BY <2>1, <2>2
<1>13. CASE PrepareRetry(r)
  <2>1. pc[r] \in ViewPCs /\ "claim" \in ViewPCs
    BY <1>13 DEF PrepareRetry, ViewPCs
  <2>2. VersionMatches(r) => PrepareFulfillmentRetry(view[r], req[r].body) \in Transactions
    BY <1>13, <1>v, <2>1, PrepareRetryType DEF PrepareRetry, RequestOK, ParamsOK
  <2> QED BY <1>12, <1>13, <2>1, <2>2 DEF PrepareRetry
<1>14. CASE Finalize(r)
  <2>1. pc[r] \in ViewPCs /\ "claim" \in ViewPCs
    BY <1>14 DEF Finalize, ViewPCs, ProofPCs, SettlementPCs
  <2>2. VersionMatches(r) => FinalizePayment(view[r]) \in Transactions
    BY <1>v, <2>1, FinalizePaymentType
  <2> QED BY <1>12, <1>14, <2>1, <2>2 DEF Finalize
<1>15. CASE SaveVerified(r)
  <2>1. PICK t : t = VerifyPayment(view[r], PaymentIdOf[req[r].proof], req[r].proof)
    OBVIOUS
  <2>2. pc[r] \in ViewPCs /\ "recordVerification" \in ViewPCs
    BY <1>15 DEF SaveVerified, ViewPCs, ProofPCs, SettlementPCs
  <2>3. CASE CanVerifyPayment(view[r]) /\ VersionMatches(r)
               /\ claims[PaymentIdOf[req[r].proof]] = None
    BY <1>3, <1>15, <1>v, <2>1, <2>2, <2>3 DEF SaveVerified
  <2>4. CASE ~(CanVerifyPayment(view[r]) /\ VersionMatches(r)
                 /\ claims[PaymentIdOf[req[r].proof]] = None)
    BY <1>1, <1>15, <2>4 DEF SaveVerified
  <2> QED BY <2>3, <2>4
<1>16. CASE Claim(r)
  <2>1. PICK t : t = MarkForwarded(txn[req[r].intent])
    OBVIOUS
  <2>2. pc[r] \in ViewPCs /\ "recordForwarding" \in ViewPCs
    BY <1>16 DEF Claim, ViewPCs, OwnerPCs
  <2>3. CASE BodyAllowed(r) /\ VersionMatches(r) /\ CanMarkForwarded(txn[req[r].intent])
    BY <1>3, <1>16, <1>v, <2>1, <2>2, <2>3 DEF Claim
  <2>4. CASE ~(BodyAllowed(r) /\ VersionMatches(r) /\ CanMarkForwarded(txn[req[r].intent]))
    BY <1>1, <1>16, <2>4 DEF Claim
  <2> QED BY <2>3, <2>4
<1>17. CASE SaveOutcome(r)
  <2>1. PICK t, can : /\ t = Outcome(view[r], result[r])
                      /\ can = (CanMarkFulfilled(view[r]) /\ CanMarkFailed(view[r]))
    OBVIOUS
  <2>2. pc[r] \in ViewPCs
    BY <1>17 DEF SaveOutcome, ViewPCs, OwnerPCs
  <2>3. CASE Return(r)
    BY <1>1, <2>3
  <2>4. CASE ~Return(r)
    <3>1. /\ VersionMatches(r) /\ Goto(r, "recordDelivery") /\ UNCHANGED req
          /\ view' = [view EXCEPT ![r] = t]
          /\ txn' = [txn EXCEPT ![req[r].intent] = Restore(t)]
      BY <1>17, <2>1, <2>4 DEF SaveOutcome, Update
    <3>2. t \in Transactions /\ req[r].intent \in Intents
      BY <1>0, <1>v, <2>1, <2>2, <3>1, MarkFailedType, MarkFulfilledType
      DEF Outcome, Results, TypeOK, StoredOK, RequestOK, OwnerOK, OwnerPCs
    <3>3. /\ pc'[r] = "recordDelivery" /\ view'[r] = t /\ txn'[req[r].intent] = Restore(t)
      BY <1>0, <3>1, <3>2 DEF Goto, TypeOK
    <3>4. /\ Restore(t) \in Transactions /\ Restore(t).version = t.version
          /\ SameFacts(t, Restore(t))
      BY <3>2 DEF Restore, Transactions, SameFacts
    <3> QED BY <3>1, <3>2, <3>3, <3>4, CheckoutAssumption DEF CopyMoves
  <2> QED BY <2>3, <2>4
<1> QED
  BY <1>4, <1>5, <1>6, <1>7, <1>8, <1>9, <1>10, <1>11, <1>13, <1>14, <1>15, <1>16, <1>17 DEF Step

\* A request writes no transaction but its own.
LEMMA OneWrite ==
    ASSUME TypeOK, NEW r \in Requests, BeginSome(r) \/ Step(r) \/ Abort(r),
           NEW i \in Intents, i # req[r].intent
    PROVE  txn'[i] = txn[i]
<1>1. ASSUME NEW t, txn' = [txn EXCEPT ![req[r].intent] = t] PROVE txn'[i] = txn[i]
  BY <1>1 DEF TypeOK
<1>2. ASSUME NEW can, NEW t, NEW after, Update(r, can, t, after) PROVE txn'[i] = txn[i]
  BY <1>1, <1>2 DEF Update
<1>3. ASSUME NEW can, NEW t, UpdateAndReturn(r, can, t) PROVE txn'[i] = txn[i]
  BY <1>1, <1>3 DEF UpdateAndReturn
<1>4. CASE PrepareRetry(r) \/ Finalize(r) \/ SaveOutcome(r)
  BY <1>2, <1>4 DEF PrepareRetry, Finalize, SaveOutcome
<1>5. CASE RejectPayment(r) \/ Review(r) \/ FailBeforeDispatch(r)
  BY <1>3, <1>5 DEF RejectPayment, Review, FailBeforeDispatch
<1>6. CASE Create(r) \/ SaveVerified(r) \/ Claim(r)
  BY <1>1, <1>6 DEF Create, SaveVerified, Claim
<1>7. CASE UNCHANGED txn
  BY <1>7
<1> QED
  BY <1>4, <1>5, <1>6, <1>7
  DEF BeginSome, Begin, Abort, Step, LoadForRetry, Load, RecordChallenge, Verify,
      RecordVerification, SettleConfirmed, SettleRefused, SettleUnknown, RecordForwarding, Sign,
      Dispatch, RecordDelivery, store

\* A copy that stays is of the same version as the store or of an older one.
LEMMA CopyKept ==
    ASSUME TypeOK, TypeOK', StoreAdvances, NEW q \in Requests, HeldOK(q),
           pc'[q] = pc[q], req'[q] = req[q], view'[q] = view[q]
    PROVE  HeldOK(q)'
<1> SUFFICES ASSUME view[q] # NoTxn PROVE HeldOK(q)'
  BY DEF HeldOK
<1>1. PICK i \in Intents : i = req[q].intent
  BY DEF HeldOK
<1>2. /\ txn[i] # NoTxn /\ txn'[i] # NoTxn
      /\ txn'[i] = txn[i] \/ txn'[i].version > txn[i].version
      /\ view[q].version <= txn[i].version
      /\ view[q].version = txn[i].version => SameFacts(view[q], txn[i])
      /\ pc[q] \in ViewPCs \cup {"recordDelivery"}
  BY <1>1 DEF HeldOK, Txn, StoreAdvances
<1>3. view[q].version \in Nat /\ txn[i].version \in Nat /\ txn'[i].version \in Nat
  BY <1>2 DEF TypeOK, Transactions
<1>4. /\ view[q].version <= txn'[i].version
      /\ view[q].version = txn'[i].version => SameFacts(view[q], txn'[i])
  BY <1>2, <1>3
<1> QED BY <1>1, <1>2, <1>4 DEF HeldOK, Txn, SameFacts

\* The copies tell the same as long as one request steps.
LEMMA CopiesKept ==
    ASSUME SalesInv, Inv', NEW r \in Requests, BeginSome(r) \/ Step(r) \/ Abort(r), StoreAdvances
    PROVE  (\A q \in Requests : HeldOK(q)') /\ CopiesAgree'
<1>1. /\ Inv /\ TypeOK /\ TypeOK' /\ HeldOK(r) /\ OthersUntouched(r) /\ CopyMoves(r)
      /\ \A q \in Requests : HeldOK(q)
  BY StepCopies, StepUntouched DEF SalesInv, RemediationInv, EvidenceInv, Inv
<1>2. \A q \in Requests \ {r} : HeldOK(q)'
  BY <1>1, CopyKept DEF OthersUntouched
<1>3. HeldOK(r)'
  <2>1. CASE pc'[r] \in ViewPCs
    <3>1. Fresh(r)' /\ req'[r].intent \in Intents
      BY <2>1 DEF Inv, RequestOK, ParamsOK, ViewPCs, OwnerPCs, ProofPCs, SettlementPCs
    <3> QED BY <2>1, <3>1 DEF HeldOK, Fresh, SameFacts, Txn
  <2>2. CASE view'[r] = NoTxn
    BY <2>2 DEF HeldOK
  <2>3. CASE pc'[r] \notin ViewPCs /\ view'[r] # NoTxn
    <3>1. /\ req'[r].intent = req[r].intent /\ req[r].intent \in Intents
          /\ pc'[r] = "recordDelivery"
          /\ txn'[req[r].intent] # NoTxn
          /\ view'[r].version = txn'[req[r].intent].version
          /\ SameFacts(view'[r], txn'[req[r].intent])
      BY <1>1, <2>3 DEF CopyMoves
    <3>2. view'[r].version \in Nat
      BY <1>1, <2>3 DEF TypeOK, Transactions
    <3> QED BY <3>1, <3>2 DEF HeldOK, SameFacts, Txn
  <2> QED BY <2>1, <2>2, <2>3
<1>4. ASSUME NEW q \in Requests \ {r}, view'[q] # NoTxn, view'[r] # NoTxn,
             req'[q].intent = req'[r].intent, view'[q].version = view'[r].version
      PROVE  SameFacts(view'[q], view'[r])
  <2>1. PICK i \in Intents : i = req'[q].intent /\ i = req'[r].intent
    BY <1>2, <1>4 DEF HeldOK
  <2>2. CASE view'[r] = view[r] /\ req'[r].intent = req[r].intent
    BY <1>1, <1>4, <2>2 DEF OthersUntouched, SalesInv, CopiesAgree
  <2>3. CASE view'[r].version = txn'[i].version
    BY <1>2, <1>3, <1>4, <2>1, <2>3 DEF HeldOK, SameFacts, Txn
  <2> QED BY <1>1, <1>4, <2>1, <2>2, <2>3 DEF CopyMoves
<1>5. CopiesAgree'
  <2> SUFFICES ASSUME NEW p \in Requests, NEW q \in Requests, view'[p] # NoTxn, view'[q] # NoTxn,
                      req'[p].intent = req'[q].intent, view'[p].version = view'[q].version
               PROVE  SameFacts(view'[p], view'[q])
    BY DEF CopiesAgree, SameFacts
  <2>1. CASE p # r /\ q # r
    BY <1>1, <2>1 DEF OthersUntouched, SalesInv, CopiesAgree
  <2>2. CASE p # r /\ q = r
    BY <1>4, <2>2
  <2>3. CASE p = r /\ q # r
    BY <1>4, <2>3 DEF SameFacts
  <2> QED BY <2>1, <2>2, <2>3 DEF SameFacts
<1> QED BY <1>2, <1>3, <1>5

\* Every step of a request and of a clerk keeps what the copies tell.
LEMMA SalesNextOK == SalesInv /\ [RemediationNext]_allVars => SalesInv'
<1> SUFFICES ASSUME SalesInv, [RemediationNext]_allVars PROVE SalesInv'
  OBVIOUS
<1>1. RemediationInv /\ RemediationInv' /\ TypeOK /\ TypeOK' /\ Inv /\ Inv'
  BY RemediationNextOK DEF SalesInv, RemediationInv, EvidenceInv, Inv
<1>2. CASE Next /\ UNCHANGED remedies
  <2>1. PICK r \in Requests : BeginSome(r) \/ Step(r) \/ Abort(r)
    BY <1>2 DEF Next
  <2>2. StoreAdvances
    BY <1>1, <1>2, RequestsMove DEF StoreMoves
  <2>3. (\A q \in Requests : HeldOK(q)') /\ CopiesAgree'
    BY <1>1, <2>1, <2>2, CopiesKept
  <2>4. IsFiniteSet(Stored)'
    <3>1. Stored' \in SUBSET (Stored \cup {req[r].intent})
      BY <1>1, <2>1, OneWrite DEF Stored
    <3>2. IsFiniteSet(Stored \cup {req[r].intent})
      BY FS_AddElement DEF SalesInv
    <3>3. IsFiniteSet(Stored')
      BY <3>1, <3>2, FS_Subset
    <3> QED BY <3>3
  <2> QED BY <1>1, <2>3, <2>4 DEF SalesInv
<1>3. CASE ~(Next /\ UNCHANGED remedies)
  <2>1. UNCHANGED handlers /\ StoreAdvances /\ Stored' \subseteq Stored
    <3>1. CASE UNCHANGED allVars
      BY <3>1 DEF allVars, vars, handlers, StoreAdvances, Stored
    <3>2. CASE RemediationNext
      <4>1. UNCHANGED handlers
        BY <1>3, <3>2 DEF RemediationNext, BeginDispute, SaveRefund, ClerkStep, OpenTheDispute,
           RecordDispute, RecommendTheRefund, AuditRefund, AbandonClerk, vars, handlers
      <4>2. CASE UNCHANGED vars
        BY <4>1, <4>2 DEF vars, StoreAdvances, Stored
      <4>3. ASSUME NEW i \in Intents, txn[i] # NoTxn, Disputed(txn[i], txn'[i]),
                   \A j \in Intents \ {i} : txn'[j] = txn[j]
            PROVE  StoreAdvances /\ Stored' \subseteq Stored
        <5>1. txn[i].version \in Nat
          BY <1>1, <4>3 DEF TypeOK, Transactions
        <5>2. txn'[i] # NoTxn /\ txn'[i].version > txn[i].version
          BY <4>3, <5>1, CheckoutAssumption DEF Disputed
        <5> QED BY <4>3, <5>2 DEF StoreAdvances, Stored
      <4> QED BY <1>1, <1>3, <3>2, <4>1, <4>2, <4>3, ClerkWrites
    <3> QED BY <3>1, <3>2
  <2>2. \A q \in Requests : HeldOK(q)'
    BY <1>1, <2>1, CopyKept DEF SalesInv, handlers
  <2>3. CopiesAgree'
    BY <2>1 DEF SalesInv, CopiesAgree, SameFacts, handlers
  <2>4. IsFiniteSet(Stored')
    BY <2>1, FS_Subset DEF SalesInv
  <2> QED BY <1>1, <2>2, <2>3, <2>4 DEF SalesInv
<1> QED BY <1>2, <1>3

\* Nothing is stored and nobody holds a copy.
LEMMA SalesInitOK == RemediationInit => SalesInv
<1> SUFFICES ASSUME RemediationInit PROVE SalesInv
  OBVIOUS
<1>1. RemediationInv
  BY RemediationInitOK
<1>2. /\ \A i \in Intents : txn[i] = NoTxn
      /\ \A r \in Requests : view[r] = NoTxn
  BY DEF RemediationInit, Init
<1>3. Stored = {}
  BY <1>2 DEF Stored
<1> QED BY <1>1, <1>2, <1>3, FS_EmptySet DEF SalesInv, HeldOK, CopiesAgree

-----------------------------------------------------------------------------
\* From copies to figures

\* The row of a stored transaction.
RowOf(i) == <<i, Reconciliation(txn[i])>>
Rows == {RowOf(i) : i \in Stored}

\* The bucket of a record is decided by what its copies agree on.
LEMMA SameStage ==
    ASSUME NEW s, NEW t, SameFacts(s, t)
    PROVE  Reconciliation(s) = Reconciliation(t)
BY DEF SameFacts, Reconciliation

\* A stored record is in one of the buckets, and is not abandoned before it expires.
LEMMA StageOf ==
    ASSUME SalesInv, NEW i \in Stored
    PROVE  /\ txn[i] \in Transactions /\ i \in Intents /\ StoredOK(i, txn[i])
           /\ Reconciliation(txn[i]) \in ReconciliationStages \ {""}
           /\ txn[i].paymentIdentifier # None =>
                Reconciliation(txn[i]) \in {"verified", "finalized", "fulfilled", "failed", "disputed"}
           /\ Reconciliation(txn[i]) \in {"finalized", "fulfilled"} =>
                txn[i].paymentFinality = "finalized"
<1>1. txn[i] \in Transactions /\ i \in Intents /\ StoredOK(i, txn[i])
  BY DEF SalesInv, RemediationInv, EvidenceInv, Inv, RecordOK, TypeOK, Stored
<1>2. PICK t : t = txn[i]
  OBVIOUS
<1>3. /\ t.status = "PAYMENT_REQUIRED" => Reconciliation(t) = "challenged"
      /\ t.status \in {"PAYMENT_VERIFIED", "FORWARDED"} =>
           Reconciliation(t) = IF t.paymentFinality = "finalized" THEN "finalized" ELSE "verified"
      /\ t.status = "FULFILLED" => Reconciliation(t) = "fulfilled"
      /\ t.status = "FAILED" => Reconciliation(t) = "failed"
      /\ t.status \in {"DISPUTED", "REFUND_RECOMMENDED"} => Reconciliation(t) = "disputed"
  BY DEF Reconciliation
<1>4. /\ t.status \in {"PAYMENT_REQUIRED", "PAYMENT_VERIFIED", "FORWARDED", "FULFILLED", "FAILED",
                       "DISPUTED", "REFUND_RECOMMENDED"}
      /\ t.status = "PAYMENT_REQUIRED" => t.paymentIdentifier = None
      /\ t.status = "FULFILLED" => t.paymentFinality = "finalized"
  BY <1>1, <1>2 DEF StoredOK
<1> QED BY <1>1, <1>2, <1>3, <1>4 DEF ReconciliationStages

\* No unexpired checkout is abandoned.
LEMMA NotAbandoned ==
    ASSUME SalesInv, NEW i \in Stored
    PROVE  PublicStage(txn[i], FALSE) = Reconciliation(txn[i])
<1>1. PICK t : t = txn[i]
  OBVIOUS
<1>2. ~Abandoned(t, FALSE)
  BY DEF Abandoned
<1>3. CommerceLifecycleAt(t, FALSE, FALSE).commerce = CommerceView(t)
  BY <1>2 DEF CommerceLifecycleAt
<1>4. CommerceView(t) # "abandoned"
  <2>1. t.paymentFinality \in {"none", "confirmed", "finalized", "failed"}
    BY <1>1, StageOf DEF Transactions, Finalities
  <2>2. PaymentView(t).commerce # "abandoned"
    BY <2>1 DEF PaymentView
  <2>3. t.status \in {"PAYMENT_REQUIRED", "PAYMENT_VERIFIED", "FORWARDED", "FULFILLED", "FAILED",
                       "DISPUTED", "REFUND_RECOMMENDED"}
    BY <1>1, StageOf DEF StoredOK
  <2> QED BY <2>2, <2>3 DEF CommerceView
<1>5. SellerOutcomeAt(t, FALSE) # "abandoned"
  BY <1>3, <1>4 DEF SellerOutcomeAt
<1> QED BY <1>1, <1>5 DEF PublicStage

\* Every snapshot is of a stored transaction, not newer than it, and tells the same of one version.
LEMMA SnapshotOK ==
    ASSUME SalesInv, NEW s \in Snapshots
    PROVE  /\ s = <<s[1], s[2]>> /\ s[1] \in Stored
           /\ s[2] \in Transactions
           /\ s[2].version <= txn[s[1]].version
           /\ s[2].version = txn[s[1]].version => SameFacts(s[2], txn[s[1]])
<1>1. CASE \E i \in Stored : s = <<i, txn[i]>>
  <2>1. PICK i \in Stored : s = <<i, txn[i]>>
    BY <1>1
  <2>2. txn[i] \in Transactions /\ txn[i].version \in Nat
    BY StageOf DEF Transactions
  <2> QED BY <2>1, <2>2 DEF SameFacts
<1>2. CASE \E r \in Requests : view[r] # NoTxn /\ s = <<req[r].intent, view[r]>>
  <2>1. PICK r \in Requests : view[r] # NoTxn /\ s = <<req[r].intent, view[r]>>
    BY <1>2
  <2>2. view[r] \in Transactions
    BY <2>1 DEF SalesInv, RemediationInv, EvidenceInv, Inv, TypeOK
  <2> QED BY <2>1, <2>2 DEF SalesInv, HeldOK, Txn, Stored
<1> QED BY <1>1, <1>2 DEF Snapshots

\* Snapshots of one version tell the same.
LEMMA SnapshotsAgree == SalesInv => ~ProjectionConflict(Snapshots)
<1> SUFFICES ASSUME SalesInv, NEW s \in Snapshots, NEW t \in Snapshots,
                    s[1] = t[1], s[2].version = t[2].version
             PROVE  SameFacts(s[2], t[2])
  BY DEF ProjectionConflict
<1>1. CASE \E i \in Stored : s = <<i, txn[i]>>
  BY <1>1, SnapshotOK DEF SameFacts
<1>2. CASE \E i \in Stored : t = <<i, txn[i]>>
  BY <1>2, SnapshotOK
<1>3. CASE /\ \E q \in Requests : view[q] # NoTxn /\ s = <<req[q].intent, view[q]>>
           /\ \E r \in Requests : view[r] # NoTxn /\ t = <<req[r].intent, view[r]>>
  BY <1>3 DEF SalesInv, CopiesAgree
<1> QED BY <1>1, <1>2, <1>3 DEF Snapshots

\* So the newest snapshots are the stored transactions, as far as is counted.
LEMMA NewestRows ==
    ASSUME SalesInv
    PROVE  {<<s[1], Reconciliation(s[2])>> : s \in newestTransactions(Snapshots)} = Rows
<1>1. ASSUME NEW s \in newestTransactions(Snapshots)
      PROVE  s[1] \in Stored /\ <<s[1], Reconciliation(s[2])>> = RowOf(s[1])
  <2>1. s \in Snapshots /\ s[1] \in Stored
    BY SnapshotOK DEF newestTransactions
  <2>2. PICK t : t = <<s[1], txn[s[1]]>>
    OBVIOUS
  <2>3. t \in Snapshots /\ t[1] = s[1] /\ t[2] = txn[s[1]]
    BY <2>1, <2>2 DEF Snapshots
  <2>4. txn[s[1]].version <= s[2].version /\ s[2].version <= txn[s[1]].version
    BY <2>1, <2>3, SnapshotOK DEF newestTransactions
  <2>5. txn[s[1]].version \in Nat
    BY <2>1, StageOf DEF Transactions
  <2>6. SameFacts(s[2], txn[s[1]])
    <3>1. s[2].version \in Nat
      BY <2>1, SnapshotOK DEF Transactions
    <3> QED BY <2>1, <2>4, <2>5, <3>1, SnapshotOK
  <2> QED BY <2>1, <2>6, SameStage DEF RowOf
<1>2. ASSUME NEW i \in Stored
      PROVE  \E s \in newestTransactions(Snapshots) : <<s[1], Reconciliation(s[2])>> = RowOf(i)
  <2>1. PICK s : s = <<i, txn[i]>>
    OBVIOUS
  <2>2. s \in Snapshots /\ s[1] = i /\ s[2] = txn[i]
    BY <2>1 DEF Snapshots
  <2>3. s \in newestTransactions(Snapshots)
    BY <2>2, SnapshotOK DEF newestTransactions
  <2> QED BY <2>2, <2>3 DEF RowOf
<1> QED BY <1>1, <1>2 DEF Rows

\* No stored transaction is left out of the summary, and none is counted apart.
LEMMA SummaryIsRows == SalesInv => {row \in SummaryRows(FALSE) : row[2] # ""} = Rows
<1> SUFFICES ASSUME SalesInv PROVE {row \in SummaryRows(FALSE) : row[2] # ""} = Rows
  OBVIOUS
<1>1. \A i \in Stored : PublicStage(txn[i], FALSE) = Reconciliation(txn[i])
  BY NotAbandoned
<1>2. SummaryRows(FALSE) = {<<i, PublicStage(txn[i], FALSE)>> : i \in Stored}
  BY DEF SummaryRows, Stored
<1>3. {<<i, PublicStage(txn[i], FALSE)>> : i \in Stored} = Rows
  BY <1>1 DEF Rows, RowOf
<1>4. ASSUME NEW row \in Rows PROVE row[2] # ""
  <2>1. PICK i \in Stored : row = <<i, Reconciliation(txn[i])>>
    BY DEF Rows, RowOf
  <2> QED BY <2>1, StageOf
<1> QED BY <1>2, <1>3, <1>4

\* The rows of one bucket.
RowsIn(stage) == {row \in Rows : row[2] = stage}

\* A total of the figures is the number of the rows in the bucket.
LEMMA TotalOf ==
    ASSUME SalesInv, NEW stage \in ReconciliationStages \ {""}
    PROVE  AggregateSeller(Snapshots)[<<"all", stage>>] = Cardinality(RowsIn(stage))
<1>1. AggregateSeller(Snapshots) = Aggregates(Rows)
  BY NewestRows DEF AggregateSeller
<1>2. Aggregates(Rows)[<<"all", stage>>] =
        Cardinality({row \in Rows : row[2] = stage /\ "all" \in {"all", row[1]}})
  BY DEF Aggregates
<1>3. {row \in Rows : row[2] = stage /\ "all" \in {"all", row[1]}} = RowsIn(stage)
  BY DEF RowsIn
<1> QED BY <1>1, <1>2, <1>3

\* There are finitely many rows, in any bucket.
LEMMA RowsFinite ==
    ASSUME SalesInv
    PROVE  IsFiniteSet(Rows) /\ \A stage : IsFiniteSet(RowsIn(stage))
<1> DEFINE f == [i \in Stored |-> RowOf(i)]
<1>1. f \in Surjection(Stored, Rows)
  BY DEF Surjection, Rows
<1>2. IsFiniteSet(Rows)
  BY <1>1, FS_Surjection DEF SalesInv
<1>3. \A stage : RowsIn(stage) \subseteq Rows
  BY DEF RowsIn
<1> QED BY <1>2, <1>3, FS_Subset

\* The number of the rows in two buckets is the sum.
LEMMA TwoBuckets ==
    ASSUME NEW S, NEW T, IsFiniteSet(S), IsFiniteSet(T), S \cap T = {}
    PROVE  /\ IsFiniteSet(S \cup T)
           /\ Cardinality(S \cup T) = Cardinality(S) + Cardinality(T)
           /\ Cardinality(S) \in Nat /\ Cardinality(T) \in Nat
<1>1. Cardinality(S \cap T) = 0
  BY FS_EmptySet
<1>2. /\ IsFiniteSet(S \cup T)
      /\ Cardinality(S \cup T) = Cardinality(S) + Cardinality(T) - Cardinality(S \cap T)
  BY FS_Union
<1>3. Cardinality(S) \in Nat /\ Cardinality(T) \in Nat
  BY FS_CardinalityType
<1> QED BY <1>1, <1>2, <1>3


\* A row is the row of its intent, which is stored.
LEMMA RowOK ==
    ASSUME SalesInv, NEW row \in Rows
    PROVE  row = RowOf(row[1]) /\ row[1] \in Stored /\ row[2] = Reconciliation(txn[row[1]])
BY DEF Rows, RowOf

\* The buckets a paid purchase may be in.
PaidRows ==
    RowsIn("verified") \cup RowsIn("finalized") \cup RowsIn("fulfilled") \cup RowsIn("failed")
        \cup RowsIn("disputed")

\* A settled payment bought a purchase that is in one of the buckets of a
\* paid one, and two payments bought two.
LEMMA PaymentsHaveRows ==
    ASSUME SalesInv
    PROVE  [id \in Moved |-> RowOf(claims[id])] \in Injection(Moved, PaidRows)
<1>1. ASSUME NEW id \in Moved
      PROVE  claims[id] \in Stored /\ txn[claims[id]].paymentIdentifier = id /\ id # None
             /\ RowOf(claims[id]) \in PaidRows
  <2>1. /\ PaymentOK(id) /\ Settled(id) /\ claims[id] \in Intents \cup {None}
        /\ id # None
    BY NoneAssumption DEF Moved, SalesInv, RemediationInv, EvidenceInv, Inv, TypeOK
  <2>2. claims[id] \in Stored /\ txn[claims[id]].paymentIdentifier = id
    BY <2>1 DEF PaymentOK, Stored
  <2>3. Reconciliation(txn[claims[id]]) \in {"verified", "finalized", "fulfilled", "failed", "disputed"}
    BY <2>1, <2>2, StageOf
  <2> QED BY <2>1, <2>2, <2>3 DEF PaidRows, RowsIn, Rows, RowOf
<1>2. ASSUME NEW a \in Moved, NEW b \in Moved, RowOf(claims[a]) = RowOf(claims[b])
      PROVE  a = b
  BY <1>1, <1>2 DEF RowOf
<1> QED BY <1>1, <1>2 DEF Injection, IsInjective

\* A sale reported as finalized or fulfilled was paid for, and two sales were
\* paid for by two payments.
LEMMA SalesHavePayments ==
    ASSUME SalesInv, NEW S, S = RowsIn("finalized") \cup RowsIn("fulfilled")
    PROVE  [row \in S |-> txn[row[1]].paymentIdentifier] \in Injection(S, Moved)
<1>1. ASSUME NEW row \in S
      PROVE  /\ row = RowOf(row[1])
             /\ txn[row[1]].paymentIdentifier \in Moved
             /\ claims[txn[row[1]].paymentIdentifier] = row[1]
  <2>1. row \in Rows /\ row[2] \in {"finalized", "fulfilled"}
    BY DEF RowsIn
  <2>2. row = RowOf(row[1]) /\ row[1] \in Stored /\ row[2] = Reconciliation(txn[row[1]])
    BY <2>1, RowOK
  <2>3. txn[row[1]].paymentFinality = "finalized" /\ StoredOK(row[1], txn[row[1]])
    BY <2>1, <2>2, StageOf
  <2>4. txn[row[1]].paymentIdentifier \in Moved
    BY <2>3 DEF StoredOK, Moved
  <2>5. txn[row[1]].paymentIdentifier # None
    BY <2>4, NoneAssumption DEF Moved
  <2> QED BY <2>2, <2>3, <2>4, <2>5 DEF StoredOK, ClaimedOK
<1>2. ASSUME NEW a \in S, NEW b \in S, txn[a[1]].paymentIdentifier = txn[b[1]].paymentIdentifier
      PROVE  a = b
  BY <1>1, <1>2
<1> QED BY <1>1, <1>2 DEF Injection, IsInjective

\* The figures of a state.
LEMMA FiguresOK == SalesInv => SalesMatchLedger
<1> SUFFICES ASSUME SalesInv PROVE SalesMatchLedger
  OBVIOUS
<1> DEFINE N(stage) == Cardinality(RowsIn(stage))
<1>1. AggregateSeller(Snapshots) = AggregateResponses(SummaryRows(FALSE))
  BY NewestRows, SummaryIsRows DEF AggregateSeller, AggregateResponses
<1>2. \A stage \in ReconciliationStages \ {""} : AggregateSeller(Snapshots)[<<"all", stage>>] = N(stage)
  BY TotalOf
<1>3. \A stage : IsFiniteSet(RowsIn(stage)) /\ N(stage) \in Nat
  BY RowsFinite, FS_CardinalityType
<1>4. \A s, t \in STRING : s # t => RowsIn(s) \cap RowsIn(t) = {}
  BY DEF RowsIn
<1>5. IsFiniteSet(PaidRows) /\ Cardinality(PaidRows) =
        N("verified") + N("finalized") + N("fulfilled") + N("failed") + N("disputed")
  <2> DEFINE A == RowsIn("verified")
             B == RowsIn("finalized")
             C == RowsIn("fulfilled")
             D == RowsIn("failed")
             E == RowsIn("disputed")
  <2> HIDE DEF A, B, C, D, E
  <2>1. /\ IsFiniteSet(A) /\ IsFiniteSet(B) /\ IsFiniteSet(C) /\ IsFiniteSet(D) /\ IsFiniteSet(E)
        /\ A \cap B = {} /\ (A \cup B) \cap C = {} /\ (A \cup B \cup C) \cap D = {}
        /\ (A \cup B \cup C \cup D) \cap E = {}
    BY <1>3 DEF A, B, C, D, E, RowsIn
  <2>2. IsFiniteSet(A \cup B) /\ Cardinality(A \cup B) = Cardinality(A) + Cardinality(B)
    BY <2>1, TwoBuckets
  <2>3. /\ IsFiniteSet(A \cup B \cup C)
        /\ Cardinality(A \cup B \cup C) = Cardinality(A) + Cardinality(B) + Cardinality(C)
    BY <2>1, <2>2, TwoBuckets
  <2>4. /\ IsFiniteSet(A \cup B \cup C \cup D)
        /\ Cardinality(A \cup B \cup C \cup D) =
             Cardinality(A) + Cardinality(B) + Cardinality(C) + Cardinality(D)
    BY <2>1, <2>3, TwoBuckets
  <2>5. /\ IsFiniteSet(A \cup B \cup C \cup D \cup E)
        /\ Cardinality(A \cup B \cup C \cup D \cup E) =
             Cardinality(A) + Cardinality(B) + Cardinality(C) + Cardinality(D) + Cardinality(E)
    BY <2>1, <2>4, TwoBuckets
  <2> QED BY <2>5 DEF A, B, C, D, E, PaidRows
<1>6. IsFiniteSet(Moved) /\ Cardinality(Moved) <= Cardinality(PaidRows)
  BY <1>5, PaymentsHaveRows, FS_Injection
<1>7. N("finalized") + N("fulfilled") <= Cardinality(Moved)
  <2>0. PICK S : S = RowsIn("finalized") \cup RowsIn("fulfilled")
    OBVIOUS
  <2>1. RowsIn("finalized") \cap RowsIn("fulfilled") = {}
    BY DEF RowsIn
  <2>2. IsFiniteSet(S) /\ Cardinality(S) = N("finalized") + N("fulfilled")
    BY <1>3, <2>0, <2>1, TwoBuckets
  <2>3. Cardinality(S) <= Cardinality(Moved)
    <3>1. [row \in S |-> txn[row[1]].paymentIdentifier] \in Injection(S, Moved)
      BY <2>0, SalesHavePayments
    <3> QED BY <1>6, <3>1, FS_Injection
  <2> QED BY <2>2, <2>3
<1>8. {id \in PaymentIds : Settled(id)} = Moved
  BY DEF Moved
<1>9. PICK sales : sales = AggregateSeller(Snapshots)
  OBVIOUS
<1>10. /\ sales[<<"all", "verified">>] = N("verified")
       /\ sales[<<"all", "finalized">>] = N("finalized")
       /\ sales[<<"all", "fulfilled">>] = N("fulfilled")
       /\ sales[<<"all", "failed">>] = N("failed")
       /\ sales[<<"all", "disputed">>] = N("disputed")
  BY <1>2, <1>9 DEF ReconciliationStages
<1>11. /\ sales[<<"all", "finalized">>] + sales[<<"all", "fulfilled">>] <= Cardinality(Moved)
       /\ Cardinality(Moved) <=
            sales[<<"all", "verified">>] + sales[<<"all", "finalized">>]
              + sales[<<"all", "fulfilled">>] + sales[<<"all", "failed">>]
              + sales[<<"all", "disputed">>]
  BY <1>5, <1>6, <1>7, <1>10
<1> QED BY <1>1, <1>8, <1>9, <1>11, SnapshotsAgree DEF SalesMatchLedger

\* The sales figures are those of the money, whoever counts and whatever copies
\* of the records are counted with them: AggregateSeller, newestTransactions.
THEOREM SalesAreTrue == RemediationSpec => []SalesMatchLedger
<1>1. RemediationInit => SalesInv
  BY SalesInitOK
<1>2. SalesInv /\ [RemediationNext]_allVars => SalesInv'
  BY SalesNextOK
<1>3. SalesInv => SalesMatchLedger
  BY FiguresOK
<1> QED BY <1>1, <1>2, <1>3, PTL DEF RemediationSpec
=============================================================================

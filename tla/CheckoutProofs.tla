-------------------------- MODULE CheckoutProofs --------------------------
(***************************************************************************)
(* The safety of Checkout, for any number of requests, intents, payments,  *)
(* bodies and facilitator quirks.                                          *)
(*                                                                         *)
(* None of the safety invariants is inductive.  What carries them is that  *)
(* a copy with the stored version IS the stored record (Fresh): a request  *)
(* that passes the version condition therefore acts on facts that still    *)
(* hold, and while one request owns a FORWARDED transaction every other    *)
(* copy has either an older version or another status.                     *)
(*                                                                         *)
(* Every write makes a record that follows the one it replaces (Advances), *)
(* which gives the action property RecordedFactsPersist.  The evidence     *)
(* chain needs a second invariant on top of the first: EvidenceInv counts  *)
(* the calls whose outcome is not in the chain yet (Pending).              *)
(***************************************************************************)
EXTENDS Checkout, FiniteSetTheorems, TLAPS

\* Calls made with a proof in hand, and between verification and settlement.
SettlementPCs == { "recordVerification", "settle", "finalize", "failPayment",
                   "review" }
ProofPCs      == SettlementPCs \cup {"verify", "saveVerified"}

\* Calls of a request that carries the intent's own body.
FirstPCs      == ProofPCs \cup {"load", "create", "recordChallenge"}

\* Calls that use the copy of the transaction.
ViewPCs       == OwnerPCs \cup ProofPCs \cup
                   {"prepareRetry", "recordChallenge", "claim"}

\* Calls of the owner before it calls the seller.
PrePCs        == OwnerPCs \ {"saveOutcome"}

\* The part of TypeOK about the request handlers.
HandlersOK ==
    /\ pc \in [Requests -> PCs]
    /\ req \in [Requests -> RequestRecords]
    /\ view \in [Requests -> Transactions \cup {NoTxn}]
    /\ payer \in [Requests -> Payers \cup {None}]
    /\ result \in [Requests -> Results]

Txn(r) == txn[req[r].intent]

BoundBody(t) ==
    IF t.recoveryRequestBody = None THEN OriginalBody ELSE t.recoveryRequestBody

\* The copy is never ahead of the store, and is the stored record if it has
\* its version.
Fresh(r) ==
    /\ view[r] # NoTxn
    /\ Txn(r) # NoTxn
    /\ view[r].version <= Txn(r).version
    /\ view[r].version = Txn(r).version => view[r] = Txn(r)

\* A payment on record is the one of the recorded proof, claimed by the intent.
ClaimedOK(i, t) ==
    t.paymentIdentifier # None =>
        /\ t.paymentProofHash \in Proofs
        /\ t.paymentIdentifier = PaymentIdOf[t.paymentProofHash]
        /\ claims[t.paymentIdentifier] = i

ParamsOK(r) ==
    /\ pc[r] # "idle" => req[r].intent \in Intents /\ req[r].body \in Bodies
    /\ pc[r] \in ProofPCs => req[r].proof \in Proofs
    /\ pc[r] \in FirstPCs => req[r].body = OriginalBody
    /\ pc[r] = "claim" =>
         req[r].body = OriginalBody \/ view[r].recoveryRequestBody = req[r].body

\* A request that may settle works on the payment its transaction has claimed.
SettlementOK(r) ==
    pc[r] \in SettlementPCs =>
        LET id == PaymentIdOf[req[r].proof] IN
        /\ view[r].paymentIdentifier = id
        /\ claims[id] = req[r].intent
        /\ pc[r] = "finalize" => Settled(id)
        /\ pc[r] = "failPayment" /\ "refuses_settled" \notin Quirks =>
             ledger[id] = "refused"

\* The owner of a delivery holds the stored record, and nothing has happened
\* at the seller before it calls, nor if the seller says so.
OwnerOK(r) ==
    pc[r] \in OwnerPCs =>
        /\ view[r] = Txn(r)
        /\ view[r].status = "FORWARDED"
        /\ pc[r] \in PrePCs =>
             /\ effects[req[r].intent] = 0
             /\ dispatches[req[r].intent] < view[r].fulfillmentAttempts
             /\ req[r].body = BoundBody(view[r])
        /\ pc[r] = "saveOutcome" =>
             /\ result[r].retrySafe => effects[req[r].intent] = 0
             /\ result[r].status = "2xx" => effects[req[r].intent] = 1

RequestOK(r) ==
    /\ ParamsOK(r)
    /\ pc[r] \in ViewPCs => Fresh(r) /\ ClaimedOK(req[r].intent, view[r])
    /\ SettlementOK(r)
    /\ OwnerOK(r)

OneOwner ==
    \A q, r \in Requests :
        /\ pc[q] \in OwnerPCs
        /\ pc[r] \in OwnerPCs
        /\ req[q].intent = req[r].intent
        => q = r

\* What a stored transaction says is true of the payment and of the seller.
StoredOK(i, t) ==
    /\ t.status \in { "PAYMENT_REQUIRED", "PAYMENT_VERIFIED", "FORWARDED",
                      "FULFILLED", "FAILED", "DISPUTED", "REFUND_RECOMMENDED" }
    /\ t.status = "PAYMENT_REQUIRED" =>
         /\ t.paymentIdentifier = None
         /\ t.paymentFinality = "none"
         /\ t.fulfillmentAttempts = 0
    /\ t.status # "PAYMENT_REQUIRED" => t.paymentIdentifier # None
    /\ ClaimedOK(i, t)
    /\ t.status \in {"FORWARDED", "FULFILLED"} => t.paymentFinality = "finalized"
    /\ t.paymentFinality = "finalized" =>
         /\ t.paymentIdentifier \in PaymentIds
         /\ Settled(t.paymentIdentifier)
    /\ t.paymentFinality = "failed" /\ "refuses_settled" \notin Quirks =>
         /\ t.paymentIdentifier \in PaymentIds
         /\ ledger[t.paymentIdentifier] = "refused"
    /\ t.status \in {"PAYMENT_REQUIRED", "PAYMENT_VERIFIED"} => effects[i] = 0
    /\ t.status = "FAILED" /\ t.retrySafe => effects[i] = 0
    /\ dispatches[i] <= t.fulfillmentAttempts
    /\ t.fulfillmentAttempts <= 2
    /\ t.status = "PAYMENT_VERIFIED" => t.fulfillmentAttempts <= 1
    /\ t.status \notin {"PAYMENT_REQUIRED", "PAYMENT_VERIFIED"} =>
         t.fulfillmentAttempts # 0
    /\ t.status \in {"PAYMENT_REQUIRED", "PAYMENT_VERIFIED", "FORWARDED", "FAILED"} =>
         t.upstreamStatus # "2xx"
    /\ t.status = "FULFILLED" => t.upstreamStatus = "2xx"
    /\ t.upstreamStatus = "2xx" => effects[i] = 1
    /\ dispatches[i] > 0 => t.paymentFinality = "finalized"

RecordOK(i) ==
    /\ effects[i] <= 1
    /\ txn[i] = NoTxn => effects[i] = 0 /\ dispatches[i] = 0
    /\ txn[i] # NoTxn => StoredOK(i, txn[i])

PaymentOK(id) ==
    /\ claims[id] # None =>
         /\ txn[claims[id]] # NoTxn
         /\ txn[claims[id]].paymentIdentifier = id
    /\ Settled(id) => claims[id] # None

Inv ==
    /\ TypeOK
    /\ \A r \in Requests : RequestOK(r)
    /\ OneOwner
    /\ \A i \in Intents : RecordOK(i)
    /\ \A id \in PaymentIds : PaymentOK(id)

-----------------------------------------------------------------------------
\* How one step of a request r looks to the others

OthersUntouched(r) ==
    \A q \in Requests \ {r} :
        /\ pc'[q] = pc[q]
        /\ req'[q] = req[q]
        /\ view'[q] = view[q]
        /\ result'[q] = result[q]

StoreAdvances ==
    \A i \in Intents :
        txn[i] # NoTxn =>
            /\ txn'[i] # NoTxn
            /\ \/ txn'[i] = txn[i]
               \/ txn'[i].version > txn[i].version

FactsPersist ==
    \A id \in PaymentIds :
        /\ claims[id] # None => claims'[id] = claims[id]
        /\ Settled(id) => ledger'[id] \in Payers
        /\ "refuses_settled" \notin Quirks /\ ledger[id] = "refused" =>
             ledger'[id] = "refused"

OwnersUntouched(r) ==
    \A q \in Requests \ {r} :
        pc[q] \in OwnerPCs =>
            /\ txn'[req[q].intent] = txn[req[q].intent]
            /\ effects'[req[q].intent] = effects[req[q].intent]
            /\ dispatches'[req[q].intent] = dispatches[req[q].intent]

\* A request keeps its part of the invariant while somebody else steps.
LEMMA RequestKept ==
    ASSUME Inv, TypeOK', NEW q \in Requests, StoreAdvances, FactsPersist,
           pc'[q] = pc[q], req'[q] = req[q], view'[q] = view[q], result'[q] = result[q],
           pc[q] \in OwnerPCs =>
             /\ txn'[req[q].intent] = txn[req[q].intent]
             /\ effects'[req[q].intent] = effects[req[q].intent]
             /\ dispatches'[req[q].intent] = dispatches[req[q].intent]
    PROVE  RequestOK(q)'
<1>1. RequestOK(q)
  BY DEF Inv
<1>2. /\ pc'[q] = pc[q]
      /\ req'[q] = req[q]
      /\ view'[q] = view[q]
      /\ result'[q] = result[q]
  OBVIOUS
<1>3. ParamsOK(q)'
  BY <1>1, <1>2 DEF RequestOK, ParamsOK
<1>4. pc[q] \in ViewPCs => ClaimedOK(req[q].intent, view[q])'
  <2> SUFFICES ASSUME pc[q] \in ViewPCs, view[q].paymentIdentifier # None
               PROVE  ClaimedOK(req[q].intent, view[q])'
    BY <1>2 DEF ClaimedOK
  <2>1. ClaimedOK(req[q].intent, view[q]) /\ req[q].intent \in Intents
    BY <1>1 DEF RequestOK, ParamsOK, ViewPCs, OwnerPCs, ProofPCs, SettlementPCs
  <2>2. view[q].paymentIdentifier \in PaymentIds
    BY <2>1, CheckoutAssumption DEF ClaimedOK
  <2>3. claims[view[q].paymentIdentifier] # None
    BY <2>1, CheckoutAssumption DEF ClaimedOK
  <2> QED BY <1>2, <2>1, <2>2, <2>3 DEF ClaimedOK, FactsPersist
<1>5. pc[q] \in ViewPCs => Fresh(q)'
  <2> SUFFICES ASSUME pc[q] \in ViewPCs PROVE Fresh(q)'
    OBVIOUS
  <2>1. Fresh(q) /\ req[q].intent \in Intents
    BY <1>1 DEF RequestOK, ParamsOK, ViewPCs, OwnerPCs, ProofPCs, SettlementPCs
  <2>2. view[q] \in Transactions /\ txn[req[q].intent] \in Transactions
    BY <1>1, <2>1 DEF Fresh, Txn, Inv, TypeOK
  <2>3. view[q].version \in Nat /\ txn[req[q].intent].version \in Nat
    BY <2>2 DEF Transactions
  <2>4. CASE txn'[req[q].intent] = txn[req[q].intent]
    BY <2>1, <2>4, <1>2 DEF Fresh, Txn
  <2>5. CASE txn'[req[q].intent].version > txn[req[q].intent].version
    <3>1. txn'[req[q].intent] # NoTxn
      BY <2>1 DEF Fresh, Txn, StoreAdvances
    <3>2. view[q].version <= txn[req[q].intent].version
      BY <2>1 DEF Fresh, Txn
    <3>3. txn'[req[q].intent].version \in Nat
      BY <2>1, <3>1 DEF TypeOK, Transactions
    <3> QED BY <2>1, <2>3, <2>5, <3>1, <3>2, <3>3, <1>2 DEF Fresh, Txn
  <2> QED BY <2>1, <2>4, <2>5 DEF StoreAdvances, Fresh, Txn
<1>6. SettlementOK(q)'
  <2> SUFFICES ASSUME pc[q] \in SettlementPCs PROVE SettlementOK(q)'
    BY <1>2 DEF SettlementOK
  <2>1. SettlementOK(q) /\ req[q].proof \in Proofs /\ req[q].intent \in Intents
    BY <1>1 DEF RequestOK, ParamsOK, ProofPCs, SettlementPCs
  <2>2. PaymentIdOf[req[q].proof] \in PaymentIds
    BY <2>1, CheckoutAssumption
  <2>3. claims[PaymentIdOf[req[q].proof]] # None
    BY <2>1, CheckoutAssumption DEF SettlementOK
  <2> QED BY <1>2, <2>1, <2>2, <2>3 DEF SettlementOK, FactsPersist, Settled
<1>7. OwnerOK(q)'
  BY <1>1, <1>2 DEF RequestOK, OwnerOK, Txn
<1> QED BY <1>2, <1>3, <1>4, <1>5, <1>6, <1>7 DEF RequestOK

\* In particular while another request steps.
LEMMA OthersOK ==
    ASSUME Inv, TypeOK', NEW r \in Requests,
           OthersUntouched(r), StoreAdvances, FactsPersist, OwnersUntouched(r),
           NEW q \in Requests \ {r}
    PROVE  RequestOK(q)'
BY RequestKept DEF OthersUntouched, OwnersUntouched

-----------------------------------------------------------------------------
\* The mutating methods make transactions, and each makes a new version

\* transition keeps a transaction one.  (The provers take an EXCEPT of several
\* fields as the EXCEPTs of one field that it stands for.)
LEMMA TransitionType ==
    ASSUME NEW t \in Transactions, NEW next \in Statuses
    PROVE  transition(t, next) \in Transactions
<1> DEFINE v == t.version + 1
<1>1. v \in Nat
  BY DEF Transactions
<1>2. transition(t, next) =
        [[t
            EXCEPT !.status = next]
            EXCEPT !.version = v]
  BY <1>1 DEF transition, Transactions
<1> HIDE DEF v
<1>3. [[t
            EXCEPT !.status = next]
            EXCEPT !.version = v]
        \in Transactions
  BY <1>1 DEF Transactions
<1> QED BY <1>2, <1>3

\* VerifyPayment keeps a transaction one.
LEMMA VerifyPaymentType ==
    ASSUME NEW t \in Transactions, NEW id \in PaymentIds, NEW proof \in Proofs
    PROVE  VerifyPayment(t, id, proof) \in Transactions
<1> DEFINE u == transition(t, "PAYMENT_VERIFIED")
<1>1. u \in Transactions
  BY TransitionType DEF Statuses
<1>2. VerifyPayment(t, id, proof) =
        [[[u
            EXCEPT !.paymentIdentifier = id]
            EXCEPT !.paymentProofHash = proof]
            EXCEPT !.paymentFinality = "confirmed"]
  BY <1>1 DEF VerifyPayment, Transactions
<1> HIDE DEF u
<1>3. [[[u
            EXCEPT !.paymentIdentifier = id]
            EXCEPT !.paymentProofHash = proof]
            EXCEPT !.paymentFinality = "confirmed"]
        \in Transactions
  BY <1>1 DEF Transactions, Finalities
<1> QED BY <1>2, <1>3

\* FinalizePayment keeps a transaction one.
LEMMA FinalizePaymentType ==
    ASSUME NEW t \in Transactions
    PROVE  FinalizePayment(t) \in Transactions
<1> DEFINE v == t.version + 1
<1>1. v \in Nat
  BY DEF Transactions
<1>2. FinalizePayment(t) =
        [[t
            EXCEPT !.paymentFinality = "finalized"]
            EXCEPT !.version = v]
  BY <1>1 DEF FinalizePayment, Transactions
<1> HIDE DEF v
<1>3. [[t
            EXCEPT !.paymentFinality = "finalized"]
            EXCEPT !.version = v]
        \in Transactions
  BY <1>1 DEF Transactions, Finalities
<1> QED BY <1>2, <1>3

\* FailPayment keeps a transaction one.
LEMMA FailPaymentType ==
    ASSUME NEW t \in Transactions, NEW code \in FailureCodes
    PROVE  FailPayment(t, code) \in Transactions
<1> DEFINE u == transition(t, "FAILED")
<1>1. u \in Transactions
  BY TransitionType DEF Statuses
<1>2. FailPayment(t, code) =
        [[u
            EXCEPT !.failureCode = code]
            EXCEPT !.paymentFinality = "failed"]
  BY <1>1 DEF FailPayment, Transactions
<1> HIDE DEF u
<1>3. [[u
            EXCEPT !.failureCode = code]
            EXCEPT !.paymentFinality = "failed"]
        \in Transactions
  BY <1>1 DEF Transactions, Finalities
<1> QED BY <1>2, <1>3

\* RequirePaymentReview keeps a transaction one.
LEMMA RequirePaymentReviewType ==
    ASSUME NEW t \in Transactions, NEW code \in FailureCodes
    PROVE  RequirePaymentReview(t, code) \in Transactions
<1> DEFINE v == t.version + 1
<1>1. v \in Nat
  BY DEF Transactions
<1>2. RequirePaymentReview(t, code) =
        [[t
            EXCEPT !.failureCode = code]
            EXCEPT !.version = v]
  BY <1>1 DEF RequirePaymentReview, Transactions
<1> HIDE DEF v
<1>3. [[t
            EXCEPT !.failureCode = code]
            EXCEPT !.version = v]
        \in Transactions
  BY <1>1 DEF Transactions
<1> QED BY <1>2, <1>3

\* MarkForwarded keeps a transaction one.
LEMMA MarkForwardedType ==
    ASSUME NEW t \in Transactions
    PROVE  MarkForwarded(t) \in Transactions
<1> DEFINE u == transition(t, "FORWARDED")
<1> DEFINE n == u.fulfillmentAttempts + 1
<1>1. u \in Transactions
  BY TransitionType DEF Statuses
<1>2. n \in Nat
  BY <1>1 DEF Transactions
<1>3. MarkForwarded(t) =
        [u
            EXCEPT !.fulfillmentAttempts = n]
  BY <1>1, <1>2 DEF MarkForwarded, Transactions
<1> HIDE DEF u, n
<1>4. [u
            EXCEPT !.fulfillmentAttempts = n]
        \in Transactions
  BY <1>1, <1>2 DEF Transactions
<1> QED BY <1>3, <1>4

\* MarkFulfilled keeps a transaction one.
LEMMA MarkFulfilledType ==
    ASSUME NEW t \in Transactions
    PROVE  MarkFulfilled(t) \in Transactions
<1> DEFINE u == transition(t, "FULFILLED")
<1>1. u \in Transactions
  BY TransitionType DEF Statuses
<1>2. MarkFulfilled(t) =
        [u
            EXCEPT !.upstreamStatus = "2xx"]
  BY <1>1 DEF MarkFulfilled, Transactions
<1> HIDE DEF u
<1>3. [u
            EXCEPT !.upstreamStatus = "2xx"]
        \in Transactions
  BY <1>1 DEF Transactions, UpstreamStatuses
<1> QED BY <1>2, <1>3

\* MarkFailedWithRecovery keeps a transaction one.
LEMMA MarkFailedType ==
    ASSUME NEW t \in Transactions, NEW code \in FailureCodes,
           NEW upstream \in UpstreamStatuses \cup {None}, NEW safe \in BOOLEAN
    PROVE  MarkFailedWithRecovery(t, code, upstream, safe) \in Transactions
<1> DEFINE u == transition(t, "FAILED")
<1> DEFINE s == (/\ safe
                     /\ t.paymentFinality = "finalized"
                     /\ t.fulfillmentAttempts = 1
                     /\ \/ upstream = "4xx_input"
                        \/ upstream = None /\ code \in PreDispatchCodes)
<1> DEFINE x == IF upstream = None THEN u.upstreamStatus ELSE upstream
<1>1. u \in Transactions
  BY TransitionType DEF Statuses
<1>2. s \in BOOLEAN
  OBVIOUS
<1>3. x \in UpstreamStatuses \cup {None}
  BY <1>1 DEF Transactions
<1>4. MarkFailedWithRecovery(t, code, upstream, safe) =
        [[[u
            EXCEPT !.failureCode = code]
            EXCEPT !.retrySafe = s]
            EXCEPT !.upstreamStatus = x]
  BY <1>1, <1>2, <1>3 DEF MarkFailedWithRecovery, Transactions
<1> HIDE DEF u, s, x
<1>5. [[[u
            EXCEPT !.failureCode = code]
            EXCEPT !.retrySafe = s]
            EXCEPT !.upstreamStatus = x]
        \in Transactions
  BY <1>1, <1>2, <1>3 DEF Transactions
<1> QED BY <1>4, <1>5

\* PrepareFulfillmentRetry keeps a transaction one.
LEMMA PrepareRetryType ==
    ASSUME NEW t \in Transactions, NEW body \in Bodies
    PROVE  PrepareFulfillmentRetry(t, body) \in Transactions
<1> DEFINE v == t.version + 1
<1>1. v \in Nat
  BY DEF Transactions
<1>2. PrepareFulfillmentRetry(t, body) =
        [[[[[[t
            EXCEPT !.status = "PAYMENT_VERIFIED"]
            EXCEPT !.recoveryRequestBody = body]
            EXCEPT !.retrySafe = FALSE]
            EXCEPT !.failureCode = "none"]
            EXCEPT !.upstreamStatus = None]
            EXCEPT !.version = v]
  BY <1>1 DEF PrepareFulfillmentRetry, Transactions
<1> HIDE DEF v
<1>3. [[[[[[t
            EXCEPT !.status = "PAYMENT_VERIFIED"]
            EXCEPT !.recoveryRequestBody = body]
            EXCEPT !.retrySafe = FALSE]
            EXCEPT !.failureCode = "none"]
            EXCEPT !.upstreamStatus = None]
            EXCEPT !.version = v]
        \in Transactions
  BY <1>1 DEF Transactions, Statuses, FailureCodes
<1> QED BY <1>2, <1>3

\* Restore keeps a transaction one, of the same version.
LEMMA RestoreType ==
    ASSUME NEW t \in Transactions
    PROVE  /\ Restore(t) \in Transactions
           /\ Restore(t).version = t.version
BY DEF Restore, Transactions

\* The transaction loadOrCreateTransaction creates is one.
LEMMA FirstTransactionType ==
    ASSUME NEW i \in Intents
    PROVE  FirstTransaction(i) \in Transactions
<1>1. NewTransaction \in Transactions
  BY DEF NewTransaction, Transactions, Statuses, Finalities, FailureCodes
<1>2. MarkApproved(RequireApproval(NewTransaction)) \in Transactions
  BY <1>1, TransitionType DEF MarkApproved, RequireApproval, Statuses
<1> QED BY <1>1, <1>2, TransitionType DEF FirstTransaction, RequirePayment, Statuses

-----------------------------------------------------------------------------
\* From one request's step to the invariant

\* What a record says stays true while facts persist and the seller is idle.
LEMMA StoredPersists ==
    ASSUME TypeOK, TypeOK', NEW i \in Intents, NEW t, StoredOK(i, t), FactsPersist,
           effects'[i] = effects[i], dispatches'[i] = dispatches[i]
    PROVE  StoredOK(i, t)'
<1>1. \A id \in PaymentIds : claims[id] = i => claims'[id] = i
  BY CheckoutAssumption DEF FactsPersist
<1>2. ClaimedOK(i, t)'
  BY <1>1, CheckoutAssumption DEF StoredOK, ClaimedOK
<1> QED BY <1>1, <1>2 DEF StoredOK, FactsPersist, Settled

\* A step that writes neither the store nor the world, and takes no ownership.
LEMMA LocalStep ==
    ASSUME Inv, TypeOK', NEW r \in Requests, OthersUntouched(r), RequestOK(r)',
           UNCHANGED <<txn, claims, ledger, dispatches, effects>>,
           pc'[r] \in OwnerPCs =>
             pc[r] \in OwnerPCs /\ req'[r].intent = req[r].intent
    PROVE  Inv'
<1>1. StoreAdvances /\ FactsPersist /\ OwnersUntouched(r)
  BY DEF StoreAdvances, FactsPersist, OwnersUntouched, Settled
<1>2. \A q \in Requests : RequestOK(q)'
  BY <1>1, OthersOK
<1>3. OneOwner'
  BY DEF Inv, OneOwner, OthersUntouched
<1>4. \A i \in Intents : RecordOK(i)'
  BY DEF Inv, RecordOK, StoredOK, ClaimedOK, Settled
<1>5. \A id \in PaymentIds : PaymentOK(id)'
  BY DEF Inv, PaymentOK, Settled
<1> QED BY <1>2, <1>3, <1>4, <1>5 DEF Inv

\* A step of the facilitator: only the ledger changes.
LEMMA LedgerStep ==
    ASSUME Inv, TypeOK', NEW r \in Requests, OthersUntouched(r), RequestOK(r)',
           FactsPersist, UNCHANGED <<txn, claims, dispatches, effects>>,
           pc'[r] \notin OwnerPCs,
           \A id \in PaymentIds : ledger'[id] \in Payers => claims[id] # None
    PROVE  Inv'
<1>1. StoreAdvances /\ OwnersUntouched(r)
  BY DEF StoreAdvances, OwnersUntouched
<1>2. \A q \in Requests : RequestOK(q)'
  BY <1>1, OthersOK
<1>3. OneOwner'
  BY DEF Inv, OneOwner, OthersUntouched
<1>4. \A i \in Intents : RecordOK(i)'
  <2> TAKE i \in Intents
  <2>1. RecordOK(i)
    BY DEF Inv
  <2>2. txn[i] # NoTxn => StoredOK(i, txn[i])'
    BY <2>1, StoredPersists DEF RecordOK, Inv
  <2> QED BY <2>1, <2>2 DEF RecordOK, Inv
<1>5. \A id \in PaymentIds : PaymentOK(id)'
  BY DEF Inv, PaymentOK, Settled
<1> QED BY <1>2, <1>3, <1>4, <1>5 DEF Inv

\* A step in which r replaces the record of one intent by a newer one that
\* tells the truth, while no other request owns the delivery.
LEMMA WriteStep ==
    ASSUME Inv, TypeOK', NEW r \in Requests, NEW i \in Intents,
           NEW t \in Transactions,
           OthersUntouched(r), RequestOK(r)', FactsPersist,
           UNCHANGED <<ledger, dispatches, effects>>,
           txn' = [txn EXCEPT ![i] = t],
           txn[i] # NoTxn => t.version > txn[i].version,
           \A q \in Requests \ {r} : pc[q] \in OwnerPCs => req[q].intent # i,
           pc'[r] \in OwnerPCs => req'[r].intent = i,
           effects[i] <= 1, StoredOK(i, t)',
           \A id \in PaymentIds : PaymentOK(id)'
    PROVE  Inv'
<1>0. TypeOK /\ NoTxn \notin Transactions
  BY CheckoutAssumption DEF Inv
<1>1. StoreAdvances /\ OwnersUntouched(r)
  <2>1. \A j \in Intents : txn'[j] = IF j = i THEN t ELSE txn[j]
    BY <1>0 DEF TypeOK
  <2>2. \A q \in Requests \ {r} : pc[q] \in OwnerPCs => req[q].intent \in Intents
    BY DEF Inv, RequestOK, ParamsOK, OwnerPCs
  <2> QED BY <2>1, <2>2, <1>0 DEF StoreAdvances, OwnersUntouched
<1>2. \A q \in Requests : RequestOK(q)'
  BY <1>1, OthersOK
<1>3. OneOwner'
  BY DEF Inv, OneOwner, OthersUntouched
<1>4. \A j \in Intents : RecordOK(j)'
  <2> TAKE j \in Intents
  <2>1. CASE j = i
    BY <2>1, <1>0 DEF RecordOK, TypeOK
  <2>2. CASE j # i
    <3>1. RecordOK(j) /\ txn'[j] = txn[j]
      BY <2>2, <1>0 DEF Inv, TypeOK
    <3>2. txn[j] # NoTxn => StoredOK(j, txn[j])'
      BY <3>1, <1>0, StoredPersists DEF RecordOK
    <3> QED BY <3>1, <3>2 DEF RecordOK
  <2> QED BY <2>1, <2>2
<1> QED BY <1>2, <1>3, <1>4 DEF Inv

\* A payment stays with its transaction when a write keeps the identifier.
LEMMA PaymentsKept ==
    ASSUME Inv, NEW i \in Intents, NEW t \in Transactions, txn[i] # NoTxn,
           t.paymentIdentifier = txn[i].paymentIdentifier,
           txn' = [txn EXCEPT ![i] = t], UNCHANGED <<claims, ledger>>
    PROVE  /\ FactsPersist
           /\ \A id \in PaymentIds : PaymentOK(id)'
<1>1. FactsPersist
  BY DEF FactsPersist, Settled
<1>2. \A j \in Intents : txn'[j] = IF j = i THEN t ELSE txn[j]
  BY DEF Inv, TypeOK
<1>3. t # NoTxn
  BY CheckoutAssumption
<1>4. ASSUME NEW id \in PaymentIds PROVE PaymentOK(id)'
  <2>1. PaymentOK(id) /\ claims[id] \in Intents \cup {None}
    BY DEF Inv, TypeOK
  <2> QED BY <1>2, <1>3, <2>1 DEF PaymentOK, Settled
<1> QED BY <1>1, <1>4

-----------------------------------------------------------------------------
\* Handler control

\* A handler that returns leaves the others alone and has nothing to keep.
LEMMA ReturnOK ==
    ASSUME Inv, NEW r \in Requests, Return(r)
    PROVE  /\ HandlersOK'
           /\ pc'[r] = "idle" /\ OthersUntouched(r) /\ RequestOK(r)'
<1>1. TypeOK
  BY DEF Inv
<1>2. /\ pc' \in [Requests -> PCs]
      /\ view' \in [Requests -> Transactions \cup {NoTxn}]
      /\ payer' \in [Requests -> Payers \cup {None}]
  BY <1>1 DEF Return, TypeOK, PCs
<1>3. req' \in [Requests -> RequestRecords] /\ result' \in [Requests -> Results]
  <2>1. NoRequest \in RequestRecords /\ NoResult \in Results
    BY DEF NoRequest, NoResult, RequestRecords, Results, FailureCodes
  <2> QED BY <1>1, <2>1 DEF Return, TypeOK
<1>4. pc'[r] = "idle" /\ OthersUntouched(r)
  BY <1>1 DEF Return, TypeOK, OthersUntouched
<1>5. RequestOK(r)'
  BY <1>4 DEF RequestOK, ParamsOK, SettlementOK, OwnerOK, FirstPCs, ViewPCs,
              ProofPCs, SettlementPCs, OwnerPCs
<1> QED BY <1>2, <1>3, <1>4, <1>5 DEF HandlersOK

\* A step that only ends the request keeps the invariant.
LEMMA ReturnStep ==
    ASSUME Inv, NEW r \in Requests, Return(r), chain' \in [Intents -> Seq(EventTypes)],
           UNCHANGED <<txn, claims, world>>
    PROVE  Inv'
<1>1. TypeOK'
  BY ReturnOK DEF Inv, TypeOK, HandlersOK, world
<1>2. pc'[r] \notin OwnerPCs
  BY ReturnOK DEF OwnerPCs
<1> QED BY <1>1, <1>2, ReturnOK, LocalStep DEF world

\* The chain stays a sequence of events when one is appended (once or not).
LEMMA ChainType ==
    ASSUME TypeOK, NEW i \in Intents, NEW event \in EventTypes,
           appendEvent(i, event) \/ appendOnce(i, event)
    PROVE  chain' \in [Intents -> Seq(EventTypes)]
<1>1. Append(chain[i], event) \in Seq(EventTypes)
  BY DEF TypeOK
<1>2. chain \in [Intents -> Seq(EventTypes)]
  BY DEF TypeOK
<1> QED BY <1>1, <1>2 DEF appendEvent, appendOnce

-----------------------------------------------------------------------------
\* One lemma per action: the steps that write neither store nor world

\* A new request knows its intent and body, and has read nothing.
LEMMA BeginOK ==
    ASSUME Inv, NEW r \in Requests, BeginSome(r)
    PROVE  Inv'
<1> PICK i \in Intents, proof \in Proofs \cup {None}, body \in Bodies :
        Begin(r, i, proof, body)
  BY DEF BeginSome
<1>1. TypeOK
  BY DEF Inv
<1>2. [intent |-> i, proof |-> proof, body |-> body] \in RequestRecords
  BY DEF RequestRecords
<1>3. TypeOK'
  BY <1>1, <1>2 DEF TypeOK, Begin, Goto, PCs, store, world
<1>4. OthersUntouched(r)
  BY <1>1 DEF Begin, Goto, TypeOK, OthersUntouched
<1>5. /\ pc'[r] = IF body = OriginalBody THEN "load" ELSE "loadForRetry"
      /\ req'[r] = [intent |-> i, proof |-> proof, body |-> body]
  BY <1>1 DEF Begin, Goto, TypeOK
<1>6. RequestOK(r)'
  BY <1>5 DEF RequestOK, ParamsOK, SettlementOK, OwnerOK, FirstPCs, ViewPCs,
              ProofPCs, SettlementPCs, OwnerPCs
<1>7. pc'[r] \notin OwnerPCs
  BY <1>5 DEF OwnerPCs
<1> QED BY <1>3, <1>4, <1>6, <1>7, LocalStep DEF Begin, store, world

\* A request that is cut off leaves nothing behind.
LEMMA AbortOK ==
    ASSUME Inv, NEW r \in Requests, Abort(r)
    PROVE  Inv'
BY ReturnStep DEF Abort, store, world, Inv, TypeOK

\* A request that loads the transaction has the stored record.
LEMMA LoadForRetryOK ==
    ASSUME Inv, NEW r \in Requests, LoadForRetry(r)
    PROVE  Inv'
<1>1. TypeOK /\ RequestOK(r) /\ pc[r] = "loadForRetry" /\ req[r].intent \in Intents
  BY DEF Inv, RequestOK, ParamsOK, LoadForRetry
<1>2. CASE Return(r)
  BY <1>1, <1>2, ReturnStep DEF LoadForRetry, store, world, TypeOK
<1>3. CASE ~Return(r)
  <2>1. /\ txn[req[r].intent] # NoTxn
        /\ view' = [view EXCEPT ![r] = txn[req[r].intent]]
        /\ pc' = [pc EXCEPT ![r] = "prepareRetry"]
        /\ UNCHANGED <<req, payer, result, store, world>>
    BY <1>3 DEF LoadForRetry, Goto
  <2>2. TypeOK'
    BY <1>1, <2>1 DEF TypeOK, store, world, PCs
  <2>3. /\ view'[r] = txn[req[r].intent]
        /\ pc'[r] = "prepareRetry"
        /\ OthersUntouched(r)
    BY <1>1, <2>1 DEF TypeOK, OthersUntouched
  <2>4. txn[req[r].intent].version \in Nat
    BY <1>1, <2>1 DEF TypeOK, Transactions
  <2>5. RequestOK(r)'
    <3>1. ParamsOK(r)' /\ SettlementOK(r)' /\ OwnerOK(r)'
      BY <1>1, <2>1, <2>3 DEF RequestOK, ParamsOK, SettlementOK, OwnerOK, FirstPCs,
         ProofPCs, SettlementPCs, OwnerPCs
    <3>2. Fresh(r)'
      BY <1>1, <2>1, <2>3, <2>4 DEF Fresh, Txn, store
    <3>3. ClaimedOK(req[r].intent, txn[req[r].intent])
      BY <1>1, <2>1 DEF Inv, RecordOK, StoredOK
    <3>4. ClaimedOK(req[r].intent, view[r])'
      BY <2>1, <2>3, <3>3 DEF ClaimedOK, store
    <3> QED BY <3>1, <3>2, <3>4 DEF RequestOK
  <2>6. pc'[r] \notin OwnerPCs
    BY <2>3 DEF OwnerPCs
  <2> QED BY <2>1, <2>2, <2>3, <2>5, <2>6, LocalStep DEF store, world
<1> QED BY <1>2, <1>3

\* Likewise in loadOrCreateTransaction.
LEMMA LoadOK ==
    ASSUME Inv, NEW r \in Requests, Load(r)
    PROVE  Inv'
<1>1. TypeOK /\ RequestOK(r) /\ pc[r] = "load" /\ req[r].intent \in Intents
  BY DEF Inv, RequestOK, ParamsOK, Load
<1>2. TypeOK'
  BY <1>1 DEF TypeOK, Load, Goto, PCs, store, world
<1>3. /\ view'[r] = txn[req[r].intent]
      /\ pc'[r] = IF txn[req[r].intent] = NoTxn THEN "create" ELSE "recordChallenge"
      /\ OthersUntouched(r)
  BY <1>1 DEF Load, Goto, TypeOK, OthersUntouched
<1>4. txn[req[r].intent] # NoTxn => txn[req[r].intent].version \in Nat
  BY <1>1 DEF TypeOK, Transactions
<1>5. RequestOK(r)'
  <2>1. ParamsOK(r)' /\ SettlementOK(r)' /\ OwnerOK(r)'
    BY <1>1, <1>3 DEF Load, RequestOK, ParamsOK, SettlementOK, OwnerOK, FirstPCs,
       ProofPCs, SettlementPCs, OwnerPCs
  <2>2. txn[req[r].intent] # NoTxn => Fresh(r)'
    BY <1>1, <1>3, <1>4 DEF Load, Fresh, Txn, store
  <2>3. txn[req[r].intent] # NoTxn => ClaimedOK(req[r].intent, txn[req[r].intent])
    BY <1>1 DEF Inv, RecordOK, StoredOK
  <2>4. txn[req[r].intent] # NoTxn => ClaimedOK(req[r].intent, view[r])'
    BY <1>3, <2>3 DEF Load, ClaimedOK, store
  <2> QED BY <1>3, <2>1, <2>2, <2>4 DEF RequestOK, ViewPCs, OwnerPCs, ProofPCs,
          SettlementPCs
<1>6. pc'[r] \notin OwnerPCs
  BY <1>3 DEF OwnerPCs
<1> QED BY <1>2, <1>3, <1>5, <1>6, LocalStep DEF Load, store, world

\* A request goes on to settle only the payment its transaction has claimed.
LEMMA RecordChallengeOK ==
    ASSUME Inv, NEW r \in Requests, RecordChallenge(r)
    PROVE  Inv'
<1> DEFINE next == AfterChallenge(view[r], req[r].proof)
<1>1. TypeOK /\ RequestOK(r) /\ pc[r] = "recordChallenge" /\ req[r].intent \in Intents
  BY DEF Inv, RequestOK, ParamsOK, RecordChallenge
<1>2. chain' \in [Intents -> Seq(EventTypes)]
  BY <1>1, ChainType DEF RecordChallenge, EventTypes
<1>3. CASE next = "idle"
  BY <1>1, <1>2, <1>3, ReturnStep DEF RecordChallenge
<1>4. CASE next # "idle"
  <2>1. next \in {"claim", "verify", "recordVerification"}
    BY <1>4 DEF AfterChallenge
  <2>2. /\ pc' = [pc EXCEPT ![r] = next]
        /\ UNCHANGED <<req, view, payer, result, txn, claims, world>>
    BY <1>4 DEF RecordChallenge, Goto
  <2>3. TypeOK'
    BY <1>1, <1>2, <2>1, <2>2 DEF TypeOK, PCs, world
  <2>4. pc'[r] = next /\ OthersUntouched(r)
    BY <1>1, <2>2 DEF TypeOK, OthersUntouched
  <2>5. Fresh(r)
    BY <1>1 DEF RequestOK, ViewPCs
  <2>6. ParamsOK(r)'
    <3>1. next \in {"verify", "recordVerification"} => req[r].proof \in Proofs
      BY <1>1 DEF AfterChallenge, TypeOK, RequestRecords
    <3> QED BY <1>1, <2>1, <2>2, <2>4, <3>1 DEF RequestOK, ParamsOK, ProofPCs,
            SettlementPCs, FirstPCs
  <2>7. SettlementOK(r)'
    <3> SUFFICES ASSUME next = "recordVerification" PROVE SettlementOK(r)'
      BY <2>1, <2>4 DEF SettlementOK, SettlementPCs
    <3>1. /\ req[r].proof # None
          /\ req[r].proof = view[r].paymentProofHash
          /\ view[r].paymentIdentifier # None
      BY DEF AfterChallenge
    <3> QED BY <1>1, <2>2, <2>4, <3>1 DEF SettlementOK, RequestOK, ViewPCs, ClaimedOK
  <2>8. RequestOK(r)'
    BY <1>1, <2>1, <2>2, <2>4, <2>5, <2>6, <2>7 DEF RequestOK, OwnerOK, OwnerPCs, ViewPCs,
       Fresh, Txn, ClaimedOK
  <2>9. pc'[r] \notin OwnerPCs
    BY <2>1, <2>4 DEF OwnerPCs
  <2> QED BY <2>2, <2>3, <2>4, <2>8, <2>9, LocalStep DEF world
<1> QED BY <1>3, <1>4

\* Verification reads nothing new of the transaction.
LEMMA VerifyOK ==
    ASSUME Inv, NEW r \in Requests, Verify(r)
    PROVE  Inv'
<1>1. TypeOK /\ RequestOK(r) /\ pc[r] = "verify"
  BY DEF Inv, Verify
<1>2. CASE Return(r)
  BY <1>1, <1>2, ReturnStep DEF Verify, store, world, TypeOK
<1>3. CASE ~Return(r)
  <2>1. PICK p \in ReportedPayer(PayerOf[PaymentIdOf[req[r].proof]]) :
          payer' = [payer EXCEPT ![r] = p]
    BY <1>3 DEF Verify
  <2>2. p \in Payers \cup {None}
    <3>1. req[r].proof \in Proofs
      BY <1>1 DEF RequestOK, ParamsOK, ProofPCs
    <3> QED BY <2>1, <3>1, CheckoutAssumption DEF ReportedPayer
  <2>3. /\ pc' = [pc EXCEPT ![r] = "saveVerified"]
        /\ UNCHANGED <<req, view, result, store, world>>
    BY <1>3 DEF Verify, Goto
  <2>4. TypeOK'
    BY <1>1, <2>1, <2>2, <2>3 DEF TypeOK, PCs, store, world
  <2>5. pc'[r] = "saveVerified" /\ OthersUntouched(r)
    BY <1>1, <2>3 DEF TypeOK, OthersUntouched
  <2>6. RequestOK(r)'
    BY <1>1, <2>3, <2>5 DEF RequestOK, ParamsOK, SettlementOK, OwnerOK, FirstPCs,
       ViewPCs, ProofPCs, SettlementPCs, OwnerPCs, Fresh, Txn, ClaimedOK, store
  <2>7. pc'[r] \notin OwnerPCs
    BY <2>5 DEF OwnerPCs
  <2> QED BY <2>3, <2>4, <2>5, <2>6, <2>7, LocalStep DEF store, world
<1> QED BY <1>2, <1>3

\* Nor does the verification event.
LEMMA RecordVerificationOK ==
    ASSUME Inv, NEW r \in Requests, RecordVerification(r)
    PROVE  Inv'
<1>1. TypeOK /\ RequestOK(r) /\ pc[r] = "recordVerification" /\ req[r].intent \in Intents
  BY DEF Inv, RecordVerification, RequestOK, ParamsOK
<1>2. chain' \in [Intents -> Seq(EventTypes)]
  BY <1>1, ChainType DEF RecordVerification, EventTypes
<1>3. TypeOK'
  BY <1>1, <1>2 DEF RecordVerification, Goto, TypeOK, PCs, world
<1>4. pc'[r] = "settle" /\ OthersUntouched(r)
  BY <1>1 DEF RecordVerification, Goto, TypeOK, OthersUntouched
<1>5. RequestOK(r)'
  BY <1>1, <1>4 DEF RecordVerification, RequestOK, ParamsOK, SettlementOK, OwnerOK,
     FirstPCs, ViewPCs, ProofPCs, SettlementPCs, OwnerPCs, Fresh, Txn, ClaimedOK
<1>6. pc'[r] \notin OwnerPCs
  BY <1>4 DEF OwnerPCs
<1> QED BY <1>3, <1>4, <1>5, <1>6, LocalStep DEF RecordVerification, world

\* The owner goes from one call before the dispatch to another.
LEMMA OwnerStep ==
    ASSUME Inv, NEW r \in Requests, pc[r] \in PrePCs, NEW next \in PrePCs, Goto(r, next),
           result' \in [Requests -> Results],
           \A q \in Requests \ {r} : result'[q] = result[q],
           chain' \in [Intents -> Seq(EventTypes)],
           UNCHANGED <<txn, claims, world, req, view, payer>>
    PROVE  Inv'
<1>1. TypeOK /\ RequestOK(r)
  BY DEF Inv
<1>2. TypeOK'
  BY <1>1 DEF TypeOK, Goto, PCs, PrePCs, world
<1>3. pc'[r] = next /\ OthersUntouched(r)
  BY <1>1 DEF TypeOK, Goto, OthersUntouched
<1>4. RequestOK(r)'
  BY <1>1, <1>3 DEF RequestOK, ParamsOK, SettlementOK, OwnerOK, FirstPCs, ViewPCs,
     ProofPCs, SettlementPCs, OwnerPCs, PrePCs, Fresh, Txn, ClaimedOK, BoundBody, world
<1> QED BY <1>2, <1>3, <1>4, LocalStep DEF world, PrePCs

\* The result of a request may name a code.
LEMMA GiveUpType ==
    ASSUME TypeOK, NEW r \in Requests, NEW code \in FailureCodes, GiveUp(r, code)
    PROVE  /\ result' \in [Requests -> Results]
           /\ \A q \in Requests \ {r} : result'[q] = result[q]
<1>1. result[r] \in Results
  BY DEF TypeOK
<1>2. [result[r] EXCEPT !.code = code] \in Results
  BY <1>1 DEF Results
<1>3. result' = [result EXCEPT ![r] = [result[r] EXCEPT !.code = code]]
  BY DEF GiveUp, TypeOK
<1> QED BY <1>2, <1>3 DEF TypeOK

\* Recording the forwarding, or failing to, is a step of the owner.
LEMMA RecordForwardingOK ==
    ASSUME Inv, NEW r \in Requests, RecordForwarding(r)
    PROVE  Inv'
<1>1. TypeOK /\ RequestOK(r) /\ pc[r] = "recordForwarding" /\ req[r].intent \in Intents
  BY DEF Inv, RecordForwarding, RequestOK, ParamsOK
<1>2. chain' \in [Intents -> Seq(EventTypes)]
  <2>1. CASE UNCHANGED chain
    BY <1>1, <2>1 DEF TypeOK
  <2>2. CASE appendEvent(req[r].intent, "proxy.forwarded")
    BY <1>1, <2>2, ChainType DEF EventTypes
  <2> QED BY <2>1, <2>2 DEF RecordForwarding
<1>3. CASE Goto(r, "sign") /\ UNCHANGED result
  BY <1>1, <1>2, <1>3, OwnerStep DEF RecordForwarding, PrePCs, OwnerPCs, TypeOK
<1>4. CASE GiveUp(r, "forwarding_evidence_unavailable")
  <2>1. "forwarding_evidence_unavailable" \in FailureCodes
    BY DEF FailureCodes, PreDispatchCodes
  <2> QED BY <1>1, <1>2, <1>4, <2>1, GiveUpType, OwnerStep
          DEF RecordForwarding, GiveUp, PrePCs, OwnerPCs
<1> QED BY <1>3, <1>4 DEF RecordForwarding

\* So is signing the execution authorization, or failing to.
LEMMA SignOK ==
    ASSUME Inv, NEW r \in Requests, Sign(r)
    PROVE  Inv'
<1>1. TypeOK /\ pc[r] = "sign"
  BY DEF Inv, Sign
<1>2. chain' \in [Intents -> Seq(EventTypes)]
  BY <1>1 DEF Sign, store, TypeOK
<1>3. CASE Goto(r, "dispatch") /\ UNCHANGED result
  BY <1>1, <1>2, <1>3, OwnerStep DEF Sign, PrePCs, OwnerPCs, TypeOK, store
<1>4. CASE GiveUp(r, "execution_authorization_unavailable")
  <2>1. "execution_authorization_unavailable" \in FailureCodes
    BY DEF FailureCodes, PreDispatchCodes
  <2> QED BY <1>1, <1>2, <1>4, <2>1, GiveUpType, OwnerStep
          DEF Sign, GiveUp, PrePCs, OwnerPCs, store
<1> QED BY <1>3, <1>4 DEF Sign

\* The delivery event ends the request.
LEMMA RecordDeliveryOK ==
    ASSUME Inv, NEW r \in Requests, RecordDelivery(r)
    PROVE  Inv'
<1>1. TypeOK /\ req[r].intent \in Intents
  BY DEF Inv, RecordDelivery, RequestOK, ParamsOK
<1>2. chain' \in [Intents -> Seq(EventTypes)]
  BY <1>1, ChainType DEF RecordDelivery, EventTypes
<1> QED BY <1>2, ReturnStep DEF RecordDelivery

-----------------------------------------------------------------------------
\* The facilitator

\* A transfer takes an open authorization, or confirms the one it made.
LEMMA TransferOK ==
    ASSUME TypeOK, NEW id \in PaymentIds, NEW p \in Payers, Transfer(id, p)
    PROVE  /\ ledger' \in [PaymentIds -> Payers \cup {"open", "refused"}]
           /\ ledger'[id] = p
           /\ \A x \in PaymentIds \ {id} : ledger'[x] = ledger[x]
           /\ ledger[id] = "open" \/ ledger'[id] = ledger[id]
BY DEF TypeOK, Transfer

\* Nothing that was decided of a payment changes when it is transferred.
LEMMA TransferPersists ==
    ASSUME TypeOK, NEW id \in PaymentIds, NEW p \in Payers, Transfer(id, p),
           UNCHANGED claims
    PROVE  FactsPersist
BY TransferOK, CheckoutAssumption DEF FactsPersist, Settled

\* What a request that settles knows: the payment is claimed by its intent.
LEMMA SettleContext ==
    ASSUME Inv, NEW r \in Requests, pc[r] = "settle"
    PROVE  /\ TypeOK
           /\ RequestOK(r)
           /\ req[r].proof \in Proofs
           /\ PaymentIdOf[req[r].proof] \in PaymentIds
           /\ claims[PaymentIdOf[req[r].proof]] # None
           /\ view[r].paymentIdentifier = PaymentIdOf[req[r].proof]
           /\ \A id \in PaymentIds : Settled(id) => claims[id] # None
<1>1. TypeOK /\ RequestOK(r) /\ req[r].proof \in Proofs /\ req[r].intent \in Intents
  BY DEF Inv, RequestOK, ParamsOK, ProofPCs, SettlementPCs
<1>2. PaymentIdOf[req[r].proof] \in PaymentIds
  BY <1>1, CheckoutAssumption
<1>3. /\ claims[PaymentIdOf[req[r].proof]] # None
      /\ view[r].paymentIdentifier = PaymentIdOf[req[r].proof]
  BY <1>1, CheckoutAssumption DEF RequestOK, SettlementOK, SettlementPCs
<1> QED BY <1>1, <1>2, <1>3 DEF Inv, PaymentOK

\* A confirmed settlement moves money only for the claimed payment.
LEMMA SettleConfirmedOK ==
    ASSUME Inv, NEW r \in Requests, SettleConfirmed(r)
    PROVE  Inv'
<1> DEFINE id == PaymentIdOf[req[r].proof]
<1>0. pc[r] = "settle"
  BY DEF SettleConfirmed
<1>1. /\ TypeOK /\ RequestOK(r) /\ id \in PaymentIds /\ claims[id] # None
      /\ view[r].paymentIdentifier = id
      /\ \A x \in PaymentIds : Settled(x) => claims[x] # None
  BY <1>0, SettleContext
<1>2. PICK p \in Payers : /\ Transfer(id, p)
                          /\ pc' = [pc EXCEPT ![r] = "review"]
                               \/ pc' = [pc EXCEPT ![r] = "finalize"]
  BY <1>1 DEF SettleConfirmed, Goto
<1>3. UNCHANGED <<store, dispatches, effects, req, view, payer, result>>
  BY DEF SettleConfirmed
<1> HIDE DEF id
<1>4. /\ ledger' \in [PaymentIds -> Payers \cup {"open", "refused"}]
      /\ ledger'[id] = p
      /\ \A x \in PaymentIds \ {id} : ledger'[x] = ledger[x]
      /\ FactsPersist
  BY <1>1, <1>2, <1>3, TransferOK, TransferPersists DEF store
<1>5. TypeOK'
  BY <1>1, <1>2, <1>3, <1>4 DEF TypeOK, PCs, store
<1>6. pc'[r] \in {"review", "finalize"} /\ OthersUntouched(r)
  BY <1>1, <1>2, <1>3 DEF TypeOK, OthersUntouched
<1>7. RequestOK(r)'
  BY <1>0, <1>1, <1>3, <1>4, <1>6 DEF id, RequestOK, ParamsOK, SettlementOK, OwnerOK,
     FirstPCs, ViewPCs, ProofPCs, SettlementPCs, OwnerPCs, Fresh, Txn, ClaimedOK,
     Settled, store
<1>8. \A x \in PaymentIds : ledger'[x] \in Payers => claims[x] # None
  BY <1>1, <1>4 DEF Settled
<1>9. pc'[r] \notin OwnerPCs
  BY <1>6 DEF OwnerPCs
<1> QED BY <1>3, <1>4, <1>5, <1>6, <1>7, <1>8, <1>9, LedgerStep DEF store

\* A refusal is final, unless the facilitator refuses what it transferred.
LEMMA SettleRefusedOK ==
    ASSUME Inv, NEW r \in Requests, SettleRefused(r)
    PROVE  Inv'
<1> DEFINE id == PaymentIdOf[req[r].proof]
<1>0. pc[r] = "settle"
  BY DEF SettleRefused
<1>1. /\ TypeOK /\ RequestOK(r) /\ id \in PaymentIds
      /\ \A x \in PaymentIds : Settled(x) => claims[x] # None
  BY <1>0, SettleContext
<1>2. /\ Refuse(id) /\ pc' = [pc EXCEPT ![r] = "failPayment"]
      /\ UNCHANGED <<store, dispatches, effects, req, view, payer, result>>
  BY DEF SettleRefused, Goto
<1>3. /\ ledger' \in [PaymentIds -> Payers \cup {"open", "refused"}]
      /\ \A x \in PaymentIds \ {id} : ledger'[x] = ledger[x]
      /\ \/ ledger'[id] = "refused" /\ ~Settled(id)
         \/ "refuses_settled" \in Quirks /\ ledger'[id] = ledger[id]
  BY <1>1, <1>2 DEF TypeOK, Refuse
<1>4. FactsPersist
  BY <1>2, <1>3 DEF FactsPersist, Settled, store
<1>5. TypeOK'
  BY <1>1, <1>2, <1>3 DEF TypeOK, PCs, store
<1>6. pc'[r] = "failPayment" /\ OthersUntouched(r)
  BY <1>1, <1>2 DEF TypeOK, OthersUntouched
<1>7. RequestOK(r)'
  BY <1>0, <1>1, <1>2, <1>3, <1>6 DEF RequestOK, ParamsOK, SettlementOK, OwnerOK,
     FirstPCs, ViewPCs, ProofPCs, SettlementPCs, OwnerPCs, Fresh, Txn, ClaimedOK,
     Settled, store
<1>8. \A x \in PaymentIds : ledger'[x] \in Payers => claims[x] # None
  BY <1>1, <1>3, CheckoutAssumption DEF Settled
<1>9. pc'[r] \notin OwnerPCs
  BY <1>6 DEF OwnerPCs
<1> QED BY <1>2, <1>4, <1>5, <1>6, <1>7, <1>8, <1>9, LedgerStep DEF store

\* A settlement without an answer, whether or not the money moved.
LEMMA SettleUnknownOK ==
    ASSUME Inv, NEW r \in Requests, SettleUnknown(r)
    PROVE  Inv'
<1> DEFINE id == PaymentIdOf[req[r].proof]
<1>1. /\ TypeOK /\ id \in PaymentIds /\ claims[id] # None
      /\ \A x \in PaymentIds : Settled(x) => claims[x] # None
  BY SettleContext DEF SettleUnknown
<1>2. Return(r) /\ UNCHANGED <<store, dispatches, effects>>
  BY DEF SettleUnknown
<1>3. CASE UNCHANGED ledger
  BY <1>1, <1>2, <1>3, ReturnStep DEF store, world, TypeOK
<1>4. ASSUME NEW p \in Payers, Transfer(id, p) PROVE Inv'
  <2> HIDE DEF id
  <2>1. /\ ledger' \in [PaymentIds -> Payers \cup {"open", "refused"}]
        /\ \A x \in PaymentIds \ {id} : ledger'[x] = ledger[x]
        /\ FactsPersist
    BY <1>1, <1>2, <1>4, TransferOK, TransferPersists DEF store
  <2>2. TypeOK'
    BY <1>1, <1>2, <2>1, ReturnOK DEF TypeOK, HandlersOK, store
  <2>3. \A x \in PaymentIds : ledger'[x] \in Payers => claims[x] # None
    BY <1>1, <2>1 DEF Settled
  <2>4. pc'[r] \notin OwnerPCs
    BY <1>2, ReturnOK DEF OwnerPCs
  <2> QED BY <1>2, <2>1, <2>2, <2>3, <2>4, ReturnOK, LedgerStep DEF store
<1> QED BY <1>3, <1>4 DEF SettleUnknown

-----------------------------------------------------------------------------
\* Writes of the transaction record

\* Only its owner writes a forwarded record.
LEMMA NoOtherOwner ==
    ASSUME Inv, NEW r \in Requests, NEW i \in Intents,
           txn[i].status # "FORWARDED" \/ (pc[r] \in OwnerPCs /\ req[r].intent = i)
    PROVE  \A q \in Requests \ {r} : pc[q] \in OwnerPCs => req[q].intent # i
<1> SUFFICES ASSUME NEW q \in Requests \ {r}, pc[q] \in OwnerPCs, req[q].intent = i
             PROVE  FALSE
  OBVIOUS
<1>1. txn[i].status = "FORWARDED"
  BY DEF Inv, RequestOK, OwnerOK, Txn
<1> QED BY <1>1 DEF Inv, OneOwner

\* A write that keeps the payment, advances the version and tells the truth.
LEMMA AppliedUpdate ==
    ASSUME Inv, NEW r \in Requests, NEW i \in Intents, NEW t \in Transactions,
           txn[i] # NoTxn,
           txn[i].status # "FORWARDED" \/ (pc[r] \in OwnerPCs /\ req[r].intent = i),
           t.version = txn[i].version + 1,
           t.paymentIdentifier = txn[i].paymentIdentifier,
           txn' = [txn EXCEPT ![i] = t], UNCHANGED <<claims, chain, world>>,
           HandlersOK',
           OthersUntouched(r), RequestOK(r)',
           pc'[r] \in OwnerPCs => req'[r].intent = i,
           StoredOK(i, t)
    PROVE  Inv'
<1>1. TypeOK /\ RecordOK(i)
  BY DEF Inv
<1>2. TypeOK'
  BY <1>1 DEF TypeOK, HandlersOK, world
<1>3. FactsPersist /\ \A id \in PaymentIds : PaymentOK(id)'
  BY PaymentsKept DEF world
<1>4. StoredOK(i, t)'
  BY <1>1, <1>2, <1>3, StoredPersists DEF world
<1>5. t.version > txn[i].version
  BY <1>1 DEF TypeOK, Transactions
<1>6. \A q \in Requests \ {r} : pc[q] \in OwnerPCs => req[q].intent # i
  BY NoOtherOwner
<1>7. effects[i] <= 1
  BY <1>1 DEF RecordOK
<1> QED BY <1>2, <1>3, <1>4, <1>5, <1>6, <1>7, WriteStep DEF world

\* What a request knows whose write passes the version condition.
LEMMA UpdateContext ==
    ASSUME Inv, NEW r \in Requests, pc[r] \in ViewPCs, VersionMatches(r)
    PROVE  /\ TypeOK
           /\ RequestOK(r)
           /\ req[r].intent \in Intents
           /\ view[r] \in Transactions
           /\ view[r] = txn[req[r].intent]
           /\ txn[req[r].intent] # NoTxn
           /\ StoredOK(req[r].intent, view[r])
<1>1. TypeOK /\ RequestOK(r) /\ Fresh(r) /\ req[r].intent \in Intents
  BY DEF Inv, RequestOK, ParamsOK, ViewPCs, OwnerPCs, ProofPCs, SettlementPCs
<1>2. view[r] = txn[req[r].intent] /\ txn[req[r].intent] # NoTxn
  BY <1>1 DEF VersionMatches, Fresh, Txn
<1> QED BY <1>1, <1>2 DEF Inv, TypeOK, RecordOK

\* The step of Update that stores the record and goes on.
LEMMA GotoType ==
    ASSUME TypeOK, NEW r \in Requests, NEW after \in PCs, NEW next \in Transactions,
           Goto(r, after), view' = [view EXCEPT ![r] = next],
           UNCHANGED <<req, payer, result>>
    PROVE  /\ HandlersOK'
           /\ pc'[r] = after /\ view'[r] = next /\ OthersUntouched(r)
BY DEF TypeOK, HandlersOK, Goto, OthersUntouched

\* Reopening binds the transaction to the body of the request that reopened it;
\* nothing has happened at the seller.
LEMMA PrepareRetryOK ==
    ASSUME Inv, NEW r \in Requests, PrepareRetry(r)
    PROVE  Inv'
<1> DEFINE i == req[r].intent
           t == PrepareFulfillmentRetry(view[r], req[r].body)
<1>0. pc[r] = "prepareRetry" /\ UNCHANGED <<claims, chain, world>>
  BY DEF PrepareRetry
<1>1. CASE Return(r) /\ UNCHANGED txn
  BY <1>0, <1>1, ReturnStep DEF Inv, TypeOK
<1>2. CASE ~(Return(r) /\ UNCHANGED txn)
  <2>1. /\ CanRetryFulfillment(view[r]) /\ VersionMatches(r)
        /\ txn' = [txn EXCEPT ![i] = Restore(t)]
        /\ view' = [view EXCEPT ![r] = t]
        /\ Goto(r, "claim")
        /\ UNCHANGED <<req, payer, result>>
    BY <1>2 DEF PrepareRetry, Update
  <2>2. /\ TypeOK /\ RequestOK(r) /\ i \in Intents /\ view[r] \in Transactions
        /\ view[r] = txn[i] /\ txn[i] # NoTxn /\ StoredOK(i, view[r])
        /\ req[r].body \in Bodies
    BY <1>0, <2>1, UpdateContext DEF ViewPCs, RequestOK, ParamsOK
  <2>3. t \in Transactions
    BY <2>2, PrepareRetryType
  <2>4. /\ t.status = "PAYMENT_VERIFIED"
        /\ t.version = view[r].version + 1
        /\ t.paymentIdentifier = view[r].paymentIdentifier
        /\ t.paymentProofHash = view[r].paymentProofHash
        /\ t.paymentFinality = view[r].paymentFinality
        /\ t.fulfillmentAttempts = view[r].fulfillmentAttempts
        /\ t.recoveryRequestBody = req[r].body
        /\ t.upstreamStatus = None
    BY <2>2 DEF PrepareFulfillmentRetry, Transactions
  <2>5. Restore(t) = t
    BY <2>4 DEF Restore
  <2> HIDE DEF t
  <2>6. StoredOK(i, t)
    <3>1. /\ view[r].status = "FAILED" /\ view[r].paymentFinality = "finalized"
          /\ view[r].fulfillmentAttempts = 1 /\ view[r].retrySafe
      BY <2>1 DEF CanRetryFulfillment
    <3>2. /\ effects[i] = 0 /\ dispatches[i] <= 1 /\ view[r].paymentIdentifier # None
          /\ view[r].paymentIdentifier \in PaymentIds
          /\ Settled(view[r].paymentIdentifier)
      BY <2>2, <3>1 DEF StoredOK
    <3>3. ClaimedOK(i, t)
      BY <2>2, <2>4 DEF StoredOK, ClaimedOK
    <3> QED BY <2>4, <3>1, <3>2, <3>3, StatusAssumption
        DEF StoredOK, UpstreamStatuses
  <2>7. "claim" \in PCs
    BY DEF PCs
  <2>8. /\ HandlersOK'
        /\ pc'[r] = "claim" /\ view'[r] = t /\ OthersUntouched(r)
    BY <2>1, <2>2, <2>3, <2>7, GotoType
  <2>9. RequestOK(r)'
    <3>1. txn'[i] = t /\ t.version \in Nat /\ t # NoTxn
      BY <2>1, <2>2, <2>3, <2>5, CheckoutAssumption DEF TypeOK, Transactions
    <3>2. ParamsOK(r)'
      BY <1>0, <2>1, <2>2, <2>4, <2>8 DEF RequestOK, ParamsOK, ProofPCs, FirstPCs,
         SettlementPCs
    <3>3. ClaimedOK(i, t)
      BY <2>6 DEF StoredOK
    <3> QED BY <1>0, <2>1, <2>8, <3>1, <3>2, <3>3 DEF RequestOK, SettlementOK, OwnerOK,
            SettlementPCs, OwnerPCs, Fresh, Txn, ClaimedOK
  <2>10. view[r].status = "FAILED"
    BY <2>1 DEF CanRetryFulfillment
  <2>11. pc'[r] \notin OwnerPCs
    BY <2>8 DEF OwnerPCs
  <2> QED BY <1>0, <2>1, <2>2, <2>3, <2>4, <2>5, <2>6, <2>8, <2>9, <2>10, <2>11,
             AppliedUpdate
<1> QED BY <1>1, <1>2

\* A finalized payment has settled.
LEMMA FinalizeOK ==
    ASSUME Inv, NEW r \in Requests, Finalize(r)
    PROVE  Inv'
<1> DEFINE i == req[r].intent
           t == FinalizePayment(view[r])
<1>0. pc[r] = "finalize" /\ UNCHANGED <<claims, chain, world>>
  BY DEF Finalize
<1>1. CASE Return(r) /\ UNCHANGED txn
  BY <1>0, <1>1, ReturnStep DEF Inv, TypeOK
<1>2. CASE ~(Return(r) /\ UNCHANGED txn)
  <2>1. /\ CanFinalizePayment(view[r], PaymentIdOf[req[r].proof]) /\ VersionMatches(r)
        /\ txn' = [txn EXCEPT ![i] = Restore(t)]
        /\ view' = [view EXCEPT ![r] = t]
        /\ Goto(r, "claim")
        /\ UNCHANGED <<req, payer, result>>
    BY <1>2 DEF Finalize, Update
  <2>2. /\ TypeOK /\ RequestOK(r) /\ i \in Intents /\ view[r] \in Transactions
        /\ view[r] = txn[i] /\ txn[i] # NoTxn /\ StoredOK(i, view[r])
    BY <1>0, <2>1, UpdateContext DEF ViewPCs, ProofPCs, SettlementPCs
  <2>3. t \in Transactions
    BY <2>2, FinalizePaymentType
  <2>4. /\ view[r].status = "PAYMENT_VERIFIED"
        /\ t.status = "PAYMENT_VERIFIED"
        /\ t.paymentFinality = "finalized"
        /\ t.version = view[r].version + 1
        /\ t.paymentIdentifier = view[r].paymentIdentifier
        /\ t.paymentProofHash = view[r].paymentProofHash
        /\ t.fulfillmentAttempts = view[r].fulfillmentAttempts
        /\ t.upstreamStatus = view[r].upstreamStatus
    BY <2>1, <2>2 DEF FinalizePayment, Transactions, CanFinalizePayment,
       AwaitsSettlement
  <2>5. Restore(t) = t
    BY <2>4 DEF Restore
  <2> HIDE DEF t
  <2>6. StoredOK(i, t)
    <3>1. /\ view[r].paymentIdentifier \in PaymentIds
          /\ Settled(view[r].paymentIdentifier)
      BY <1>0, <2>2, CheckoutAssumption DEF RequestOK, SettlementOK, SettlementPCs,
         ParamsOK, ProofPCs
    <3> QED BY <2>2, <2>4, <3>1 DEF StoredOK, ClaimedOK
  <2>7. "claim" \in PCs
    BY DEF PCs
  <2>8. /\ HandlersOK'
        /\ pc'[r] = "claim" /\ view'[r] = t /\ OthersUntouched(r)
    BY <2>1, <2>2, <2>3, <2>7, GotoType
  <2>9. RequestOK(r)'
    <3>1. txn'[i] = t /\ t.version \in Nat /\ t # NoTxn
      BY <2>1, <2>2, <2>3, <2>5, CheckoutAssumption DEF TypeOK, Transactions
    <3>2. ParamsOK(r)'
      BY <1>0, <2>1, <2>2, <2>8 DEF RequestOK, ParamsOK, ProofPCs, FirstPCs,
         SettlementPCs
    <3>3. ClaimedOK(i, t)
      BY <2>6 DEF StoredOK
    <3> QED BY <1>0, <2>1, <2>8, <3>1, <3>2, <3>3 DEF RequestOK, SettlementOK, OwnerOK,
            SettlementPCs, OwnerPCs, Fresh, Txn, ClaimedOK
  <2>10. pc'[r] \notin OwnerPCs
    BY <2>8 DEF OwnerPCs
  <2> QED BY <1>0, <2>1, <2>2, <2>3, <2>4, <2>5, <2>6, <2>8, <2>9, <2>10, AppliedUpdate
<1> QED BY <1>1, <1>2

\* The update that ends a request, applied to a record it may write.
LEMMA LastUpdate ==
    ASSUME Inv, NEW r \in Requests, NEW t \in Transactions,
           pc[r] \in ViewPCs, VersionMatches(r), Return(r),
           txn' = [txn EXCEPT ![req[r].intent] = t], UNCHANGED <<claims, chain, world>>,
           t.version = view[r].version + 1,
           t.paymentIdentifier = view[r].paymentIdentifier,
           view[r].status # "FORWARDED" \/ pc[r] \in OwnerPCs,
           StoredOK(req[r].intent, t)
    PROVE  Inv'
<1> DEFINE i == req[r].intent
<1>1. i \in Intents /\ view[r] = txn[i] /\ txn[i] # NoTxn
  BY UpdateContext
<1>2. pc'[r] \notin OwnerPCs
  BY ReturnOK DEF OwnerPCs
<1> QED BY <1>1, <1>2, ReturnOK, AppliedUpdate

\* A payment fails only when its facilitator refused it.
LEMMA RejectPaymentOK ==
    ASSUME Inv, NEW r \in Requests, RejectPayment(r)
    PROVE  Inv'
<1> DEFINE i == req[r].intent
           u == FailPayment(view[r], "settlement_rejected")
           t == Restore(u)
<1>0. /\ pc[r] = "failPayment" /\ Return(r) /\ UNCHANGED <<claims, chain, world>>
      /\ pc[r] \in ViewPCs
  BY DEF RejectPayment, UpdateAndReturn, ViewPCs, ProofPCs, SettlementPCs
<1>1. CASE UNCHANGED txn
  BY <1>0, <1>1, ReturnStep DEF Inv, TypeOK
<1>2. CASE ~UNCHANGED txn
  <2>1. /\ CanFailPayment(view[r]) /\ VersionMatches(r)
        /\ txn' = [txn EXCEPT ![i] = t]
    BY <1>2 DEF RejectPayment, UpdateAndReturn
  <2>2. /\ RequestOK(r) /\ view[r] \in Transactions /\ StoredOK(i, view[r])
    BY <1>0, <2>1, UpdateContext
  <2>3. u \in Transactions
    BY <2>2, FailPaymentType DEF FailureCodes
  <2>4. /\ view[r].status = "PAYMENT_VERIFIED"
        /\ view[r].paymentFinality = "confirmed"
        /\ u.status = "FAILED"
        /\ u.paymentFinality = "failed"
        /\ u.version = view[r].version + 1
        /\ u.paymentIdentifier = view[r].paymentIdentifier
        /\ u.paymentProofHash = view[r].paymentProofHash
        /\ u.fulfillmentAttempts = view[r].fulfillmentAttempts
        /\ u.fulfillmentAttempts \in Nat
        /\ u.upstreamStatus = view[r].upstreamStatus
    BY <2>1, <2>2 DEF FailPayment, transition, Transactions, CanFailPayment,
       AwaitsSettlement
  <2> HIDE DEF u
  <2>5. /\ t \in Transactions
        /\ t.status = u.status
        /\ t.paymentFinality = u.paymentFinality
        /\ t.version = u.version
        /\ t.paymentIdentifier = u.paymentIdentifier
        /\ t.paymentProofHash = u.paymentProofHash
        /\ t.upstreamStatus = u.upstreamStatus
        /\ t.fulfillmentAttempts =
             IF view[r].fulfillmentAttempts = 0 THEN 1 ELSE view[r].fulfillmentAttempts
    BY <2>3, <2>4, RestoreType DEF Restore, Transactions
  <2> HIDE DEF t
  <2>6. StoredOK(i, t)
    <3>1. "refuses_settled" \notin Quirks =>
             /\ view[r].paymentIdentifier \in PaymentIds
             /\ ledger[view[r].paymentIdentifier] = "refused"
      BY <1>0, <2>2, CheckoutAssumption DEF RequestOK, SettlementOK, SettlementPCs,
         ParamsOK, ProofPCs
    <3>2. effects[i] = 0 /\ dispatches[i] \in Nat /\ dispatches[i] = 0
      BY <1>0, <2>1, <2>2, <2>4, UpdateContext DEF StoredOK, TypeOK
    <3> QED BY <2>2, <2>4, <2>5, <3>1, <3>2 DEF StoredOK, ClaimedOK
  <2> QED BY <1>0, <2>1, <2>4, <2>5, <2>6, LastUpdate
<1> QED BY <1>1, <1>2

\* A review changes the failure code alone.
LEMMA ReviewOK ==
    ASSUME Inv, NEW r \in Requests, Review(r)
    PROVE  Inv'
<1> DEFINE i == req[r].intent
           t == RequirePaymentReview(view[r], "settlement_payer_mismatch")
<1>0. /\ pc[r] = "review" /\ Return(r) /\ UNCHANGED <<claims, chain, world>>
      /\ pc[r] \in ViewPCs
  BY DEF Review, UpdateAndReturn, ViewPCs, ProofPCs, SettlementPCs
<1>1. CASE UNCHANGED txn
  BY <1>0, <1>1, ReturnStep DEF Inv, TypeOK
<1>2. CASE ~UNCHANGED txn
  <2>1. /\ CanRequirePaymentReview(view[r]) /\ VersionMatches(r)
        /\ txn' = [txn EXCEPT ![i] = Restore(t)]
    BY <1>2 DEF Review, UpdateAndReturn
  <2>2. view[r] \in Transactions /\ StoredOK(i, view[r])
    BY <1>0, <2>1, UpdateContext
  <2>3. t \in Transactions
    BY <2>2, RequirePaymentReviewType DEF FailureCodes
  <2>4. /\ view[r].status = "PAYMENT_VERIFIED"
        /\ t.status = view[r].status
        /\ t.paymentFinality = view[r].paymentFinality
        /\ t.version = view[r].version + 1
        /\ t.paymentIdentifier = view[r].paymentIdentifier
        /\ t.paymentProofHash = view[r].paymentProofHash
        /\ t.fulfillmentAttempts = view[r].fulfillmentAttempts
        /\ t.upstreamStatus = view[r].upstreamStatus
    BY <2>1, <2>2 DEF RequirePaymentReview, Transactions, CanRequirePaymentReview,
       AwaitsSettlement
  <2>5. Restore(t) = t
    BY <2>4 DEF Restore
  <2> HIDE DEF t
  <2>6. StoredOK(i, t)
    BY <2>2, <2>4 DEF StoredOK, ClaimedOK
  <2> QED BY <1>0, <2>1, <2>3, <2>4, <2>5, <2>6, LastUpdate
<1> QED BY <1>1, <1>2

\* The record of a failed delivery, by whatever call it failed: it is retryable
\* only if nothing happened at the seller.
LEMMA FailedDelivery ==
    ASSUME NEW i \in Intents, NEW t \in Transactions, StoredOK(i, t), TypeOK,
           t.status = "FORWARDED", dispatches[i] <= t.fulfillmentAttempts,
           t.fulfillmentAttempts # 0,
           NEW code \in FailureCodes, NEW upstream \in UpstreamStatuses \cup {None},
           upstream # "2xx", NEW safe \in BOOLEAN, safe => effects[i] = 0
    PROVE  LET u == MarkFailedWithRecovery(t, code, upstream, safe) IN
           /\ Restore(u) \in Transactions
           /\ Restore(u).version = t.version + 1
           /\ Restore(u).paymentIdentifier = t.paymentIdentifier
           /\ StoredOK(i, Restore(u))
<1> DEFINE u == MarkFailedWithRecovery(t, code, upstream, safe)
<1>1. u \in Transactions
  BY MarkFailedType
<1>2. /\ u.status = "FAILED"
      /\ u.version = t.version + 1
      /\ u.paymentFinality = t.paymentFinality
      /\ u.paymentIdentifier = t.paymentIdentifier
      /\ u.paymentProofHash = t.paymentProofHash
      /\ u.fulfillmentAttempts = t.fulfillmentAttempts
      /\ u.upstreamStatus = IF upstream = None THEN t.upstreamStatus ELSE upstream
  BY DEF MarkFailedWithRecovery, transition, Transactions
<1>3. u.retrySafe => safe
  BY DEF MarkFailedWithRecovery, transition, Transactions
<1> HIDE DEF u
<1>4. Restore(u) = u
  BY <1>2 DEF Restore
<1>5. StoredOK(i, u)
  BY <1>2, <1>3 DEF StoredOK, ClaimedOK
<1> QED BY <1>1, <1>2, <1>4, <1>5 DEF u

\* Giving up before the dispatch: the seller was not called.
LEMMA FailBeforeDispatchOK ==
    ASSUME Inv, NEW r \in Requests, FailBeforeDispatch(r)
    PROVE  Inv'
<1> DEFINE i == req[r].intent
           t == Restore(MarkFailedWithRecovery(view[r], result[r].code, None, TRUE))
<1>0. /\ pc[r] = "failBefore" /\ Return(r) /\ UNCHANGED <<claims, chain, world>>
      /\ pc[r] \in ViewPCs /\ pc[r] \in OwnerPCs /\ pc[r] \in PrePCs
  BY DEF FailBeforeDispatch, UpdateAndReturn, ViewPCs, OwnerPCs, PrePCs
<1>1. CASE UNCHANGED txn
  BY <1>0, <1>1, ReturnStep DEF Inv, TypeOK
<1>2. CASE ~UNCHANGED txn
  <2>1. VersionMatches(r) /\ txn' = [txn EXCEPT ![i] = t]
    BY <1>2 DEF FailBeforeDispatch, UpdateAndReturn
  <2>2. /\ TypeOK /\ RequestOK(r) /\ i \in Intents /\ view[r] \in Transactions
        /\ StoredOK(i, view[r])
    BY <1>0, <2>1, UpdateContext
  <2>3. /\ view[r].status = "FORWARDED" /\ effects[i] = 0
        /\ dispatches[i] < view[r].fulfillmentAttempts
    BY <1>0, <2>2 DEF RequestOK, OwnerOK
  <2>4. /\ dispatches[i] \in Nat /\ view[r].fulfillmentAttempts \in Nat
        /\ result[r].code \in FailureCodes
    BY <2>2 DEF TypeOK, Transactions, Results
  <2>5. dispatches[i] <= view[r].fulfillmentAttempts /\ view[r].fulfillmentAttempts # 0
    BY <2>3, <2>4
  <2>6. /\ t \in Transactions /\ t.version = view[r].version + 1
        /\ t.paymentIdentifier = view[r].paymentIdentifier /\ StoredOK(i, t)
    <3>1. /\ None \in UpstreamStatuses \cup {None}
          /\ TRUE \in BOOLEAN
          /\ None # "2xx"
      BY StatusAssumption DEF UpstreamStatuses
    <3> QED BY <2>2, <2>3, <2>4, <2>5, <3>1, FailedDelivery
  <2> QED BY <1>0, <2>1, <2>6, LastUpdate
<1> QED BY <1>1, <1>2

\* The stored outcome of a delivery is retryable only if the seller says that
\* nothing happened.
LEMMA SaveOutcomeOK ==
    ASSUME Inv, NEW r \in Requests, SaveOutcome(r)
    PROVE  Inv'
<1> DEFINE i == req[r].intent
           u == Outcome(view[r], result[r])
           t == Restore(u)
<1>0. /\ pc[r] = "saveOutcome" /\ UNCHANGED <<claims, chain, world>>
      /\ pc[r] \in ViewPCs /\ pc[r] \in OwnerPCs
  BY DEF SaveOutcome, ViewPCs, OwnerPCs
<1>1. CASE Return(r) /\ UNCHANGED txn
  BY <1>0, <1>1, ReturnStep DEF Inv, TypeOK
<1>2. CASE ~(Return(r) /\ UNCHANGED txn)
  <2>1. /\ VersionMatches(r)
        /\ txn' = [txn EXCEPT ![i] = t]
        /\ view' = [view EXCEPT ![r] = u]
        /\ Goto(r, "recordDelivery")
        /\ UNCHANGED <<req, payer, result>>
    BY <1>2 DEF SaveOutcome, Update
  <2>2. /\ TypeOK /\ RequestOK(r) /\ i \in Intents /\ view[r] \in Transactions
        /\ view[r] = txn[i] /\ txn[i] # NoTxn /\ StoredOK(i, view[r])
    BY <1>0, <2>1, UpdateContext
  <2>3. /\ view[r].status = "FORWARDED"
        /\ result[r].retrySafe => effects[i] = 0
        /\ result[r].status = "2xx" => effects[i] = 1
        /\ dispatches[i] \in Nat /\ view[r].fulfillmentAttempts \in Nat
        /\ dispatches[i] <= view[r].fulfillmentAttempts
        /\ view[r].fulfillmentAttempts # 0
        /\ result[r].code \in FailureCodes
        /\ result[r].status \in UpstreamStatuses \cup {None}
        /\ result[r].retrySafe \in BOOLEAN
    BY <1>0, <2>2 DEF RequestOK, OwnerOK, StoredOK, TypeOK, Transactions, Results
  <2>4. /\ u \in Transactions /\ t \in Transactions
        /\ t.version = view[r].version + 1
        /\ t.paymentIdentifier = view[r].paymentIdentifier
        /\ StoredOK(i, t)
    <3>1. CASE result[r].status = "2xx"
      <4>1. u = MarkFulfilled(view[r])
        BY <3>1 DEF Outcome
      <4>2. u \in Transactions
        BY <2>2, <4>1, MarkFulfilledType
      <4>3. /\ u.status = "FULFILLED"
            /\ u.version = view[r].version + 1
            /\ u.paymentFinality = view[r].paymentFinality
            /\ u.paymentIdentifier = view[r].paymentIdentifier
            /\ u.paymentProofHash = view[r].paymentProofHash
            /\ u.fulfillmentAttempts = view[r].fulfillmentAttempts
            /\ u.upstreamStatus = "2xx"
        BY <2>2, <4>1 DEF MarkFulfilled, transition, Transactions
      <4> HIDE DEF u
      <4>4. t = u
        BY <2>3, <4>3 DEF Restore
      <4>5. StoredOK(i, u)
        BY <2>2, <2>3, <3>1, <4>3 DEF StoredOK, ClaimedOK
      <4> QED BY <4>2, <4>3, <4>4, <4>5
    <3>2. CASE result[r].status # "2xx"
      <4>1. u = MarkFailedWithRecovery(view[r], result[r].code, result[r].status,
                                       result[r].retrySafe)
        BY <3>2 DEF Outcome
      <4> QED BY <2>2, <2>3, <3>2, <4>1, FailedDelivery, MarkFailedType
    <3> QED BY <3>1, <3>2
  <2> HIDE DEF t, u
  <2>5. "recordDelivery" \in PCs
    BY DEF PCs
  <2>6. /\ HandlersOK'
        /\ pc'[r] = "recordDelivery" /\ OthersUntouched(r)
    BY <2>1, <2>2, <2>4, <2>5, GotoType
  <2>7. RequestOK(r)' /\ pc'[r] \notin OwnerPCs
    BY <1>0, <2>1, <2>2, <2>6 DEF RequestOK, ParamsOK, SettlementOK, OwnerOK, FirstPCs,
       ViewPCs, ProofPCs, SettlementPCs, OwnerPCs
  <2> QED BY <1>0, <2>1, <2>2, <2>4, <2>6, <2>7, AppliedUpdate
<1> QED BY <1>1, <1>2

\* A new payment is claimed by the transaction that records it, and by no other.
LEMMA SaveVerifiedOK ==
    ASSUME Inv, NEW r \in Requests, SaveVerified(r)
    PROVE  Inv'
<1> PICK i : i = req[r].intent
  OBVIOUS
<1> PICK id : id = PaymentIdOf[req[r].proof]
  OBVIOUS
<1> PICK t : t = VerifyPayment(view[r], id, req[r].proof)
  OBVIOUS
<1>0. /\ pc[r] = "saveVerified" /\ UNCHANGED <<chain, world>> /\ pc[r] \in ViewPCs
      /\ pc[r] \in ProofPCs
  BY DEF SaveVerified, ViewPCs, ProofPCs
<1>1. CASE Return(r) /\ UNCHANGED <<txn, claims>>
  BY <1>0, <1>1, ReturnStep DEF Inv, TypeOK
<1>2. CASE ~(Return(r) /\ UNCHANGED <<txn, claims>>)
  <2>1. /\ CanVerifyPayment(view[r]) /\ VersionMatches(r) /\ claims[id] = None
        /\ txn' = [txn EXCEPT ![i] = t]
        /\ claims' = [claims EXCEPT ![id] = i]
        /\ view' = [view EXCEPT ![r] = t]
        /\ Goto(r, "recordVerification")
        /\ UNCHANGED <<req, payer, result>>
    BY <1>2 DEF SaveVerified
  <2>2. /\ TypeOK /\ RequestOK(r) /\ i \in Intents /\ view[r] \in Transactions
        /\ view[r] = txn[i] /\ txn[i] # NoTxn /\ StoredOK(i, view[r])
    BY <1>0, <2>1, UpdateContext
  <2>3. req[r].proof \in Proofs /\ id \in PaymentIds
    BY <1>0, <2>2, CheckoutAssumption DEF RequestOK, ParamsOK
  <2>4. t \in Transactions
    BY <2>2, <2>3, VerifyPaymentType
  <2>5. view[r].status = "PAYMENT_REQUIRED"
    BY <2>1 DEF CanVerifyPayment, CanTransition, allowedTransition
  <2>6. /\ t.status = "PAYMENT_VERIFIED"
        /\ t.paymentFinality = "confirmed"
        /\ t.version = view[r].version + 1
        /\ t.paymentIdentifier = id
        /\ t.paymentProofHash = req[r].proof
        /\ t.fulfillmentAttempts = view[r].fulfillmentAttempts
        /\ t.upstreamStatus = view[r].upstreamStatus
    BY <2>2 DEF VerifyPayment, transition, Transactions
  <2>7. "recordVerification" \in PCs
    BY DEF PCs
  <2>8. /\ HandlersOK'
        /\ pc'[r] = "recordVerification" /\ view'[r] = t /\ OthersUntouched(r)
    BY <2>1, <2>2, <2>4, <2>7, GotoType
  <2>9. TypeOK'
    BY <1>0, <2>1, <2>2, <2>3, <2>4, <2>8 DEF TypeOK, HandlersOK, world
  <2>10. FactsPersist
    BY <1>0, <2>1, <2>2, <2>3 DEF FactsPersist, Settled, TypeOK, world
  <2>11. /\ claims'[id] = i /\ txn'[i] = t
         /\ \A x \in PaymentIds \ {id} : claims'[x] = claims[x]
         /\ \A j \in Intents \ {i} : txn'[j] = txn[j]
         /\ t # NoTxn /\ t.version \in Nat
    <3>1. t # NoTxn /\ t.version \in Nat
      BY <2>4, CheckoutAssumption DEF Transactions
    <3>2. claims'[id] = i /\ \A x \in PaymentIds \ {id} : claims'[x] = claims[x]
      BY <2>1, <2>2, <2>3 DEF TypeOK
    <3>3. txn'[i] = t /\ \A j \in Intents \ {i} : txn'[j] = txn[j]
      BY <2>1, <2>2 DEF TypeOK
    <3> QED BY <3>1, <3>2, <3>3
  <2>12. ASSUME NEW x \in PaymentIds PROVE PaymentOK(x)'
    <3>1. PaymentOK(x) /\ claims[x] \in Intents \cup {None}
      BY <2>2 DEF Inv, TypeOK
    <3>2. CASE x = id
      BY <2>2, <2>6, <2>11, <3>2, CheckoutAssumption DEF PaymentOK
    <3>3. CASE x # id
      <4>1. claims[x] # i
        BY <2>2, <2>5, <3>1, NoneAssumption, CheckoutAssumption DEF PaymentOK, StoredOK
      <4>2. ledger' = ledger
        BY <1>0 DEF world
      <4> QED BY <2>11, <3>1, <3>3, <4>1, <4>2 DEF PaymentOK, Settled
    <3> QED BY <3>2, <3>3
  <2>13. StoredOK(i, t)'
    <3>1. /\ dispatches[i] = 0 /\ effects[i] = 0 /\ view[r].fulfillmentAttempts = 0
          /\ view[r].upstreamStatus # "2xx"
      BY <2>2, <2>5 DEF StoredOK, TypeOK
    <3> QED BY <1>0, <2>3, <2>6, <2>11, <3>1, NoneAssumption
            DEF StoredOK, ClaimedOK, world
  <2>14. RequestOK(r)'
    <3>1. ParamsOK(r)'
      BY <1>0, <2>1, <2>2, <2>3, <2>8 DEF RequestOK, ParamsOK, FirstPCs, ProofPCs,
         SettlementPCs
    <3>2. Fresh(r)'
      BY <2>1, <2>8, <2>11 DEF Fresh, Txn
    <3>3. ClaimedOK(req[r].intent, view[r])'
      BY <2>1, <2>3, <2>6, <2>8, <2>11 DEF ClaimedOK
    <3>4. SettlementOK(r)'
      BY <2>1, <2>6, <2>8, <2>11 DEF SettlementOK, SettlementPCs
    <3>5. OwnerOK(r)'
      BY <2>8 DEF OwnerOK, OwnerPCs
    <3> QED BY <3>1, <3>2, <3>3, <3>4, <3>5 DEF RequestOK
  <2>15. /\ t.version > txn[i].version
         /\ effects[i] <= 1
         /\ pc'[r] \notin OwnerPCs
    BY <2>2, <2>5, <2>6, <2>8 DEF Transactions, OwnerPCs, Inv, RecordOK
  <2>16. \A q \in Requests \ {r} : pc[q] \in OwnerPCs => req[q].intent # i
    BY <2>2, <2>5, NoOtherOwner
  <2> QED BY <1>0, <2>1, <2>2, <2>4, <2>8, <2>9, <2>10, <2>12, <2>13, <2>14, <2>15, <2>16,
             WriteStep DEF world
<1> QED BY <1>1, <1>2

\* A new transaction has no payment, no attempt and no effect.
LEMMA CreateOK ==
    ASSUME Inv, NEW r \in Requests, Create(r)
    PROVE  Inv'
<1> PICK i : i = req[r].intent
  OBVIOUS
<1> PICK t : t = FirstTransaction(i)
  OBVIOUS
<1>0. /\ pc[r] = "create" /\ TypeOK /\ RequestOK(r) /\ i \in Intents
      /\ UNCHANGED <<claims, chain, world, req, payer, result>>
  BY DEF Create, Inv, RequestOK, ParamsOK
<1>1. CASE txn[i] # NoTxn
  <2>1. pc' = [pc EXCEPT ![r] = "load"] /\ UNCHANGED <<txn, view>>
    BY <1>1 DEF Create, Goto
  <2>2. TypeOK' /\ OthersUntouched(r) /\ pc'[r] = "load"
    BY <1>0, <2>1 DEF TypeOK, PCs, world, OthersUntouched
  <2>3. RequestOK(r)' /\ pc'[r] \notin OwnerPCs
    BY <1>0, <2>2 DEF RequestOK, ParamsOK, SettlementOK, OwnerOK, FirstPCs, ViewPCs,
       ProofPCs, SettlementPCs, OwnerPCs
  <2> QED BY <1>0, <2>1, <2>2, <2>3, LocalStep DEF world
<1>2. CASE txn[i] = NoTxn
  <2>1. /\ txn' = [txn EXCEPT ![i] = t]
        /\ view' = [view EXCEPT ![r] = t]
        /\ Goto(r, "recordChallenge")
    BY <1>2 DEF Create
  <2>2. t \in Transactions
    BY <1>0, FirstTransactionType
  <2>3. /\ t.status = "PAYMENT_REQUIRED"
        /\ t.paymentIdentifier = None
        /\ t.paymentFinality = "none"
        /\ t.fulfillmentAttempts = 0
        /\ t.upstreamStatus = None
    BY DEF FirstTransaction, RequirePayment, MarkApproved, RequireApproval,
           NewTransaction, transition
  <2>4. "recordChallenge" \in PCs
    BY DEF PCs
  <2>5. /\ HandlersOK'
        /\ pc'[r] = "recordChallenge" /\ view'[r] = t /\ OthersUntouched(r)
    BY <1>0, <2>1, <2>2, <2>4, GotoType
  <2>6. TypeOK' /\ FactsPersist
    BY <1>0, <2>1, <2>2, <2>5 DEF TypeOK, HandlersOK, FactsPersist, Settled, world
  <2>7. /\ txn'[i] = t /\ t # NoTxn /\ t.version \in Nat
        /\ \A j \in Intents \ {i} : txn'[j] = txn[j]
    BY <1>0, <2>1, <2>2, CheckoutAssumption DEF TypeOK, Transactions
  <2>8. ASSUME NEW x \in PaymentIds PROVE PaymentOK(x)'
    <3>1. PaymentOK(x) /\ claims[x] \in Intents \cup {None} /\ claims[x] # i
      BY <1>0, <1>2, CheckoutAssumption DEF Inv, TypeOK, PaymentOK
    <3> QED BY <1>0, <2>7, <3>1 DEF PaymentOK, Settled, world
  <2>9. effects[i] = 0 /\ dispatches[i] = 0
    BY <1>0, <1>2 DEF Inv, RecordOK
  <2>10. StoredOK(i, t)'
    BY <1>0, <2>3, <2>9, StatusAssumption
    DEF StoredOK, ClaimedOK, UpstreamStatuses, world
  <2>11. RequestOK(r)' /\ pc'[r] \notin OwnerPCs
    BY <1>0, <2>3, <2>5, <2>7 DEF RequestOK, ParamsOK, SettlementOK, OwnerOK, FirstPCs,
       ProofPCs, SettlementPCs, OwnerPCs, Fresh, Txn, ClaimedOK
  <2>12. \A q \in Requests \ {r} : pc[q] \in OwnerPCs => req[q].intent # i
    BY <1>2 DEF Inv, RequestOK, Fresh, Txn, ViewPCs
  <2>13. effects[i] <= 1 /\ UNCHANGED <<ledger, dispatches, effects>>
    BY <1>0, <2>9 DEF world
  <2> QED BY <1>0, <1>2, <2>1, <2>2, <2>5, <2>6, <2>8, <2>10, <2>11, <2>12, <2>13,
             WriteStep
<1> QED BY <1>1, <1>2

\* The one claim of a delivery: a request owns it, with the body it is bound to,
\* and nothing has happened at the seller.
LEMMA ClaimOK ==
    ASSUME Inv, NEW r \in Requests, Claim(r)
    PROVE  Inv'
<1> DEFINE i == req[r].intent
           t == MarkForwarded(txn[i])
<1>0. pc[r] = "claim" /\ UNCHANGED <<claims, chain, world>> /\ pc[r] \in ViewPCs
  BY DEF Claim, ViewPCs
<1>1. CASE Return(r) /\ UNCHANGED txn
  BY <1>0, <1>1, ReturnStep DEF Inv, TypeOK
<1>2. CASE ~(Return(r) /\ UNCHANGED txn)
  <2>1. /\ BodyAllowed(r) /\ VersionMatches(r) /\ CanMarkForwarded(txn[i])
        /\ txn' = [txn EXCEPT ![i] = t]
        /\ view' = [view EXCEPT ![r] = t]
        /\ Goto(r, "recordForwarding")
        /\ UNCHANGED <<req, payer, result>>
    BY <1>2 DEF Claim
  <2>2. /\ TypeOK /\ RequestOK(r) /\ i \in Intents /\ txn[i] \in Transactions
        /\ view[r] = txn[i] /\ txn[i] # NoTxn /\ StoredOK(i, txn[i])
        /\ req[r].body \in Bodies
    BY <1>0, <2>1, UpdateContext DEF RequestOK, ParamsOK
  <2>3. t \in Transactions
    BY <2>2, MarkForwardedType
  <2>4. /\ txn[i].status = "PAYMENT_VERIFIED"
        /\ txn[i].paymentFinality = "finalized"
        /\ txn[i].fulfillmentAttempts \in Nat
        /\ t.status = "FORWARDED"
        /\ t.paymentFinality = "finalized"
        /\ t.version = txn[i].version + 1
        /\ t.paymentIdentifier = txn[i].paymentIdentifier
        /\ t.paymentProofHash = txn[i].paymentProofHash
        /\ t.recoveryRequestBody = txn[i].recoveryRequestBody
        /\ t.fulfillmentAttempts = txn[i].fulfillmentAttempts + 1
        /\ t.upstreamStatus = txn[i].upstreamStatus
    BY <2>1, <2>2 DEF CanMarkForwarded, MarkForwarded, transition, Transactions
  <2> HIDE DEF t
  <2>5. StoredOK(i, t) /\ effects[i] = 0 /\ dispatches[i] <= txn[i].fulfillmentAttempts
    BY <2>2, <2>4 DEF StoredOK, ClaimedOK, TypeOK
  <2>6. "recordForwarding" \in PCs
    BY DEF PCs, OwnerPCs
  <2>7. /\ HandlersOK'
        /\ pc'[r] = "recordForwarding" /\ view'[r] = t /\ OthersUntouched(r)
    BY <2>1, <2>2, <2>3, <2>6, GotoType
  <2>8. req[r].body = BoundBody(t)
    BY <1>0, <2>1, <2>2, <2>4, NoneAssumption DEF BodyAllowed, RequestOK, ParamsOK,
       BoundBody
  <2>9. RequestOK(r)'
    <3>1. txn'[i] = t /\ t.version \in Nat /\ t # NoTxn
      BY <2>1, <2>2, <2>3, CheckoutAssumption DEF TypeOK, Transactions
    <3>2. ParamsOK(r)'
      BY <1>0, <2>1, <2>2, <2>7 DEF RequestOK, ParamsOK, ProofPCs, FirstPCs,
         SettlementPCs
    <3>3. ClaimedOK(i, t)
      BY <2>5 DEF StoredOK
    <3>4. Fresh(r)' /\ ClaimedOK(req[r].intent, view[r])'
      BY <1>0, <2>1, <2>7, <3>1, <3>3 DEF Fresh, Txn, ClaimedOK
    <3>5. dispatches[i] < t.fulfillmentAttempts
      BY <2>2, <2>4, <2>5 DEF TypeOK
    <3>6. OwnerOK(r)'
      BY <1>0, <2>1, <2>4, <2>5, <2>7, <2>8, <3>1, <3>5 DEF OwnerOK, Txn, BoundBody, world
    <3> QED BY <2>7, <3>2, <3>4, <3>6 DEF RequestOK, SettlementOK, SettlementPCs
  <2> QED BY <1>0, <2>1, <2>2, <2>3, <2>4, <2>5, <2>7, <2>9, AppliedUpdate
<1> QED BY <1>1, <1>2

-----------------------------------------------------------------------------
\* The seller

\* What an answer of the seller says of its effect.
LEMMA AnswerOK ==
    ASSUME NEW answer \in SellerAnswers, NEW n \in EffectsOf(answer)
    PROVE  /\ answer \in Results
           /\ n \in {0, 1}
           /\ answer.retrySafe => n = 0
           /\ answer.status = "2xx" => n = 1
<1>1. answer \in Results
  BY DEF SellerAnswers, Results, FailureCodes, TransportCodes, UpstreamStatuses
<1>2. answer.status = "2xx" => ~answer.retrySafe
  BY DEF SellerAnswers
<1>3. n \in {0, 1}
  BY DEF EffectsOf
<1>4. answer.retrySafe => n = 0
  BY <1>2 DEF EffectsOf
<1>5. answer.status = "2xx" => n = 1
  <2>1. answer.status = "2xx" => EffectsOf(answer) = {1}
    BY <1>2 DEF EffectsOf
  <2> QED BY <2>1
<1> QED BY <1>1, <1>3, <1>4, <1>5

\* The owner calls the seller once, for the attempt it has counted.
LEMMA DispatchOK ==
    ASSUME Inv, NEW r \in Requests, Dispatch(r)
    PROVE  Inv'
<1> PICK i : i = req[r].intent
  OBVIOUS
<1>0. /\ pc[r] = "dispatch" /\ TypeOK /\ RequestOK(r) /\ i \in Intents
      /\ pc[r] \in OwnerPCs /\ pc[r] \in PrePCs /\ pc[r] \in ViewPCs
      /\ UNCHANGED <<store, ledger, req, view, payer>>
  BY DEF Dispatch, Inv, RequestOK, ParamsOK, OwnerPCs, PrePCs, ViewPCs
<1>a. PICK answer \in SellerAnswers :
        /\ result' = [result EXCEPT ![r] = answer]
        /\ \E n \in EffectsOf(answer) : effects' = [effects EXCEPT ![i] = @ + n]
  BY DEF Dispatch
<1>1. PICK n \in EffectsOf(answer) :
        /\ result' = [result EXCEPT ![r] = answer]
        /\ effects' = [effects EXCEPT ![i] = @ + n]
  BY <1>a
<1>2. /\ answer \in Results /\ n \in {0, 1} /\ (answer.retrySafe => n = 0)
      /\ answer.status = "2xx" => n = 1
  BY AnswerOK
<1>3. /\ dispatches' = [dispatches EXCEPT ![i] = @ + 1]
      /\ pc' = [pc EXCEPT ![r] = "saveOutcome"]
  BY DEF Dispatch, Goto
<1>4. TypeOK'
  <2>1. "saveOutcome" \in PCs
    BY DEF PCs, OwnerPCs
  <2>2. effects' \in [Intents -> Nat] /\ dispatches' \in [Intents -> Nat]
    BY <1>0, <1>1, <1>2, <1>3 DEF TypeOK
  <2>3. result' \in [Requests -> Results] /\ pc' \in [Requests -> PCs]
    BY <1>0, <1>1, <1>2, <1>3, <2>1 DEF TypeOK
  <2> QED BY <1>0, <2>2, <2>3 DEF TypeOK, store
<1>5. pc'[r] = "saveOutcome" /\ result'[r] = answer /\ OthersUntouched(r)
  BY <1>0, <1>1, <1>3 DEF TypeOK, OthersUntouched
<1>6. /\ view[r] = txn[i] /\ txn[i].status = "FORWARDED" /\ txn[i] # NoTxn
      /\ effects[i] = 0 /\ dispatches[i] < txn[i].fulfillmentAttempts
      /\ StoredOK(i, txn[i])
  BY <1>0 DEF RequestOK, OwnerOK, Fresh, Txn, Inv, RecordOK
<1>7. /\ effects'[i] = n
      /\ dispatches'[i] = dispatches[i] + 1
      /\ \A j \in Intents \ {i} :
           effects'[j] = effects[j] /\ dispatches'[j] = dispatches[j]
  BY <1>0, <1>1, <1>2, <1>3, <1>6 DEF TypeOK
<1>8. StoreAdvances /\ FactsPersist
  BY <1>0 DEF StoreAdvances, FactsPersist, Settled, store
<1>9. OwnersUntouched(r)
  <2>1. \A q \in Requests \ {r} : pc[q] \in OwnerPCs => req[q].intent \in Intents \ {i}
    BY <1>0, NoOtherOwner DEF Inv, RequestOK, ParamsOK, OwnerPCs
  <2> QED BY <1>0, <1>7, <2>1 DEF OwnersUntouched, store
<1>10. RequestOK(r)'
  <2>1. OwnerOK(r)'
    BY <1>0, <1>2, <1>5, <1>6, <1>7 DEF OwnerOK, PrePCs, Txn, store
  <2> QED BY <1>0, <1>5, <2>1 DEF RequestOK, ParamsOK, SettlementOK, FirstPCs, ProofPCs,
          SettlementPCs, Fresh, Txn, ClaimedOK, store
<1>11. \A q \in Requests : RequestOK(q)'
  BY <1>4, <1>5, <1>8, <1>9, <1>10, OthersOK
<1>12. OneOwner'
  BY <1>0, <1>5 DEF Inv, OneOwner, OthersUntouched
<1>13. ASSUME NEW j \in Intents PROVE RecordOK(j)'
  <2>1. CASE j = i
    <3>1. /\ dispatches'[i] <= txn[i].fulfillmentAttempts
          /\ effects'[i] <= 1
      BY <1>0, <1>2, <1>6, <1>7 DEF TypeOK, Transactions
    <3> QED BY <1>0, <1>6, <2>1, <3>1 DEF RecordOK, StoredOK, ClaimedOK, Settled, store
  <2>2. CASE j # i
    <3>1. RecordOK(j)
      BY DEF Inv
    <3> QED BY <1>0, <1>7, <2>2, <3>1 DEF RecordOK, StoredOK, ClaimedOK, Settled, store
  <2> QED BY <2>1, <2>2
<1>14. \A id \in PaymentIds : PaymentOK(id)'
  BY <1>0 DEF Inv, PaymentOK, Settled, store
<1> QED BY <1>4, <1>11, <1>12, <1>13, <1>14 DEF Inv

-----------------------------------------------------------------------------
\* What a request may do to a record that others have written

\* The record t follows the record s.
Advances(s, t) ==
    /\ t \in Transactions
    /\ t.version = s.version + 1
    /\ s.status \in {"PAYMENT_REQUIRED", "PAYMENT_VERIFIED", "FORWARDED", "FAILED"}
    /\ s.paymentIdentifier # None =>
         /\ t.paymentIdentifier = s.paymentIdentifier
         /\ t.paymentProofHash = s.paymentProofHash
    /\ s.paymentFinality \in {"finalized", "failed"} =>
         t.paymentFinality = s.paymentFinality
    /\ s.paymentFinality = "confirmed" => t.paymentFinality # "none"
    /\ t.fulfillmentAttempts >= s.fulfillmentAttempts

\* A write of r makes the record of i follow the stored one, and finalizes its
\* payment only in FinalizePayment.
AdvancesBy(r, i) ==
    /\ Advances(txn[i], txn'[i])
    /\ txn'[i].paymentFinality = "finalized" =>
         \/ txn[i].paymentFinality = "finalized"
         \/ pc[r] = "finalize" /\ req[r].intent = i

\* Restore only ever counts an attempt.
LEMMA RestoreFields ==
    ASSUME NEW t \in Transactions
    PROVE  /\ Restore(t) \in Transactions
           /\ Restore(t).version = t.version
           /\ Restore(t).paymentIdentifier = t.paymentIdentifier
           /\ Restore(t).paymentProofHash = t.paymentProofHash
           /\ Restore(t).paymentFinality = t.paymentFinality
           /\ Restore(t).fulfillmentAttempts >= t.fulfillmentAttempts
BY DEF Restore, Transactions

\* A conditional write replaces the record it was computed from.
LEMMA WrittenAdvances ==
    ASSUME Inv, NEW r \in Requests, pc[r] \in ViewPCs, VersionMatches(r),
           NEW t \in Transactions, txn' = [txn EXCEPT ![req[r].intent] = Restore(t)],
           Advances(view[r], t), NEW i \in Intents,
           t.paymentFinality = "finalized" =>
             view[r].paymentFinality = "finalized" \/ pc[r] = "finalize"
    PROVE  txn'[i] = txn[i] \/ AdvancesBy(r, i)
<1>1. /\ TypeOK /\ req[r].intent \in Intents /\ view[r] \in Transactions
      /\ view[r] = txn[req[r].intent]
  BY UpdateContext
<1>2. view[r].fulfillmentAttempts \in Nat /\ t.fulfillmentAttempts \in Nat
  BY <1>1 DEF Transactions
<1>3. Restore(t).fulfillmentAttempts \in Nat
  BY RestoreFields DEF Transactions
<1>4. Advances(view[r], Restore(t))
  BY <1>2, <1>3, RestoreFields DEF Advances
<1>5. CASE i = req[r].intent
  <2>1. txn'[i] = Restore(t) /\ txn[i] = view[r]
    BY <1>1, <1>5 DEF TypeOK
  <2> QED BY <1>4, <1>5, <2>1, RestoreFields DEF AdvancesBy
<1> QED BY <1>1, <1>5 DEF TypeOK

\* Whatever a request stores follows what was stored.
LEMMA StepAdvances ==
    ASSUME Inv, NEW r \in Requests, BeginSome(r) \/ Step(r) \/ Abort(r),
           NEW i \in Intents, txn[i] # NoTxn
    PROVE  txn'[i] = txn[i] \/ AdvancesBy(r, i)
<1>1. CASE UNCHANGED txn
  BY <1>1
<1>v. ASSUME pc[r] \in ViewPCs, VersionMatches(r)
      PROVE  /\ TypeOK /\ RequestOK(r) /\ req[r].intent \in Intents
             /\ view[r] \in Transactions /\ StoredOK(req[r].intent, view[r])
             /\ view[r] = txn[req[r].intent]
             /\ view[r].fulfillmentAttempts \in Nat
  BY <1>v, UpdateContext DEF Transactions
<1>2. CASE PrepareRetry(r) /\ ~UNCHANGED txn
  <2>1. PICK t : t = PrepareFulfillmentRetry(view[r], req[r].body)
    OBVIOUS
  <2>2. /\ CanRetryFulfillment(view[r]) /\ VersionMatches(r) /\ pc[r] \in ViewPCs
        /\ txn' = [txn EXCEPT ![req[r].intent] = Restore(t)]
    BY <1>2, <2>1 DEF PrepareRetry, Update, ViewPCs
  <2>3. view[r] \in Transactions /\ req[r].body \in Bodies /\ pc[r] = "prepareRetry"
    BY <1>2, <1>v, <2>2 DEF PrepareRetry, RequestOK, ParamsOK
  <2>4. t \in Transactions
    BY <2>1, <2>3, PrepareRetryType
  <2>5. Advances(view[r], t)
    BY <2>1, <2>2, <2>3, <2>4 DEF Advances, CanRetryFulfillment, PrepareFulfillmentRetry,
       Transactions
  <2>6. view[r].paymentFinality = "finalized"
    BY <2>2 DEF CanRetryFulfillment
  <2> QED BY <2>2, <2>4, <2>5, <2>6, WrittenAdvances
<1>3. CASE Create(r) /\ ~UNCHANGED txn
  <2>1. txn[req[r].intent] = NoTxn /\ txn' = [txn EXCEPT ![req[r].intent] = FirstTransaction(req[r].intent)]
    BY <1>3 DEF Create
  <2> QED BY <2>1 DEF Inv, TypeOK
<1>4. CASE SaveVerified(r) /\ ~UNCHANGED txn
  <2>1. PICK id, t : id = PaymentIdOf[req[r].proof] /\ t = VerifyPayment(view[r], id, req[r].proof)
    OBVIOUS
  <2>2. /\ CanVerifyPayment(view[r]) /\ VersionMatches(r) /\ pc[r] \in ViewPCs
        /\ txn' = [txn EXCEPT ![req[r].intent] = t]
    BY <1>4, <2>1 DEF SaveVerified, ViewPCs, ProofPCs
  <2>3. view[r] \in Transactions /\ req[r].proof \in Proofs /\ id \in PaymentIds
    BY <1>4, <1>v, <2>1, <2>2, CheckoutAssumption DEF SaveVerified, RequestOK, ParamsOK, ProofPCs
  <2>4. t \in Transactions
    BY <2>1, <2>3, VerifyPaymentType
  <2>5. view[r].status = "PAYMENT_REQUIRED"
    BY <2>2 DEF CanVerifyPayment, CanTransition, allowedTransition
  <2>6. view[r].paymentIdentifier = None /\ view[r].paymentFinality = "none"
    BY <1>v, <2>2, <2>5 DEF StoredOK
  <2>7. /\ t.version = view[r].version + 1 /\ t.fulfillmentAttempts = view[r].fulfillmentAttempts
        /\ t.status = "PAYMENT_VERIFIED" /\ t.paymentFinality = "confirmed"
    BY <2>1, <2>3 DEF VerifyPayment, transition, Transactions
  <2>8. Advances(view[r], t) /\ Restore(t) = t
    BY <1>v, <2>2, <2>4, <2>5, <2>6, <2>7 DEF Advances, Restore
  <2> QED BY <2>2, <2>4, <2>7, <2>8, WrittenAdvances
<1>5. CASE Finalize(r) /\ ~UNCHANGED txn
  <2>1. PICK t : t = FinalizePayment(view[r])
    OBVIOUS
  <2>2. /\ CanFinalizePayment(view[r], PaymentIdOf[req[r].proof])
        /\ VersionMatches(r) /\ pc[r] \in ViewPCs
        /\ txn' = [txn EXCEPT ![req[r].intent] = Restore(t)]
    BY <1>5, <2>1 DEF Finalize, Update, ViewPCs, ProofPCs, SettlementPCs
  <2>3. t \in Transactions
    BY <1>v, <2>1, <2>2, FinalizePaymentType
  <2>4. Advances(view[r], t)
    BY <1>v, <2>1, <2>2, <2>3 DEF Advances, CanFinalizePayment, AwaitsSettlement,
       FinalizePayment, Transactions
  <2> QED BY <1>5, <2>2, <2>3, <2>4, WrittenAdvances DEF Finalize
<1>6. CASE RejectPayment(r) /\ ~UNCHANGED txn
  <2>1. PICK t : t = FailPayment(view[r], "settlement_rejected")
    OBVIOUS
  <2>2. /\ CanFailPayment(view[r]) /\ VersionMatches(r) /\ pc[r] \in ViewPCs
        /\ txn' = [txn EXCEPT ![req[r].intent] = Restore(t)]
    BY <1>6, <2>1 DEF RejectPayment, UpdateAndReturn, ViewPCs, ProofPCs, SettlementPCs
  <2>3. t \in Transactions
    BY <1>v, <2>1, <2>2, FailPaymentType DEF FailureCodes
  <2>4. Advances(view[r], t)
    BY <1>v, <2>1, <2>2, <2>3 DEF Advances, CanFailPayment, AwaitsSettlement, FailPayment,
       transition, Transactions
  <2>5. t.paymentFinality = "failed"
    BY <1>v, <2>1, <2>2 DEF FailPayment, transition, Transactions
  <2> QED BY <2>2, <2>3, <2>4, <2>5, WrittenAdvances
<1>7. CASE Review(r) /\ ~UNCHANGED txn
  <2>1. PICK t : t = RequirePaymentReview(view[r], "settlement_payer_mismatch")
    OBVIOUS
  <2>2. /\ CanRequirePaymentReview(view[r]) /\ VersionMatches(r) /\ pc[r] \in ViewPCs
        /\ txn' = [txn EXCEPT ![req[r].intent] = Restore(t)]
    BY <1>7, <2>1 DEF Review, UpdateAndReturn, ViewPCs, ProofPCs, SettlementPCs
  <2>3. t \in Transactions
    BY <1>v, <2>1, <2>2, RequirePaymentReviewType DEF FailureCodes
  <2>4. Advances(view[r], t)
    BY <1>v, <2>1, <2>2, <2>3 DEF Advances, CanRequirePaymentReview, AwaitsSettlement,
       RequirePaymentReview, Transactions
  <2>5. t.paymentFinality = view[r].paymentFinality
    BY <1>v, <2>1, <2>2 DEF RequirePaymentReview, Transactions
  <2> QED BY <2>2, <2>3, <2>4, <2>5, WrittenAdvances
<1>8. CASE Claim(r) /\ ~UNCHANGED txn
  <2>1. PICK t : t = MarkForwarded(txn[req[r].intent])
    OBVIOUS
  <2>2. /\ CanMarkForwarded(txn[req[r].intent]) /\ VersionMatches(r) /\ pc[r] \in ViewPCs
        /\ txn' = [txn EXCEPT ![req[r].intent] = t]
    BY <1>8, <2>1 DEF Claim, ViewPCs
  <2>3. t \in Transactions
    BY <1>v, <2>1, <2>2, MarkForwardedType
  <2>4. Advances(view[r], t)
    BY <1>v, <2>1, <2>2, <2>3 DEF Advances, CanMarkForwarded, MarkForwarded, transition,
       Transactions
  <2>5. Restore(t) = t
    BY <1>v, <2>1, <2>2 DEF Restore, MarkForwarded, transition, Transactions
  <2>6. view[r].paymentFinality = "finalized"
    BY <1>v, <2>2 DEF CanMarkForwarded
  <2> QED BY <2>2, <2>3, <2>4, <2>5, <2>6, WrittenAdvances
<1>9. CASE FailBeforeDispatch(r) /\ ~UNCHANGED txn
  <2>1. PICK t : t = MarkFailedWithRecovery(view[r], result[r].code, None, TRUE)
    OBVIOUS
  <2>2. /\ VersionMatches(r) /\ pc[r] \in ViewPCs /\ pc[r] \in OwnerPCs
        /\ txn' = [txn EXCEPT ![req[r].intent] = Restore(t)]
    BY <1>9, <2>1 DEF FailBeforeDispatch, UpdateAndReturn, ViewPCs, OwnerPCs
  <2>3. /\ view[r].status = "FORWARDED" /\ view[r].paymentFinality = "finalized"
        /\ result[r].code \in FailureCodes
    BY <1>v, <2>2 DEF RequestOK, OwnerOK, TypeOK, Results, StoredOK
  <2>4. t \in Transactions
    <3>1. None \in UpstreamStatuses \cup {None} /\ TRUE \in BOOLEAN
      OBVIOUS
    <3> QED BY <1>v, <2>1, <2>2, <2>3, <3>1, MarkFailedType
  <2>5. Advances(view[r], t)
    BY <1>v, <2>1, <2>2, <2>3, <2>4 DEF Advances, MarkFailedWithRecovery, transition, Transactions
  <2> QED BY <2>2, <2>3, <2>4, <2>5, WrittenAdvances
<1>10. CASE SaveOutcome(r) /\ ~UNCHANGED txn
  <2>1. PICK t : t = Outcome(view[r], result[r])
    OBVIOUS
  <2>2. /\ VersionMatches(r) /\ pc[r] \in ViewPCs /\ pc[r] \in OwnerPCs
        /\ txn' = [txn EXCEPT ![req[r].intent] = Restore(t)]
    BY <1>10, <2>1 DEF SaveOutcome, Update, ViewPCs, OwnerPCs
  <2>3. /\ view[r].status = "FORWARDED" /\ view[r].paymentFinality = "finalized"
        /\ result[r] \in Results
    BY <1>v, <2>2 DEF RequestOK, OwnerOK, TypeOK, StoredOK
  <2>4. t \in Transactions
    BY <1>v, <2>1, <2>2, <2>3, MarkFailedType, MarkFulfilledType DEF Outcome, Results
  <2>5. CASE result[r].status = "2xx"
    <3>1. Advances(view[r], t)
      BY <1>v, <2>1, <2>2, <2>3, <2>4, <2>5 DEF Advances, Outcome, MarkFulfilled, transition,
         Transactions
    <3> QED BY <2>2, <2>3, <2>4, <3>1, WrittenAdvances
  <2>6. CASE result[r].status # "2xx"
    <3>1. Advances(view[r], t)
      BY <1>v, <2>1, <2>2, <2>3, <2>4, <2>6 DEF Advances, Outcome, MarkFailedWithRecovery,
         transition, Transactions
    <3> QED BY <2>2, <2>3, <2>4, <3>1, WrittenAdvances
  <2> QED BY <2>5, <2>6
<1>11. CASE BeginSome(r) \/ Abort(r)
  BY <1>11 DEF BeginSome, Begin, Abort, store
<1> QED
  BY <1>1, <1>2, <1>3, <1>4, <1>5, <1>6, <1>7, <1>8, <1>9, <1>10, <1>11
  DEF Step, LoadForRetry, Load, RecordChallenge, Verify, RecordVerification,
      SettleConfirmed, SettleRefused, SettleUnknown, RecordForwarding, Sign, Dispatch,
      RecordDelivery, store

-----------------------------------------------------------------------------
\* The theorems

\* The empty store, with no request running, satisfies the invariant.
LEMMA InitOK == Init => Inv
<1> SUFFICES ASSUME Init PROVE Inv
  OBVIOUS
<1>1. NoRequest \in RequestRecords /\ NoResult \in Results
  BY DEF NoRequest, NoResult, RequestRecords, Results, FailureCodes
<1>2. TypeOK
  BY <1>1 DEF Init, TypeOK, PCs
<1>3. \A r \in Requests : RequestOK(r) /\ pc[r] \notin OwnerPCs
  BY DEF Init, RequestOK, ParamsOK, SettlementOK, OwnerOK, FirstPCs, ViewPCs,
         ProofPCs, SettlementPCs, OwnerPCs
<1>4. OneOwner
  BY <1>3 DEF OneOwner
<1>5. \A i \in Intents : RecordOK(i)
  BY DEF Init, RecordOK
<1>6. \A id \in PaymentIds : PaymentOK(id)
  BY CheckoutAssumption DEF Init, PaymentOK, Settled
<1> QED BY <1>2, <1>3, <1>4, <1>5, <1>6 DEF Inv

\* Every step of every request, a crash included, keeps the invariant.
LEMMA NextOK == Inv /\ [Next]_vars => Inv'
<1> SUFFICES ASSUME Inv, [Next]_vars PROVE Inv'
  OBVIOUS
<1>1. CASE UNCHANGED vars
  BY <1>1 DEF vars, Inv, TypeOK, RequestOK, ParamsOK, SettlementOK, OwnerOK, OneOwner,
     RecordOK, StoredOK, ClaimedOK, PaymentOK, Fresh, Txn, BoundBody, Settled
<1>2. ASSUME NEW r \in Requests, BeginSome(r) \/ Step(r) \/ Abort(r) PROVE Inv'
  <2>1. CASE BeginSome(r)
    BY <2>1, BeginOK
  <2>2. CASE Abort(r)
    BY <2>2, AbortOK
  <2>3. CASE LoadForRetry(r) \/ PrepareRetry(r)
    BY <2>3, LoadForRetryOK, PrepareRetryOK
  <2>4. CASE Load(r) \/ Create(r) \/ RecordChallenge(r)
    BY <2>4, LoadOK, CreateOK, RecordChallengeOK
  <2>5. CASE Verify(r) \/ SaveVerified(r) \/ RecordVerification(r)
    BY <2>5, VerifyOK, SaveVerifiedOK, RecordVerificationOK
  <2>6. CASE SettleConfirmed(r) \/ SettleRefused(r) \/ SettleUnknown(r)
    BY <2>6, SettleConfirmedOK, SettleRefusedOK, SettleUnknownOK
  <2>7. CASE Finalize(r) \/ RejectPayment(r) \/ Review(r)
    BY <2>7, FinalizeOK, RejectPaymentOK, ReviewOK
  <2>8. CASE Claim(r) \/ RecordForwarding(r) \/ Sign(r) \/ FailBeforeDispatch(r)
    BY <2>8, ClaimOK, RecordForwardingOK, SignOK, FailBeforeDispatchOK
  <2>9. CASE Dispatch(r) \/ SaveOutcome(r) \/ RecordDelivery(r)
    BY <2>9, DispatchOK, SaveOutcomeOK, RecordDeliveryOK
  <2> QED BY <1>2, <2>1, <2>2, <2>3, <2>4, <2>5, <2>6, <2>7, <2>8, <2>9 DEF Step
<1> QED BY <1>1, <1>2 DEF Next

\* The inductive invariant holds in every reachable state.
THEOREM Invariance == Spec => []Inv
BY InitOK, NextOK, PTL DEF Spec

\* Every variable keeps its type.
THEOREM TypeCorrect == Spec => []TypeOK
<1>1. Inv => TypeOK
  BY DEF Inv
<1> QED BY <1>1, Invariance, PTL

\* A purchase takes effect at the seller at most once: any number of concurrent
\* requests, retries, crashes, lost settlement replies and facilitator quirks.
THEOREM AtMostOneEffect == Spec => []SellerEffectAtMostOnce
<1>1. Inv => SellerEffectAtMostOnce
  BY DEF Inv, RecordOK, SellerEffectAtMostOnce
<1> QED BY <1>1, Invariance, PTL

\* A payment that moved money belongs to exactly the transaction that claimed it.
THEOREM OneChargeOneTransaction == Spec => []ChargeBelongsToOneTransaction
<1>1. Inv => ChargeBelongsToOneTransaction
  <2> SUFFICES ASSUME Inv, NEW id \in PaymentIds, Settled(id)
               PROVE  /\ claims[id] # None
                      /\ \A i \in Intents :
                           txn[i] # NoTxn =>
                              (txn[i].paymentIdentifier = id <=> claims[id] = i)
                      /\ txn[claims[id]] # NoTxn
    BY DEF ChargeBelongsToOneTransaction
  <2>1. claims[id] # None /\ PaymentOK(id) /\ id # None
    BY NoneAssumption DEF Inv, PaymentOK
  <2>2. ASSUME NEW i \in Intents, txn[i] # NoTxn, txn[i].paymentIdentifier = id
        PROVE  claims[id] = i
    BY <2>1, <2>2 DEF Inv, RecordOK, StoredOK, ClaimedOK
  <2> QED BY <2>1, <2>2 DEF PaymentOK
<1> QED BY <1>1, Invariance, PTL

\* The seller is called only for a purchase whose payment has settled.
THEOREM ForwardedIsPaid == Spec => []NeverForwardUnpaid
<1>1. Inv => NeverForwardUnpaid
  <2> SUFFICES ASSUME Inv, NEW i \in Intents, dispatches[i] > 0
               PROVE  /\ txn[i] # NoTxn
                      /\ txn[i].paymentIdentifier # None
                      /\ Settled(txn[i].paymentIdentifier)
    BY DEF NeverForwardUnpaid
  <2>1. RecordOK(i) /\ txn[i] # NoTxn
    BY DEF Inv, RecordOK
  <2> QED BY <2>1, NoneAssumption DEF RecordOK, StoredOK
<1> QED BY <1>1, Invariance, PTL

\* The seller receives the body that the transaction is bound to.
THEOREM BoundBodySent == Spec => []SellerSeesBoundBody
<1>1. Inv => SellerSeesBoundBody
  BY DEF Inv, RequestOK, OwnerOK, OwnerPCs, PrePCs, Txn, BoundBody, SellerSeesBoundBody
<1> QED BY <1>1, Invariance, PTL

\* Every seller call was counted before it was made, and there are at most two.
THEOREM DispatchesAreCounted == Spec => []AttemptsCoverDispatches
<1>1. Inv => AttemptsCoverDispatches
  BY DEF Inv, RecordOK, StoredOK, AttemptsCoverDispatches
<1> QED BY <1>1, Invariance, PTL

\* If the facilitator does not refuse what it has transferred, a payment that
\* moved money is never written off as rejected.
THEOREM RefusedIsUnsettled ==
    ASSUME "refuses_settled" \notin Quirks
    PROVE  Spec => []SettledNeverWrittenOff
<1>1. Inv => SettledNeverWrittenOff
  <2> SUFFICES ASSUME Inv, NEW i \in Intents, txn[i] # NoTxn,
                      txn[i].paymentFinality = "failed"
               PROVE  ~Settled(txn[i].paymentIdentifier)
    BY DEF SettledNeverWrittenOff
  <2>1. ledger[txn[i].paymentIdentifier] = "refused"
    BY DEF Inv, RecordOK, StoredOK
  <2> QED BY <2>1, CheckoutAssumption DEF Settled
<1> QED BY <1>1, Invariance, PTL

\* What a step keeps of the record of an intent.
FactsKept(i) ==
    txn[i] # NoTxn /\ txn'[i] # txn[i] =>
        /\ txn'[i] # NoTxn
        /\ txn'[i].version = txn[i].version + 1
        /\ txn[i].paymentIdentifier # None =>
             /\ txn'[i].paymentIdentifier = txn[i].paymentIdentifier
             /\ txn'[i].paymentProofHash = txn[i].paymentProofHash
        /\ FinalityRank[txn'[i].paymentFinality]
             >= FinalityRank[txn[i].paymentFinality]
        /\ txn[i].paymentFinality \in {"finalized", "failed"} =>
             txn'[i].paymentFinality = txn[i].paymentFinality
        /\ txn'[i].fulfillmentAttempts >= txn[i].fulfillmentAttempts
        /\ txn[i].status = "FULFILLED" =>
             txn'[i] = [txn[i] EXCEPT !.status = "DISPUTED", !.version = @ + 1]

\* A request's write follows the record it replaces.
LEMMA RequestKeepsFacts ==
    ASSUME Inv, Next, NEW i \in Intents
    PROVE  FactsKept(i)
<1> SUFFICES ASSUME txn[i] # NoTxn, txn'[i] # txn[i] PROVE FactsKept(i)
  BY DEF FactsKept
<1>1. Advances(txn[i], txn'[i])
  BY StepAdvances DEF Next, AdvancesBy
<1>2. txn'[i] # NoTxn
  BY <1>1, CheckoutAssumption DEF Advances
<1>3. txn[i].paymentFinality \in Finalities /\ txn'[i].paymentFinality \in Finalities
  BY <1>1 DEF Inv, TypeOK, Transactions, Advances
<1>4. FinalityRank[txn'[i].paymentFinality] >= FinalityRank[txn[i].paymentFinality]
  BY <1>1, <1>3 DEF Advances, Finalities, FinalityRank
<1> QED BY <1>1, <1>2, <1>4 DEF Advances, FactsKept

\* No request, however stale its copy, undoes what another has recorded.
THEOREM RecordsOnlyAdvance == Spec => RecordedFactsPersist
<1>1. Inv /\ [Next]_vars => [\A i \in Intents : FactsKept(i)]_vars
  BY RequestKeepsFacts
<1> QED BY <1>1, Invariance, PTL DEF Spec, RecordedFactsPersist, FactsKept

-----------------------------------------------------------------------------
\* The evidence chain

\* Calls after the challenge, and after the verification, is on record.
ChallengedPCs == {"verify", "saveVerified", "recordVerification"}
VerifiedPCs   == OwnerPCs \cup {"settle", "finalize", "failPayment", "review", "claim",
                                "recordDelivery"}

\* Calls of a request whose seller call is not in the chain yet.
PendingPCs    == {"saveOutcome", "recordDelivery"}
Pending(i)    == {r \in Requests : pc[r] \in PendingPCs /\ req[r].intent = i}

\* The seller delivered, and the stored record says so.
Delivered(i) == txn[i] # NoTxn /\ txn[i].upstreamStatus = "2xx"

Forwards(i)  == Count(chain[i], "proxy.forwarded")
Outcomes(i)  == Count(chain[i], "delivery.succeeded") + Count(chain[i], "delivery.failed")

\* The chain begins with the challenge and the verification.
BeginsOK(i) ==
    /\ Len(chain[i]) >= 1 => chain[i][1] = "payment.challenged"
    /\ Len(chain[i]) >= 2 => chain[i][2] = "payment.verified"

\* What the chain of a transaction tells.
ChainOK(i) ==
    /\ BeginsOK(i)
    /\ txn[i] # NoTxn /\ txn[i].paymentFinality = "finalized" => Len(chain[i]) >= 2
    /\ Forwards(i) >= dispatches[i]
    /\ (\E n \in DOMAIN chain[i] : chain[i][n] = "delivery.succeeded") => Delivered(i)
    /\ IsFiniteSet(Pending(i))
    /\ Outcomes(i) + Cardinality(Pending(i)) <= dispatches[i]

\* What a request has put on record.
StoryOK(r) ==
    /\ pc[r] \in ChallengedPCs => Len(chain[req[r].intent]) >= 1
    /\ pc[r] \in VerifiedPCs => Len(chain[req[r].intent]) >= 2
    /\ pc[r] \in ViewPCs /\ view[r].paymentFinality = "finalized" =>
         Len(chain[req[r].intent]) >= 2
    /\ pc[r] \in {"sign", "dispatch"} =>
         Forwards(req[r].intent) > dispatches[req[r].intent]
    /\ pc[r] = "recordDelivery" /\ result[r].status = "2xx" => Delivered(req[r].intent)

\* The chains are true to the calls, and each request to what it has recorded.
EvidenceInv ==
    /\ Inv
    /\ \A i \in Intents : ChainOK(i)
    /\ \A r \in Requests : StoryOK(r)

\* Counting events.
LEMMA CountType ==
    ASSUME NEW s \in Seq(EventTypes), NEW type
    PROVE  /\ Count(s, type) \in Nat
           /\ IsFiniteSet({n \in DOMAIN s : s[n] = type})
           /\ Count(s, type) = 0 <=> ~\E n \in DOMAIN s : s[n] = type
<1>1. DOMAIN s = 1 .. Len(s) /\ Len(s) \in Nat
  OBVIOUS
<1>2. IsFiniteSet(1 .. Len(s))
  BY <1>1, FS_Interval
<1>3. {n \in DOMAIN s : s[n] = type} \in SUBSET (1 .. Len(s))
  BY <1>1
<1>4. IsFiniteSet({n \in DOMAIN s : s[n] = type})
  BY <1>2, <1>3, FS_Subset
<1>5. Cardinality({n \in DOMAIN s : s[n] = type}) \in Nat
  BY <1>4, FS_CardinalityType
<1>6. Cardinality({n \in DOMAIN s : s[n] = type}) = 0 <=> {n \in DOMAIN s : s[n] = type} = {}
  BY <1>4, FS_EmptySet
<1> QED BY <1>4, <1>5, <1>6 DEF Count

\* An appended event counts as one of its type.
LEMMA CountAppend ==
    ASSUME NEW s \in Seq(EventTypes), NEW event \in EventTypes, NEW type
    PROVE  Count(Append(s, event), type) =
             Count(s, type) + (IF event = type THEN 1 ELSE 0)
<1> DEFINE S == {n \in DOMAIN s : s[n] = type}
           T == {n \in DOMAIN Append(s, event) : Append(s, event)[n] = type}
           k == Len(s) + 1
<1>1. /\ DOMAIN s = 1 .. Len(s) /\ Len(s) \in Nat
      /\ DOMAIN Append(s, event) = 1 .. k
      /\ \A n \in 1 .. Len(s) : Append(s, event)[n] = s[n]
      /\ Append(s, event)[k] = event
  OBVIOUS
<1>2. IsFiniteSet(S) /\ Count(s, type) \in Nat
  BY CountType
<1>3. k \notin S
  BY <1>1
<1>4. CASE event = type
  <2>1. T = S \cup {k}
    BY <1>1, <1>4
  <2>2. Cardinality(S \cup {k}) = Cardinality(S) + 1
    BY <1>2, <1>3, FS_AddElement
  <2> QED BY <1>2, <1>4, <2>1, <2>2 DEF Count
<1>5. CASE event # type
  <2>1. T = S
    BY <1>1, <1>5
  <2>2. Count(Append(s, event), type) = Count(s, type)
    BY <2>1 DEF Count
  <2> QED BY <1>2, <1>5, <2>2
<1> QED BY <1>4, <1>5

\* No step of a request touches another.
LEMMA StepUntouched ==
    ASSUME TypeOK, NEW r \in Requests, BeginSome(r) \/ Step(r) \/ Abort(r)
    PROVE  OthersUntouched(r)
<1>1. ASSUME Return(r) PROVE OthersUntouched(r)
  BY <1>1 DEF Return, OthersUntouched, TypeOK
<1>2. ASSUME NEW next, Goto(r, next), UNCHANGED <<req, view, result>>
      PROVE  OthersUntouched(r)
  BY <1>2 DEF Goto, OthersUntouched, TypeOK
<1>3. ASSUME NEW next, Goto(r, next), UNCHANGED <<req, result>>,
             NEW t, view' = [view EXCEPT ![r] = t]
      PROVE  OthersUntouched(r)
  BY <1>3 DEF Goto, OthersUntouched, TypeOK
<1>4. ASSUME NEW next, Goto(r, next), UNCHANGED <<req, view>>,
             NEW x, result' = [result EXCEPT ![r] = x]
      PROVE  OthersUntouched(r)
  BY <1>4 DEF Goto, OthersUntouched, TypeOK
<1>5. CASE BeginSome(r)
  <2>1. PICK i \in Intents, proof \in Proofs \cup {None}, body \in Bodies :
          Begin(r, i, proof, body)
    BY <1>5 DEF BeginSome
  <2> QED BY <2>1 DEF Begin, Goto, OthersUntouched, TypeOK
<1>6. CASE Abort(r) \/ FailBeforeDispatch(r) \/ RecordDelivery(r) \/ RejectPayment(r) \/ Review(r)
           \/ SettleUnknown(r)
  BY <1>1, <1>6 DEF Abort, FailBeforeDispatch, RecordDelivery, RejectPayment, Review,
     SettleUnknown, UpdateAndReturn
<1>7. CASE LoadForRetry(r) \/ Load(r)
  BY <1>1, <1>3, <1>7 DEF LoadForRetry, Load
<1>8. CASE Create(r)
  BY <1>2, <1>3, <1>8 DEF Create
<1>9. CASE PrepareRetry(r) \/ Finalize(r) \/ SaveOutcome(r)
  BY <1>1, <1>3, <1>9 DEF PrepareRetry, Finalize, SaveOutcome, Update
<1>10. CASE SaveVerified(r) \/ Claim(r)
  BY <1>1, <1>3, <1>10 DEF SaveVerified, Claim
<1>11. CASE RecordChallenge(r) \/ RecordVerification(r) \/ SettleConfirmed(r) \/ SettleRefused(r)
  BY <1>1, <1>2, <1>11 DEF RecordChallenge, RecordVerification, SettleConfirmed, SettleRefused
<1>12. CASE Verify(r)
  BY <1>1, <1>2, <1>12 DEF Verify
<1>13. ASSUME NEW code \in FailureCodes, GiveUp(r, code), UNCHANGED <<req, view>>
       PROVE  OthersUntouched(r)
  BY <1>13, GiveUpType DEF GiveUp, Goto, OthersUntouched, TypeOK
<1>14. CASE RecordForwarding(r)
  <2>1. "forwarding_evidence_unavailable" \in FailureCodes
    BY DEF FailureCodes, PreDispatchCodes
  <2> QED BY <1>2, <1>13, <1>14, <2>1 DEF RecordForwarding
<1>15. CASE Sign(r)
  <2>1. "execution_authorization_unavailable" \in FailureCodes
    BY DEF FailureCodes, PreDispatchCodes
  <2> QED BY <1>2, <1>13, <1>15, <2>1 DEF Sign
<1>16. CASE Dispatch(r)
  BY <1>4, <1>16 DEF Dispatch
<1> QED BY <1>5, <1>6, <1>7, <1>8, <1>9, <1>10, <1>11, <1>12, <1>14, <1>15, <1>16 DEF Step

\* What a step that delivers nothing keeps of the chain of an intent.
ChainKept(i) ==
    /\ Len(chain'[i]) >= Len(chain[i])
    /\ Forwards(i)' >= Forwards(i)
    /\ Outcomes(i)' = Outcomes(i)
    /\ (\E n \in DOMAIN chain'[i] : chain'[i][n] = "delivery.succeeded") =>
         \E n \in DOMAIN chain[i] : chain[i][n] = "delivery.succeeded"
    /\ BeginsOK(i)'

\* The types of what is counted.
LEMMA ChainTypes ==
    ASSUME TypeOK, NEW i \in Intents
    PROVE  /\ chain[i] \in Seq(EventTypes) /\ Len(chain[i]) \in Nat
           /\ Forwards(i) \in Nat /\ Outcomes(i) \in Nat /\ dispatches[i] \in Nat
<1>1. chain[i] \in Seq(EventTypes) /\ dispatches[i] \in Nat
  BY DEF TypeOK
<1>2. /\ Count(chain[i], "proxy.forwarded") \in Nat
      /\ Count(chain[i], "delivery.succeeded") \in Nat
      /\ Count(chain[i], "delivery.failed") \in Nat
  BY <1>1, CountType
<1> QED BY <1>1, <1>2 DEF Forwards, Outcomes

\* A delivery on record is never taken back.
LEMMA DeliveryKept ==
    ASSUME Inv, NEW r \in Requests, BeginSome(r) \/ Step(r) \/ Abort(r), NEW i \in Intents,
           Delivered(i)
    PROVE  Delivered(i)' /\ txn'[i] = txn[i]
<1>1. txn[i] # NoTxn /\ txn[i].upstreamStatus = "2xx" /\ StoredOK(i, txn[i])
  BY DEF Delivered, Inv, RecordOK
<1>2. txn[i].status \notin {"PAYMENT_REQUIRED", "PAYMENT_VERIFIED", "FORWARDED", "FAILED"}
  BY <1>1 DEF StoredOK
<1>3. txn'[i] = txn[i]
  BY <1>1, <1>2, StepAdvances DEF AdvancesBy, Advances
<1> QED BY <1>1, <1>3 DEF Delivered

\* A transaction that appears awaits its payment.
LEMMA CreatedIsFirst ==
    ASSUME Inv, NEW r \in Requests, BeginSome(r) \/ Step(r) \/ Abort(r), NEW i \in Intents,
           txn[i] = NoTxn, txn'[i] # NoTxn
    PROVE  txn'[i].status = "PAYMENT_REQUIRED"
<1>1. TypeOK
  BY DEF Inv
<1>2. CASE Create(r)
  <2>1. PICK j : j = req[r].intent
    OBVIOUS
  <2>2. txn' = [txn EXCEPT ![j] = FirstTransaction(j)] \/ UNCHANGED txn
    BY <1>2, <2>1 DEF Create
  <2>3. FirstTransaction(j).status = "PAYMENT_REQUIRED"
    BY DEF FirstTransaction, RequirePayment, MarkApproved, RequireApproval,
           NewTransaction, transition
  <2> QED BY <1>1, <2>2, <2>3 DEF TypeOK
<1>3. ASSUME VersionMatches(r), NEW t, txn' = [txn EXCEPT ![req[r].intent] = t]
      PROVE  txn'[i] = txn[i]
  BY <1>1, <1>3 DEF VersionMatches, TypeOK
<1>4. CASE ~Create(r)
  BY <1>3, <1>4 DEF Step, LoadForRetry, Load, RecordChallenge, Verify, RecordVerification,
      SettleConfirmed, SettleRefused, SettleUnknown, RecordForwarding, Sign, Dispatch,
      RecordDelivery, BeginSome, Begin, Abort, store, PrepareRetry, SaveVerified, Finalize,
      RejectPayment, Review, Claim, FailBeforeDispatch, SaveOutcome, Update, UpdateAndReturn
<1> QED BY <1>2, <1>4

\* The story of a request stays true while another steps.
LEMMA StoryKept ==
    ASSUME EvidenceInv, TypeOK', NEW r \in Requests, OthersUntouched(r),
           \A i \in Intents : /\ Len(chain'[i]) >= Len(chain[i])
                              /\ Forwards(i)' >= Forwards(i)
                              /\ Delivered(i) => Delivered(i)',
           NEW q \in Requests \ {r},
           pc[q] \in {"sign", "dispatch"} =>
             dispatches'[req[q].intent] = dispatches[req[q].intent]
    PROVE  StoryOK(q)'
<1>1. /\ pc'[q] = pc[q] /\ req'[q] = req[q] /\ view'[q] = view[q] /\ result'[q] = result[q]
      /\ StoryOK(q) /\ RequestOK(q) /\ TypeOK
  BY DEF OthersUntouched, EvidenceInv, Inv
<1>2. CASE pc[q] = "idle"
  BY <1>1, <1>2 DEF StoryOK, ChallengedPCs, VerifiedPCs, ViewPCs, ProofPCs, SettlementPCs, OwnerPCs
<1>3. CASE pc[q] # "idle"
  <2>1. PICK i \in Intents : i = req[q].intent
    BY <1>1, <1>3 DEF RequestOK, ParamsOK
  <2>2. /\ Len(chain[i]) \in Nat /\ Len(chain'[i]) \in Nat /\ Len(chain'[i]) >= Len(chain[i])
        /\ Forwards(i) \in Nat /\ dispatches[i] \in Nat /\ Forwards(i)' >= Forwards(i)
    BY <1>1, ChainTypes DEF TypeOK
  <2>3. Forwards(i)' \in Nat
    BY CountType DEF TypeOK, Forwards
  <2>4. pc[q] \in {"sign", "dispatch"} => dispatches'[i] = dispatches[i]
    BY <2>1
  <2>5. pc[q] \in {"sign", "dispatch"} => Forwards(i)' > dispatches'[i]
    BY <1>1, <2>1, <2>2, <2>3, <2>4 DEF StoryOK
  <2>6. pc[q] = "recordDelivery" /\ result[q].status = "2xx" => Delivered(i)'
    BY <1>1, <2>1 DEF StoryOK
  <2>7. /\ pc[q] \in {"sign", "dispatch"} => Forwards(req[q].intent)' > dispatches'[req[q].intent]
        /\ pc[q] = "recordDelivery" /\ result[q].status = "2xx" => Delivered(req[q].intent)'
    BY <1>1, <2>1, <2>5, <2>6 DEF Forwards, Delivered
  <2>8. /\ pc[q] \in ChallengedPCs => Len(chain'[i]) >= 1
        /\ pc[q] \in VerifiedPCs => Len(chain'[i]) >= 2
        /\ pc[q] \in ViewPCs /\ view[q].paymentFinality = "finalized" => Len(chain'[i]) >= 2
    BY <1>1, <2>1, <2>2 DEF StoryOK
  <2> QED BY <1>1, <2>1, <2>7, <2>8 DEF StoryOK, Forwards, Delivered
<1> QED BY <1>2, <1>3

\* The requests whose outcome is not on record, after a step of r.
LEMMA PendingKept ==
    ASSUME TypeOK, NEW r \in Requests, OthersUntouched(r), NEW i \in Intents,
           IsFiniteSet(Pending(i)), pc'[r] \in PendingPCs /\ req'[r].intent = i => r \in Pending(i)
    PROVE  /\ IsFiniteSet(Pending(i)') /\ Cardinality(Pending(i)') \in Nat
           /\ Cardinality(Pending(i)) \in Nat
           /\ Cardinality(Pending(i)') <= Cardinality(Pending(i))
<1>1. Pending(i)' \in SUBSET Pending(i)
  BY DEF Pending, OthersUntouched
<1> QED BY <1>1, FS_Subset, FS_CardinalityType

\* A step that calls no seller and records no delivery.
LEMMA QuietStep ==
    ASSUME EvidenceInv, Inv', NEW r \in Requests, BeginSome(r) \/ Step(r) \/ Abort(r),
           \A i \in Intents : ChainKept(i), UNCHANGED <<dispatches, effects>>, StoryOK(r)',
           pc'[r] \in PendingPCs => pc[r] \in PendingPCs /\ req'[r].intent = req[r].intent
    PROVE  EvidenceInv'
<1>1. TypeOK /\ TypeOK' /\ OthersUntouched(r)
  BY StepUntouched DEF EvidenceInv, Inv
<1>2. \A i \in Intents : Delivered(i) => Delivered(i)'
  BY DeliveryKept DEF EvidenceInv
<1>3. ASSUME NEW q \in Requests PROVE StoryOK(q)'
  BY <1>1, <1>2, StoryKept DEF ChainKept
<1>4. ASSUME NEW i \in Intents PROVE ChainOK(i)'
  <2>1. ChainOK(i) /\ ChainKept(i)
    BY DEF EvidenceInv
  <2>2. /\ IsFiniteSet(Pending(i)') /\ Cardinality(Pending(i)') \in Nat
        /\ Cardinality(Pending(i)) \in Nat
        /\ Cardinality(Pending(i)') <= Cardinality(Pending(i))
    <3>1. pc'[r] \in PendingPCs /\ req'[r].intent = i => r \in Pending(i)
      BY DEF Pending
    <3> QED BY <1>1, <2>1, <3>1, PendingKept DEF ChainOK
  <2>3. /\ Len(chain[i]) \in Nat /\ Forwards(i) \in Nat /\ Outcomes(i) \in Nat
        /\ dispatches[i] \in Nat
    BY <1>1, ChainTypes
  <2>4. Len(chain'[i]) \in Nat /\ Forwards(i)' \in Nat
    <3>1. chain'[i] \in Seq(EventTypes)
      BY <1>1 DEF TypeOK
    <3>2. Len(chain'[i]) \in Nat
      BY <3>1
    <3>3. Count(chain'[i], "proxy.forwarded") \in Nat
      BY <3>1, CountType
    <3> QED BY <3>2, <3>3 DEF Forwards
  <2>5. txn'[i] # NoTxn /\ txn'[i].paymentFinality = "finalized" => Len(chain'[i]) >= 2
    <3> SUFFICES ASSUME txn'[i] # NoTxn, txn'[i].paymentFinality = "finalized"
                 PROVE  Len(chain'[i]) >= 2
      OBVIOUS
    <3>1. CASE txn[i] = NoTxn
      <4>1. txn'[i].status = "PAYMENT_REQUIRED"
        BY <3>1, CreatedIsFirst DEF EvidenceInv
      <4> QED BY <4>1 DEF Inv, RecordOK, StoredOK
    <3>2. CASE txn[i] # NoTxn /\ txn[i].paymentFinality = "finalized"
      BY <2>1, <2>3, <2>4, <3>2 DEF ChainOK, ChainKept
    <3>3. CASE pc[r] = "finalize" /\ req[r].intent = i
      <4>1. Len(chain[i]) >= 2
        BY <3>3 DEF EvidenceInv, StoryOK, VerifiedPCs
      <4> QED BY <2>1, <2>3, <2>4, <4>1 DEF ChainKept
    <3> QED BY <3>1, <3>2, <3>3, StepAdvances DEF AdvancesBy, EvidenceInv
  <2>6. Forwards(i)' >= dispatches'[i]
    BY <2>1, <2>3, <2>4 DEF ChainOK, ChainKept
  <2>7. Outcomes(i)' + Cardinality(Pending(i)') <= dispatches'[i]
    BY <2>1, <2>2, <2>3 DEF ChainOK, ChainKept
  <2>8. (\E n \in DOMAIN chain'[i] : chain'[i][n] = "delivery.succeeded") => Delivered(i)'
    BY <1>2, <2>1 DEF ChainOK, ChainKept
  <2> QED BY <2>1, <2>2, <2>5, <2>6, <2>7, <2>8 DEF ChainOK, ChainKept
<1> QED BY <1>3, <1>4 DEF EvidenceInv

\* A chain that is left alone.
LEMMA ChainSame ==
    ASSUME TypeOK, NEW i \in Intents, BeginsOK(i), chain'[i] = chain[i]
    PROVE  ChainKept(i) /\ Forwards(i)' = Forwards(i)
<1>1. Len(chain[i]) \in Nat /\ Forwards(i) \in Nat
  BY ChainTypes
<1>2. Forwards(i)' = Forwards(i) /\ Outcomes(i)' = Outcomes(i)
  BY DEF Forwards, Outcomes
<1>3. BeginsOK(i)'
  BY DEF BeginsOK
<1> QED BY <1>1, <1>2, <1>3 DEF ChainKept

\* The event may come next: only a challenge comes first, a verification second.
Fits(i, event) ==
    /\ Len(chain[i]) = 0 => event = "payment.challenged"
    /\ Len(chain[i]) = 1 => event = "payment.verified"

\* An event that is appended, where it may come first or second.
LEMMA ChainAppended ==
    ASSUME TypeOK, NEW i \in Intents, NEW event \in EventTypes, appendEvent(i, event),
           BeginsOK(i), Fits(i, event)
    PROVE  /\ Len(chain'[i]) = Len(chain[i]) + 1
           /\ BeginsOK(i)'
           /\ \A j \in Intents \ {i} : chain'[j] = chain[j]
           /\ Forwards(i)' = Forwards(i) + (IF event = "proxy.forwarded" THEN 1 ELSE 0)
           /\ Outcomes(i)' = Outcomes(i) +
                (IF event \in {"delivery.succeeded", "delivery.failed"} THEN 1 ELSE 0)
           /\ event # "delivery.succeeded" =>
                ((\E n \in DOMAIN chain'[i] : chain'[i][n] = "delivery.succeeded") =>
                   \E n \in DOMAIN chain[i] : chain[i][n] = "delivery.succeeded")
<1>1. PICK s \in Seq(EventTypes) : s = chain[i]
  BY DEF TypeOK
<1>2. chain'[i] = Append(s, event) /\ \A j \in Intents \ {i} : chain'[j] = chain[j]
  BY <1>1 DEF appendEvent, TypeOK
<1>3. /\ Len(s) \in Nat /\ DOMAIN s = 1 .. Len(s)
      /\ Len(Append(s, event)) = Len(s) + 1
      /\ DOMAIN Append(s, event) = 1 .. Len(s) + 1
      /\ \A n \in 1 .. Len(s) : Append(s, event)[n] = s[n]
      /\ Append(s, event)[Len(s) + 1] = event
  OBVIOUS
<1>4. BeginsOK(i)'
  <2>1. /\ Len(s) >= 1 => s[1] = "payment.challenged"
        /\ Len(s) >= 2 => s[2] = "payment.verified"
    BY <1>1 DEF BeginsOK
  <2>2. CASE Len(s) = 0
    BY <1>1, <1>2, <1>3, <2>2 DEF BeginsOK, Fits
  <2>3. CASE Len(s) = 1
    BY <1>1, <1>2, <1>3, <2>1, <2>3 DEF BeginsOK, Fits
  <2>4. CASE Len(s) >= 2
    BY <1>1, <1>2, <1>3, <2>1, <2>4 DEF BeginsOK
  <2> QED BY <1>3, <2>2, <2>3, <2>4
<1>5. Forwards(i)' = Forwards(i) + (IF event = "proxy.forwarded" THEN 1 ELSE 0)
  BY <1>1, <1>2, CountAppend DEF Forwards
<1>6. Outcomes(i)' = Outcomes(i) +
        (IF event \in {"delivery.succeeded", "delivery.failed"} THEN 1 ELSE 0)
  <2>1. /\ Count(s, "delivery.succeeded") \in Nat
        /\ Count(s, "delivery.failed") \in Nat
    BY CountType
  <2>2. /\ Count(Append(s, event), "delivery.succeeded") =
             Count(s, "delivery.succeeded") + (IF event = "delivery.succeeded" THEN 1 ELSE 0)
        /\ Count(Append(s, event), "delivery.failed") =
             Count(s, "delivery.failed") + (IF event = "delivery.failed" THEN 1 ELSE 0)
    BY CountAppend
  <2>3. /\ Outcomes(i) = Count(s, "delivery.succeeded") + Count(s, "delivery.failed")
        /\ Outcomes(i)' = Count(Append(s, event), "delivery.succeeded")
                            + Count(Append(s, event), "delivery.failed")
    BY <1>1, <1>2 DEF Outcomes
  <2> QED BY <2>1, <2>2, <2>3
<1>7. ASSUME event # "delivery.succeeded",
             \E n \in DOMAIN chain'[i] : chain'[i][n] = "delivery.succeeded"
      PROVE  \E n \in DOMAIN chain[i] : chain[i][n] = "delivery.succeeded"
  BY <1>1, <1>2, <1>3, <1>7
<1> QED BY <1>1, <1>2, <1>3, <1>4, <1>5, <1>6, <1>7

\* An event of the payment or the forwarding leaves the deliveries alone.
LEMMA EventKept ==
    ASSUME EvidenceInv, NEW i \in Intents,
           NEW event \in {"payment.challenged", "payment.verified", "proxy.forwarded"},
           appendEvent(i, event), Fits(i, event)
    PROVE  \A j \in Intents : ChainKept(j)
<1>1. TypeOK /\ \A j \in Intents : BeginsOK(j)
  BY DEF EvidenceInv, Inv, ChainOK
<1>2. event \in EventTypes
  BY DEF EventTypes
<1>3. ASSUME NEW j \in Intents \ {i} PROVE ChainKept(j)
  BY <1>1, <1>2, <1>3, ChainAppended, ChainSame
<1>4. ChainKept(i)
  <2>1. Len(chain[i]) \in Nat /\ Forwards(i) \in Nat /\ Outcomes(i) \in Nat
    BY <1>1, ChainTypes
  <2> QED BY <1>1, <1>2, <2>1, ChainAppended DEF ChainKept
<1> QED BY <1>3, <1>4

\* A request that ends, or that has not read its transaction, has no story.
LEMMA NoStory ==
    ASSUME EvidenceInv, Inv', NEW r \in Requests, BeginSome(r) \/ Step(r) \/ Abort(r),
           \A i \in Intents : ChainKept(i), UNCHANGED <<dispatches, effects>>,
           pc'[r] \in {"idle", "load", "loadForRetry", "create"}
    PROVE  EvidenceInv'
<1>1. StoryOK(r)' /\ pc'[r] \notin PendingPCs
  BY DEF StoryOK, PendingPCs, ChallengedPCs, VerifiedPCs, ViewPCs, OwnerPCs, ProofPCs, SettlementPCs
<1> QED BY <1>1, QuietStep

\* A step that goes on to the next call.
LEMMA EventGoto ==
    ASSUME EvidenceInv, Inv', NEW r \in Requests, BeginSome(r) \/ Step(r) \/ Abort(r),
           \A j \in Intents : ChainKept(j), UNCHANGED <<dispatches, effects>>,
           NEW i \in Intents, i = req[r].intent, req'[r] = req[r],
           pc'[r] # "saveOutcome",
           pc'[r] = "recordDelivery" =>
             pc[r] = "saveOutcome" /\ (result'[r].status = "2xx" => Delivered(i)'),
           pc'[r] \in ChallengedPCs => Len(chain'[i]) >= 1,
           pc'[r] \in VerifiedPCs => Len(chain'[i]) >= 2,
           pc'[r] \in ViewPCs /\ view'[r].paymentFinality = "finalized" => Len(chain'[i]) >= 2,
           pc'[r] \in {"sign", "dispatch"} => Forwards(i)' > dispatches'[i]
    PROVE  EvidenceInv'
<1>1. StoryOK(r)'
  BY DEF StoryOK, Forwards, Delivered
<1>2. pc'[r] \in PendingPCs => pc[r] \in PendingPCs /\ req'[r].intent = req[r].intent
  BY DEF PendingPCs
<1> QED BY <1>1, <1>2, QuietStep

\* In particular a step that leaves the chains alone.
LEMMA QuietGoto ==
    ASSUME EvidenceInv, Inv', NEW r \in Requests, BeginSome(r) \/ Step(r) \/ Abort(r),
           UNCHANGED <<chain, dispatches, effects>>,
           NEW i \in Intents, i = req[r].intent, req'[r] = req[r],
           pc'[r] # "saveOutcome",
           pc'[r] = "recordDelivery" =>
             pc[r] = "saveOutcome" /\ (result'[r].status = "2xx" => Delivered(i)'),
           pc'[r] \in ChallengedPCs => Len(chain[i]) >= 1,
           pc'[r] \in VerifiedPCs => Len(chain[i]) >= 2,
           pc'[r] \in ViewPCs /\ view'[r].paymentFinality = "finalized" => Len(chain[i]) >= 2,
           pc'[r] \in {"sign", "dispatch"} => Forwards(i) > dispatches[i]
    PROVE  EvidenceInv'
<1>1. TypeOK /\ \A j \in Intents : BeginsOK(j)
  BY DEF EvidenceInv, Inv, ChainOK
<1>2. \A j \in Intents : ChainKept(j) /\ Forwards(j)' = Forwards(j)
  BY <1>1, ChainSame
<1> QED BY <1>2, EventGoto

\* The steps that leave the chain alone.
LEMMA QuietSteps ==
    ASSUME EvidenceInv, Inv', NEW r \in Requests, BeginSome(r) \/ Step(r) \/ Abort(r),
           UNCHANGED <<chain, dispatches, effects>>,
           ~(RecordChallenge(r) \/ RecordVerification(r) \/ RecordForwarding(r))
    PROVE  EvidenceInv'
<1>1. TypeOK /\ \A j \in Intents : ChainOK(j) /\ BeginsOK(j)
  BY DEF EvidenceInv, Inv, ChainOK
<1>2. \A j \in Intents : ChainKept(j)
  BY <1>1, ChainSame
<1>3. CASE pc'[r] \in {"idle", "load", "loadForRetry", "create"}
  BY <1>2, <1>3, NoStory
<1>4. CASE pc'[r] \notin {"idle", "load", "loadForRetry", "create"}
  <2>1. ~BeginSome(r) /\ ~Abort(r)
    BY <1>1, <1>4 DEF BeginSome, Begin, Abort, Return, Goto, TypeOK
  <2>2. pc[r] # "idle" /\ ~Return(r)
    BY <1>1, <1>4, <2>1 DEF Step, Return, TypeOK, LoadForRetry, Load, RecordChallenge, Verify,
      RecordVerification, SettleConfirmed, SettleRefused, SettleUnknown, RecordForwarding, Sign,
      Dispatch, RecordDelivery, PrepareRetry, SaveVerified, Finalize, Create,
      RejectPayment, Review, Claim, FailBeforeDispatch, SaveOutcome
  <2>3. PICK i \in Intents : i = req[r].intent
    BY <2>2 DEF EvidenceInv, Inv, RequestOK, ParamsOK
  <2>4. StoryOK(r) /\ RequestOK(r) /\ ChainOK(i)
    BY <1>1 DEF EvidenceInv, Inv
  <2>5. CASE LoadForRetry(r) \/ Load(r)
    <3>1. /\ view'[r] = txn[i] /\ txn[i] # NoTxn /\ req'[r] = req[r]
          /\ pc'[r] \in {"prepareRetry", "recordChallenge"}
      BY <1>1, <1>4, <2>2, <2>3, <2>5 DEF LoadForRetry, Load, Goto, TypeOK
    <3> QED BY <2>3, <2>4, <3>1, QuietGoto DEF ChainOK, ChallengedPCs, VerifiedPCs, OwnerPCs
  <2>6. CASE Create(r)
    <3>1. /\ view'[r] = FirstTransaction(i) /\ req'[r] = req[r] /\ pc'[r] = "recordChallenge"
      BY <1>1, <1>4, <2>2, <2>3, <2>6 DEF Create, Goto, TypeOK
    <3>2. FirstTransaction(i).paymentFinality = "none"
      BY DEF FirstTransaction, RequirePayment, MarkApproved, RequireApproval,
             NewTransaction, transition
    <3> QED BY <2>3, <2>4, <3>1, <3>2, QuietGoto DEF ChallengedPCs, VerifiedPCs, OwnerPCs
  <2>7. CASE PrepareRetry(r)
    <3>1. /\ req'[r] = req[r] /\ pc'[r] = "claim" /\ CanRetryFulfillment(view[r])
          /\ pc[r] = "prepareRetry"
      BY <1>1, <2>2, <2>7 DEF PrepareRetry, Update, Goto, TypeOK
    <3>2. Len(chain[i]) >= 2
      BY <2>3, <2>4, <3>1 DEF StoryOK, ViewPCs, CanRetryFulfillment
    <3> QED BY <2>3, <3>1, <3>2, QuietGoto DEF ChallengedPCs
  <2>8. CASE Verify(r)
    <3>1. /\ req'[r] = req[r] /\ pc'[r] = "saveVerified" /\ pc[r] = "verify" /\ view'[r] = view[r]
      BY <1>1, <2>2, <2>8 DEF Verify, Goto, TypeOK
    <3> QED BY <2>3, <2>4, <3>1, QuietGoto DEF StoryOK, ChallengedPCs, VerifiedPCs, OwnerPCs,
            ViewPCs, ProofPCs
  <2>9. CASE SaveVerified(r)
    <3>1. PICK id : id = PaymentIdOf[req[r].proof]
      OBVIOUS
    <3>2. /\ req'[r] = req[r] /\ pc'[r] = "recordVerification" /\ pc[r] = "saveVerified"
          /\ view'[r] = VerifyPayment(view[r], id, req[r].proof)
          /\ VersionMatches(r)
      BY <1>1, <2>2, <2>9, <3>1 DEF SaveVerified, Goto, TypeOK
    <3>3. view[r] \in Transactions
      BY <3>2, UpdateContext DEF EvidenceInv, ViewPCs, ProofPCs
    <3>4. view'[r].paymentFinality = "confirmed"
      BY <3>2, <3>3 DEF VerifyPayment, transition, Transactions
    <3> QED BY <2>3, <2>4, <3>2, <3>4, QuietGoto DEF StoryOK, ChallengedPCs, VerifiedPCs, OwnerPCs
  <2>10. CASE SettleConfirmed(r) \/ SettleRefused(r)
    <3>1. /\ req'[r] = req[r] /\ pc'[r] \in {"failPayment", "review", "finalize"}
          /\ pc[r] = "settle"
      BY <1>1, <2>10 DEF SettleConfirmed, SettleRefused, Goto, TypeOK
    <3> QED BY <2>3, <2>4, <3>1, QuietGoto DEF StoryOK, ChallengedPCs, VerifiedPCs
  <2>11. CASE Finalize(r) \/ Claim(r) \/ Sign(r)
    <3>1. /\ req'[r] = req[r] /\ pc'[r] \in {"claim", "recordForwarding", "dispatch", "failBefore"}
          /\ pc[r] \in {"finalize", "claim", "sign"}
          /\ pc'[r] = "dispatch" => pc[r] = "sign"
      BY <1>1, <2>2, <2>11 DEF Finalize, Update, Claim, Sign, GiveUp, Goto, TypeOK
    <3> QED BY <2>3, <2>4, <3>1, QuietGoto DEF StoryOK, ChallengedPCs, VerifiedPCs, OwnerPCs
  <2>13. CASE SaveOutcome(r)
    <3>1. PICK u : u = Outcome(view[r], result[r])
      OBVIOUS
    <3>2. /\ req'[r] = req[r] /\ pc'[r] = "recordDelivery" /\ pc[r] = "saveOutcome"
          /\ txn' = [txn EXCEPT ![i] = Restore(u)]
          /\ VersionMatches(r) /\ result'[r] = result[r]
      BY <1>1, <2>2, <2>3, <2>13, <3>1 DEF SaveOutcome, Update, Goto, TypeOK
    <3>3. view[r] \in Transactions
      BY <3>2, UpdateContext DEF EvidenceInv, ViewPCs, OwnerPCs
    <3>4. ASSUME result[r].status = "2xx" PROVE Delivered(i)'
      <4>1. u = MarkFulfilled(view[r])
        BY <3>1, <3>4 DEF Outcome
      <4>2. u \in Transactions /\ u.upstreamStatus = "2xx"
        BY <3>3, <4>1, MarkFulfilledType DEF MarkFulfilled, transition, Transactions
      <4>3. Restore(u) \in Transactions /\ Restore(u).upstreamStatus = "2xx"
        BY <4>2 DEF Restore, Transactions
      <4>4. txn'[i] = Restore(u)
        BY <1>1, <3>2 DEF TypeOK
      <4> QED BY <4>3, <4>4, CheckoutAssumption DEF Delivered
    <3>5. Len(chain[i]) >= 2
      BY <2>3, <2>4, <3>2 DEF StoryOK, VerifiedPCs, OwnerPCs
    <3> QED BY <2>3, <3>2, <3>4, <3>5, QuietGoto DEF ChallengedPCs
  <2>14. ~(RejectPayment(r) \/ Review(r) \/ FailBeforeDispatch(r) \/ SettleUnknown(r)
           \/ RecordDelivery(r))
    BY <2>2 DEF RejectPayment, Review, FailBeforeDispatch, SettleUnknown, UpdateAndReturn,
       RecordDelivery
  <2>15. ~Dispatch(r)
    <3> SUFFICES ASSUME Dispatch(r) PROVE FALSE
      OBVIOUS
    <3>1. dispatches'[i] = dispatches[i] + 1 /\ dispatches[i] \in Nat
      BY <1>1, <2>3 DEF Dispatch, TypeOK
    <3> QED BY <3>1
  <2> QED BY <2>1, <2>5, <2>6, <2>7, <2>8, <2>9, <2>10, <2>11, <2>13, <2>14, <2>15 DEF Step
<1> QED BY <1>3, <1>4

\* The challenge comes first.
LEMMA ChallengeRecorded ==
    ASSUME EvidenceInv, Inv', NEW r \in Requests, RecordChallenge(r)
    PROVE  EvidenceInv'
<1>0. PICK next : next = AfterChallenge(view[r], req[r].proof)
  OBVIOUS
<1>1. /\ TypeOK /\ TypeOK' /\ RequestOK(r) /\ StoryOK(r) /\ pc[r] = "recordChallenge"
      /\ UNCHANGED <<dispatches, effects>>
      /\ BeginSome(r) \/ Step(r) \/ Abort(r)
  BY DEF EvidenceInv, Inv, RecordChallenge, world, Step
<1>2. PICK i \in Intents : i = req[r].intent
  BY <1>1 DEF RequestOK, ParamsOK
<1>3. /\ ChainOK(i) /\ (\A j \in Intents : BeginsOK(j)) /\ Len(chain[i]) \in Nat
      /\ chain[i] \in Seq(EventTypes) /\ appendOnce(i, "payment.challenged")
  BY <1>1, <1>2, ChainTypes DEF EvidenceInv, ChainOK, RecordChallenge
<1>4. (\A j \in Intents : ChainKept(j)) /\ Len(chain'[i]) >= 1
  <2>1. CASE \E n \in DOMAIN chain[i] : chain[i][n] = "payment.challenged"
    <3>1. UNCHANGED chain /\ Len(chain[i]) >= 1
      BY <1>3, <2>1 DEF appendOnce
    <3> QED BY <1>1, <1>3, <3>1, ChainSame
  <2>2. CASE ~\E n \in DOMAIN chain[i] : chain[i][n] = "payment.challenged"
    <3>1. Len(chain[i]) = 0
      BY <1>3, <2>2 DEF BeginsOK
    <3>2. /\ appendEvent(i, "payment.challenged") /\ "payment.challenged" \in EventTypes
          /\ Fits(i, "payment.challenged")
      BY <1>3, <2>2, <3>1 DEF appendOnce, EventTypes, Fits
    <3>3. Len(chain'[i]) = Len(chain[i]) + 1
      BY <1>1, <1>3, <3>2, ChainAppended
    <3>4. \A j \in Intents : ChainKept(j)
      BY <3>2, EventKept
    <3> QED BY <3>1, <3>3, <3>4
  <2> QED BY <2>1, <2>2
<1>5. CASE next = "idle"
  <2>1. pc'[r] = "idle"
    BY <1>0, <1>1, <1>5 DEF RecordChallenge, Return, TypeOK
  <2> QED BY <1>1, <1>4, <2>1, NoStory
<1>6. CASE next # "idle"
  <2>1. /\ next \in {"claim", "verify", "recordVerification"}
        /\ next = "claim" => view[r].paymentFinality = "finalized"
    BY <1>0, <1>6 DEF AfterChallenge
  <2>2. pc'[r] = next /\ req'[r] = req[r] /\ view'[r] = view[r]
    BY <1>0, <1>1, <1>6 DEF RecordChallenge, Goto, TypeOK
  <2>3. view[r].paymentFinality = "finalized" => Len(chain[i]) >= 2
    BY <1>1, <1>2 DEF StoryOK, ViewPCs
  <2>4. Len(chain'[i]) \in Nat /\ Len(chain'[i]) >= Len(chain[i])
    BY <1>1, <1>4 DEF ChainKept, TypeOK
  <2>5. view[r].paymentFinality = "finalized" => Len(chain'[i]) >= 2
    BY <1>3, <2>3, <2>4
  <2> QED BY <1>1, <1>2, <1>4, <2>1, <2>2, <2>5, EventGoto DEF VerifiedPCs, OwnerPCs
<1> QED BY <1>5, <1>6

\* The verification comes second.
LEMMA VerificationRecorded ==
    ASSUME EvidenceInv, Inv', NEW r \in Requests, RecordVerification(r)
    PROVE  EvidenceInv'
<1>1. /\ TypeOK /\ RequestOK(r) /\ StoryOK(r) /\ pc[r] = "recordVerification"
      /\ UNCHANGED <<dispatches, effects>>
      /\ BeginSome(r) \/ Step(r) \/ Abort(r)
  BY DEF EvidenceInv, Inv, RecordVerification, world, Step
<1>2. PICK i \in Intents : i = req[r].intent
  BY <1>1 DEF RequestOK, ParamsOK
<1>3. /\ ChainOK(i) /\ (\A j \in Intents : BeginsOK(j)) /\ Len(chain[i]) \in Nat
      /\ chain[i] \in Seq(EventTypes) /\ appendOnce(i, "payment.verified")
      /\ Len(chain[i]) >= 1
  BY <1>1, <1>2, ChainTypes DEF EvidenceInv, ChainOK, RecordVerification, StoryOK, ChallengedPCs
<1>4. (\A j \in Intents : ChainKept(j)) /\ Len(chain'[i]) >= 2
  <2>1. CASE \E n \in DOMAIN chain[i] : chain[i][n] = "payment.verified"
    <3>1. PICK n \in 1 .. Len(chain[i]) : chain[i][n] = "payment.verified"
      BY <1>3, <2>1
    <3>2. n # 1
      BY <1>3, <3>1 DEF BeginsOK
    <3>3. UNCHANGED chain /\ Len(chain[i]) >= 2
      BY <1>3, <2>1, <3>1, <3>2 DEF appendOnce
    <3> QED BY <1>1, <1>3, <3>3, ChainSame
  <2>2. CASE ~\E n \in DOMAIN chain[i] : chain[i][n] = "payment.verified"
    <3>1. Len(chain[i]) = 1
      <4>1. Len(chain[i]) >= 2 => 2 \in DOMAIN chain[i] /\ chain[i][2] = "payment.verified"
        BY <1>3 DEF BeginsOK
      <4>2. ~(Len(chain[i]) >= 2)
        BY <2>2, <4>1
      <4>3. ASSUME NEW n \in Nat, n >= 1, ~(n >= 2) PROVE n = 1
        BY <4>3
      <4> QED BY <1>3, <4>2, <4>3
    <3>2. /\ appendEvent(i, "payment.verified") /\ "payment.verified" \in EventTypes
          /\ Fits(i, "payment.verified")
      BY <1>3, <2>2, <3>1 DEF appendOnce, EventTypes, Fits
    <3>3. Len(chain'[i]) = Len(chain[i]) + 1
      BY <1>1, <1>3, <3>2, ChainAppended
    <3>4. \A j \in Intents : ChainKept(j)
      BY <3>2, EventKept
    <3> QED BY <3>1, <3>3, <3>4
  <2> QED BY <2>1, <2>2
<1>5. pc'[r] = "settle" /\ req'[r] = req[r]
  BY <1>1 DEF RecordVerification, Goto, TypeOK
<1> QED BY <1>1, <1>2, <1>4, <1>5, EventGoto DEF ChallengedPCs

\* A forwarding event is on record before the call it announces.
LEMMA ForwardingRecorded ==
    ASSUME EvidenceInv, Inv', NEW r \in Requests, RecordForwarding(r)
    PROVE  EvidenceInv'
<1>1. /\ TypeOK /\ RequestOK(r) /\ StoryOK(r) /\ pc[r] = "recordForwarding"
      /\ UNCHANGED <<dispatches, effects>>
      /\ BeginSome(r) \/ Step(r) \/ Abort(r)
  BY DEF EvidenceInv, Inv, RecordForwarding, world, Step
<1>2. PICK i \in Intents : i = req[r].intent
  BY <1>1 DEF RequestOK, ParamsOK
<1>3. /\ ChainOK(i) /\ (\A j \in Intents : BeginsOK(j)) /\ Len(chain[i]) \in Nat
      /\ Forwards(i) \in Nat /\ dispatches[i] \in Nat
      /\ Len(chain[i]) >= 2
  BY <1>1, <1>2, ChainTypes DEF EvidenceInv, ChainOK, StoryOK, VerifiedPCs, OwnerPCs
<1>4. req'[r] = req[r] /\ pc'[r] \in {"sign", "failBefore"}
  BY <1>1 DEF RecordForwarding, GiveUp, Goto, TypeOK
<1>5. CASE UNCHANGED chain /\ ~appendEvent(i, "proxy.forwarded")
  <2>1. pc'[r] = "failBefore"
    BY <1>1, <1>2, <1>5 DEF RecordForwarding, GiveUp, Goto, TypeOK
  <2> QED BY <1>1, <1>2, <1>3, <1>4, <1>5, <2>1, QuietGoto DEF ChallengedPCs
<1>6. CASE appendEvent(i, "proxy.forwarded")
  <2>0. Len(chain[i]) # 0 /\ Len(chain[i]) # 1
    <3>1. ASSUME NEW n \in Nat, n >= 2 PROVE n # 0 /\ n # 1
      BY <3>1
    <3> QED BY <1>3, <3>1
  <2>1. "proxy.forwarded" \in EventTypes /\ Fits(i, "proxy.forwarded")
    BY <2>0 DEF EventTypes, Fits
  <2>2. /\ Len(chain'[i]) = Len(chain[i]) + 1
        /\ Forwards(i)' = Forwards(i) + 1
    BY <1>1, <1>3, <1>6, <2>1, ChainAppended
  <2>3. \A j \in Intents : ChainKept(j)
    BY <1>6, <2>1, EventKept
  <2>4. Forwards(i)' > dispatches'[i] /\ Len(chain'[i]) >= 2
    BY <1>1, <1>3, <2>2 DEF ChainOK
  <2> QED BY <1>1, <1>2, <1>4, <2>3, <2>4, EventGoto DEF ChallengedPCs
<1> QED BY <1>2, <1>5, <1>6 DEF RecordForwarding

\* A seller call has its forwarding event, and awaits its outcome.
LEMMA DispatchRecorded ==
    ASSUME EvidenceInv, Inv', NEW r \in Requests, Dispatch(r)
    PROVE  EvidenceInv'
<1>1. /\ TypeOK /\ TypeOK' /\ RequestOK(r) /\ StoryOK(r) /\ pc[r] = "dispatch" /\ Inv
      /\ UNCHANGED <<store, req, view>>
      /\ BeginSome(r) \/ Step(r) \/ Abort(r)
  BY DEF EvidenceInv, Inv, Dispatch, Step
<1>2. PICK i \in Intents : i = req[r].intent
  BY <1>1 DEF RequestOK, ParamsOK
<1>3. /\ pc'[r] = "saveOutcome" /\ req'[r] = req[r] /\ view'[r] = view[r]
      /\ dispatches'[i] = dispatches[i] + 1
      /\ \A j \in Intents \ {i} : dispatches'[j] = dispatches[j]
      /\ UNCHANGED <<txn, chain>>
  BY <1>1, <1>2 DEF Dispatch, Goto, TypeOK, store
<1>4. OthersUntouched(r)
  BY <1>1, StepUntouched
<1>5. \A j \in Intents : /\ ChainOK(j) /\ BeginsOK(j) /\ ChainKept(j)
                         /\ Forwards(j)' = Forwards(j)
  BY <1>1, <1>3, ChainSame DEF EvidenceInv, ChainOK
<1>6. \A j \in Intents : Delivered(j) => Delivered(j)'
  BY <1>3 DEF Delivered
<1>7. StoryOK(r)'
  BY <1>1, <1>2, <1>3 DEF StoryOK, ChallengedPCs, VerifiedPCs, OwnerPCs
<1>8. ASSUME NEW q \in Requests \ {r} PROVE StoryOK(q)'
  <2>1. pc[q] \in {"sign", "dispatch"} =>
          dispatches'[req[q].intent] = dispatches[req[q].intent]
    <3> SUFFICES ASSUME pc[q] \in {"sign", "dispatch"}
                 PROVE  req[q].intent \in Intents \ {i}
      BY <1>3
    <3> QED BY <1>1, <1>2, NoOtherOwner DEF OwnerPCs, Inv, RequestOK, ParamsOK
  <2> QED BY <1>1, <1>4, <1>5, <1>6, <2>1, StoryKept DEF ChainKept
<1>9. ASSUME NEW j \in Intents PROVE ChainOK(j)'
  <2>0. ChainOK(j) /\ BeginsOK(j)' /\ Forwards(j)' = Forwards(j) /\ Outcomes(j)' = Outcomes(j)
    BY <1>5 DEF ChainKept
  <2>1. /\ Forwards(j) \in Nat /\ Outcomes(j) \in Nat /\ dispatches[j] \in Nat
    BY <1>1, ChainTypes
  <2>2. CASE j # i
    <3>1. pc'[r] \in PendingPCs /\ req'[r].intent = j => r \in Pending(j)
      BY <1>2, <1>3, <2>2
    <3>2. /\ IsFiniteSet(Pending(j)') /\ Cardinality(Pending(j)') \in Nat
          /\ Cardinality(Pending(j)) \in Nat
          /\ Cardinality(Pending(j)') <= Cardinality(Pending(j))
      BY <1>1, <1>4, <2>0, <3>1, PendingKept DEF ChainOK
    <3>3. dispatches'[j] = dispatches[j]
      BY <1>3, <2>2
    <3>4. Outcomes(j)' + Cardinality(Pending(j)') <= dispatches'[j]
      BY <2>0, <2>1, <3>2, <3>3 DEF ChainOK
    <3> QED BY <1>3, <2>0, <3>2, <3>3, <3>4 DEF ChainOK, Delivered
  <2>3. CASE j = i
    <3>1. r \notin Pending(i) /\ Pending(i)' = Pending(i) \cup {r}
      BY <1>1, <1>2, <1>3, <1>4 DEF Pending, PendingPCs, OthersUntouched
    <3>2. IsFiniteSet(Pending(i)) /\ Cardinality(Pending(i)) \in Nat
      BY <2>0, <2>3, FS_CardinalityType DEF ChainOK
    <3>3. /\ IsFiniteSet(Pending(i)')
          /\ Cardinality(Pending(i)') = Cardinality(Pending(i)) + 1
      BY <3>1, <3>2, FS_AddElement
    <3>4. Forwards(i) > dispatches[i]
      BY <1>1, <1>2 DEF StoryOK
    <3>5. /\ Outcomes(i)' + Cardinality(Pending(i)') <= dispatches'[i]
          /\ Forwards(i)' >= dispatches'[i]
      BY <1>3, <2>0, <2>1, <2>3, <3>2, <3>3, <3>4 DEF ChainOK
    <3> QED BY <1>3, <2>0, <2>3, <3>3, <3>5 DEF ChainOK, Delivered
  <2> QED BY <2>2, <2>3
<1> QED BY <1>7, <1>8, <1>9 DEF EvidenceInv

\* A delivery event reports a call that was made, and success only after the
\* seller delivered.
LEMMA DeliveryRecorded ==
    ASSUME EvidenceInv, Inv', NEW r \in Requests, RecordDelivery(r)
    PROVE  EvidenceInv'
<1>1. /\ TypeOK /\ TypeOK' /\ RequestOK(r) /\ StoryOK(r) /\ pc[r] = "recordDelivery" /\ Inv
      /\ UNCHANGED <<txn, world>>
      /\ BeginSome(r) \/ Step(r) \/ Abort(r)
  BY DEF EvidenceInv, Inv, RecordDelivery, Step
<1>2. PICK i \in Intents : i = req[r].intent
  BY <1>1 DEF RequestOK, ParamsOK
<1>3. PICK event \in {"delivery.succeeded", "delivery.failed"} :
        /\ appendEvent(i, event)
        /\ event = "delivery.succeeded" <=> result[r].status = "2xx"
  BY <1>2 DEF RecordDelivery
<1>4. pc'[r] = "idle" /\ UNCHANGED dispatches
  BY <1>1 DEF RecordDelivery, Return, TypeOK, world
<1>5. OthersUntouched(r)
  BY <1>1, StepUntouched
<1>6. \A j \in Intents : ChainOK(j) /\ BeginsOK(j)
  BY DEF EvidenceInv, ChainOK
<1>7. Len(chain[i]) >= 2 /\ Len(chain[i]) \in Nat
  BY <1>1, <1>2, ChainTypes DEF StoryOK, VerifiedPCs
<1>8. /\ Len(chain'[i]) = Len(chain[i]) + 1 /\ BeginsOK(i)'
      /\ \A j \in Intents \ {i} : chain'[j] = chain[j]
      /\ Forwards(i)' = Forwards(i)
      /\ Outcomes(i)' = Outcomes(i) + 1
      /\ event # "delivery.succeeded" =>
           ((\E n \in DOMAIN chain'[i] : chain'[i][n] = "delivery.succeeded") =>
              \E n \in DOMAIN chain[i] : chain[i][n] = "delivery.succeeded")
  <2>1. event \in EventTypes /\ Fits(i, event) /\ event # "proxy.forwarded"
    BY <1>7 DEF EventTypes, Fits
  <2>2. Forwards(i) \in Nat
    BY <1>1, ChainTypes
  <2> QED BY <1>1, <1>3, <1>6, <2>1, <2>2, ChainAppended
<1>9. \A j \in Intents \ {i} : ChainKept(j) /\ Forwards(j)' = Forwards(j)
  BY <1>1, <1>6, <1>8, ChainSame
<1>10. \A j \in Intents : Delivered(j) <=> Delivered(j)'
  BY <1>1 DEF Delivered
<1>11. \A j \in Intents : Len(chain'[j]) >= Len(chain[j]) /\ Forwards(j)' >= Forwards(j)
  <2>1. \A j \in Intents : Len(chain[j]) \in Nat /\ Forwards(j) \in Nat
    BY <1>1, ChainTypes
  <2> QED BY <1>8, <1>9, <2>1 DEF ChainKept
<1>12. ASSUME NEW q \in Requests PROVE StoryOK(q)'
  <2>1. CASE q = r
    BY <1>4, <2>1 DEF StoryOK, ChallengedPCs, VerifiedPCs, ViewPCs, OwnerPCs, ProofPCs, SettlementPCs
  <2>2. CASE q # r
    BY <1>1, <1>4, <1>5, <1>10, <1>11, <2>2, StoryKept
  <2> QED BY <2>1, <2>2
<1>13. ASSUME NEW j \in Intents PROVE ChainOK(j)'
  <2>0. /\ ChainOK(j) /\ txn'[j] = txn[j] /\ dispatches'[j] = dispatches[j]
        /\ IsFiniteSet(Pending(j)) /\ pc'[r] \notin PendingPCs
    BY <1>1, <1>4, <1>6 DEF ChainOK, PendingPCs
  <2>1. /\ Forwards(j) \in Nat /\ Outcomes(j) \in Nat /\ dispatches[j] \in Nat
        /\ Len(chain[j]) \in Nat
    BY <1>1, ChainTypes
  <2>2. CASE j # i
    <3>1. /\ IsFiniteSet(Pending(j)') /\ Cardinality(Pending(j)') \in Nat
          /\ Cardinality(Pending(j)) \in Nat
          /\ Cardinality(Pending(j)') <= Cardinality(Pending(j))
      BY <1>1, <1>5, <2>0, PendingKept
    <3>2. Outcomes(j)' = Outcomes(j) /\ BeginsOK(j)' /\ chain'[j] = chain[j]
      BY <1>8, <1>9, <2>2 DEF ChainKept
    <3>3. Outcomes(j)' + Cardinality(Pending(j)') <= dispatches'[j]
      BY <2>0, <2>1, <3>1, <3>2 DEF ChainOK
    <3> QED BY <1>9, <1>10, <2>0, <2>2, <3>1, <3>2, <3>3 DEF ChainOK
  <2>3. CASE j = i
    <3>1. r \in Pending(i) /\ Pending(i)' = Pending(i) \ {r}
      BY <1>1, <1>2, <1>4, <1>5 DEF Pending, PendingPCs, OthersUntouched
    <3>2. Cardinality(Pending(i)) \in Nat
      BY <2>0, <2>3, FS_CardinalityType
    <3>3. /\ IsFiniteSet(Pending(i)')
          /\ Cardinality(Pending(i)') = Cardinality(Pending(i)) - 1
      BY <2>0, <2>3, <3>1, FS_RemoveElement
    <3>4. Outcomes(i)' + Cardinality(Pending(i)') <= dispatches'[i]
      BY <1>8, <2>0, <2>1, <2>3, <3>2, <3>3 DEF ChainOK
    <3>5. (\E n \in DOMAIN chain'[i] : chain'[i][n] = "delivery.succeeded") => Delivered(i)'
      <4>1. CASE event = "delivery.succeeded"
        BY <1>1, <1>2, <1>3, <1>10, <4>1 DEF StoryOK
      <4>2. CASE event # "delivery.succeeded"
        BY <1>8, <1>10, <2>0, <2>3, <4>2 DEF ChainOK
      <4> QED BY <4>1, <4>2
    <3>6. Len(chain'[i]) >= 2
      BY <1>7, <1>8
    <3> QED BY <1>8, <2>0, <2>3, <3>3, <3>4, <3>5, <3>6 DEF ChainOK
  <2> QED BY <2>2, <2>3
<1> QED BY <1>12, <1>13 DEF EvidenceInv

\* No request has called the seller at the start.
LEMMA EvidenceInit == Init => EvidenceInv
<1> SUFFICES ASSUME Init PROVE EvidenceInv
  OBVIOUS
<1>1. Inv
  BY InitOK
<1>2. ASSUME NEW r \in Requests PROVE StoryOK(r)
  BY DEF Init, StoryOK, ChallengedPCs, VerifiedPCs, ViewPCs, OwnerPCs, ProofPCs, SettlementPCs
<1>3. ASSUME NEW i \in Intents PROVE ChainOK(i)
  <2>1. chain[i] = << >> /\ chain[i] \in Seq(EventTypes) /\ dispatches[i] = 0 /\ txn[i] = NoTxn
        /\ Len(chain[i]) = 0 /\ DOMAIN chain[i] = {}
    BY DEF Init
  <2>2. Pending(i) = {}
    BY DEF Init, Pending, PendingPCs
  <2>3. IsFiniteSet(Pending(i)) /\ Cardinality(Pending(i)) = 0
    BY <2>2, FS_EmptySet
  <2>4. /\ Count(chain[i], "proxy.forwarded") = 0
        /\ Count(chain[i], "delivery.succeeded") = 0
        /\ Count(chain[i], "delivery.failed") = 0
    BY <2>1, CountType
  <2> QED BY <2>1, <2>3, <2>4 DEF ChainOK, BeginsOK, Forwards, Outcomes
<1> QED BY <1>1, <1>2, <1>3 DEF EvidenceInv

\* Every step of a request keeps the story of the chains true.
LEMMA EvidenceStep ==
    ASSUME EvidenceInv, Inv', NEW r \in Requests, BeginSome(r) \/ Step(r) \/ Abort(r)
    PROVE  EvidenceInv'
<1>1. CASE RecordChallenge(r) \/ RecordVerification(r) \/ RecordForwarding(r)
  BY <1>1, ChallengeRecorded, VerificationRecorded, ForwardingRecorded
<1>2. CASE Dispatch(r) \/ RecordDelivery(r)
  BY <1>2, DispatchRecorded, DeliveryRecorded
<1>3. CASE ~(RecordChallenge(r) \/ RecordVerification(r) \/ RecordForwarding(r) \/ Dispatch(r)
             \/ RecordDelivery(r))
  <2>1. UNCHANGED <<chain, dispatches, effects>>
    BY <1>3 DEF BeginSome, Begin, Abort, Step, LoadForRetry, Load, Verify, SettleConfirmed,
       SettleRefused, SettleUnknown, Sign, PrepareRetry, SaveVerified, Finalize, Create,
       RejectPayment, Review, Claim, FailBeforeDispatch, SaveOutcome, store, world
  <2> QED BY <1>3, <2>1, QuietSteps
<1> QED BY <1>1, <1>2, <1>3

\* What the invariant says of the evidence.
LEMMA EvidenceOK == EvidenceInv => EvidenceCoversDispatch
<1> SUFFICES ASSUME EvidenceInv, NEW i \in Intents
             PROVE  /\ Count(chain[i], "proxy.forwarded") >= dispatches[i]
                    /\ Count(chain[i], "delivery.succeeded")
                         + Count(chain[i], "delivery.failed") <= dispatches[i]
                    /\ dispatches[i] > 0 =>
                         /\ chain[i][1] = "payment.challenged"
                         /\ chain[i][2] = "payment.verified"
                    /\ Count(chain[i], "delivery.succeeded") = 1 => effects[i] = 1
  BY DEF EvidenceCoversDispatch
<1>1. TypeOK /\ RecordOK(i) /\ ChainOK(i)
  BY DEF EvidenceInv, Inv
<1>2. /\ chain[i] \in Seq(EventTypes) /\ Len(chain[i]) \in Nat
      /\ Outcomes(i) \in Nat /\ dispatches[i] \in Nat
  BY <1>1, ChainTypes
<1>3. Count(chain[i], "proxy.forwarded") >= dispatches[i]
  BY <1>1 DEF ChainOK, Forwards
<1>4. Count(chain[i], "delivery.succeeded") + Count(chain[i], "delivery.failed") <= dispatches[i]
  <2>1. Cardinality(Pending(i)) \in Nat
    BY <1>1, FS_CardinalityType DEF ChainOK
  <2>2. Outcomes(i) <= dispatches[i]
    BY <1>1, <1>2, <2>1 DEF ChainOK
  <2> QED BY <2>2 DEF Outcomes
<1>5. ASSUME dispatches[i] > 0
      PROVE  chain[i][1] = "payment.challenged" /\ chain[i][2] = "payment.verified"
  <2>1. txn[i] # NoTxn /\ txn[i].paymentFinality = "finalized"
    BY <1>1, <1>2, <1>5 DEF RecordOK, StoredOK
  <2>2. Len(chain[i]) >= 2
    BY <1>1, <2>1 DEF ChainOK
  <2>3. ASSUME NEW n \in Nat, n >= 2 PROVE n >= 1
    BY <2>3
  <2>4. Len(chain[i]) >= 1
    BY <1>2, <2>2, <2>3
  <2> QED BY <1>1, <2>2, <2>4 DEF ChainOK, BeginsOK
<1>6. ASSUME Count(chain[i], "delivery.succeeded") = 1 PROVE effects[i] = 1
  <2>1. \E n \in DOMAIN chain[i] : chain[i][n] = "delivery.succeeded"
    <3>1. Count(chain[i], "delivery.succeeded") # 0
      BY <1>6
    <3>2. Count(chain[i], "delivery.succeeded") = 0
            <=> ~\E n \in DOMAIN chain[i] : chain[i][n] = "delivery.succeeded"
      BY <1>2, CountType
    <3> QED BY <3>1, <3>2
  <2>2. Delivered(i)
    BY <1>1, <2>1 DEF ChainOK
  <2> QED BY <1>1, <2>2 DEF Delivered, RecordOK, StoredOK
<1> QED BY <1>3, <1>4, <1>5, <1>6

\* The chain of every transaction tells the story of its seller calls: each was
\* announced, after the challenge and the verification, and no delivery is on
\* record that was not made.
THEOREM EvidenceTellsTheStory == Spec => []EvidenceCoversDispatch
<1>1. EvidenceInv /\ [Next]_vars => EvidenceInv'
  <2> SUFFICES ASSUME EvidenceInv, [Next]_vars PROVE EvidenceInv'
    OBVIOUS
  <2>1. Inv'
    BY NextOK DEF EvidenceInv
  <2>2. CASE UNCHANGED vars
    <3>1. \A i \in Intents : ChainOK(i)'
      BY <2>2 DEF vars, EvidenceInv, ChainOK, BeginsOK, Delivered, Forwards, Outcomes, Pending
    <3>2. \A r \in Requests : StoryOK(r)'
      BY <2>2 DEF vars, EvidenceInv, StoryOK, Delivered, Forwards
    <3> QED BY <2>1, <3>1, <3>2 DEF EvidenceInv
  <2>3. CASE Next
    BY <2>1, <2>3, EvidenceStep DEF Next
  <2> QED BY <2>2, <2>3
<1> QED BY <1>1, EvidenceInit, EvidenceOK, PTL DEF Spec
=============================================================================

# Verification of AgentPay

AgentPay is a Go service that lets a seller offer an HTTP API for an exact
price: a buyer freezes a purchase intent, pays it with x402, and the service
settles the payment and calls the seller once. This directory holds TLA+ models
of the parts of that service in which several requests, processes or parties
meet over shared state, TLC runs that check them on small instances, and TLAPS
proofs of the most important properties for instances of every size.

All processes of AgentPay share one DynamoDB table and nothing else. They read
an item, compute, and write it back under a condition, mostly on a version
number. The models follow that: an action is one call to the store or to an
outside party together with the local code up to the next call, a process holds
the copies it has read, and a crash may come before any call.

## Inventory

| Component | State | Operations | Interacts with | Hard behaviour | What makes it correct |
|---|---|---|---|---|---|
| transactions (`internal/transactions`, `dynamodb/transactions.go`) | one versioned record per intent; payment-claim items | the transition methods; Create, Update, ClaimForwarding; filtered list | checkout, proxy, disputes | lost updates, double claims | no recorded fact is undone; a payment belongs to one transaction |
| checkout (`internal/payments/checkout_service.go`) | none of its own; locals of a request | Execute: load, challenge, verify, settle, finalize or refuse, execute; corrected retry | facilitator, transactions, evidence, proxy | unknown settlement outcomes, concurrent retries, crashes | pay once, never forward unpaid, never write off what settled |
| payment adapters (`internal/payments/service.go`) | none | Verify, Settle | x402 facilitator | lost replies, missing or different payers | outcomes are classified as confirmed, refused or unknown |
| proxy (`internal/proxy/service.go`) | none of its own | Execute: claim, evidence, sign, call, record | seller, evidence, KMS | one seller call at most; crash after the claim | one effect per purchase, bound body, decided outcome |
| intents (`internal/intents`, `payments/service.go`) | one versioned record per intent | Create, Cancel, Resolve (claim or expire) | catalog, approvals | a three-way race on stale copies and clocks | one outcome, told to everybody |
| approvals, realtime | a session profile, one record per invitation; connections | Create, Decide, Get; register, snapshot, publish | intents | torn read, concurrent decisions, updates that overtake the snapshot | unanimous, final, and shown as it is |
| evidence (`internal/evidence`, `evidencestore`) | a signed hash chain per transaction | append, appendOnce, list, verify | checkout, proxy, S3, KMS | sequence races, stale lists, skewed clocks | every chain verifies; nothing acknowledged is lost |
| disputes and refunds (`internal/disputes`) | disputes, refund records | Create, RecordManualRefund | transactions, audit | two writes that are not atomic, stale verdicts | one dispute, one refund, a true verdict |
| reports (`transactions/models.go`, `internal/analytics`) | none | lifecycle, receipt, sales | transactions | projections of odd histories and of different ages | safe advice, figures true to the money |
| browser purchases (`internal/browserpurchase`) | sessions, grants, recovery challenges | Create, Authorize, ClaimTransaction, Complete, Recover | checkout | a session used twice, expiry during payment, racing recoveries | one payment per session, one grant opens it |
| HTTP mutations (`internal/api`, the controllers) | idempotency records | authorize, check, execute, save | every service | repetition in between, cut-off before the record | a used key writes nothing more |
| confirmation grants, MCP mutations | grants, replay records | Create, Consume, mutate | keys, catalog | spent grant, lost mutation or answer | what was confirmed happens once, as seen |
| entitlement (`internal/billing`, `cmd/ops-entitlement`) | the entitlement, its reconciliations, the provider-event inbox | Ingest, Reconcile, operator grant/suspend/cancel | Stripe, operators, keys | concurrent writers, lost replies, conflicting payloads | every interruption moves the epoch; an applied event was applied |
| project keys, access tokens (`internal/integrations`, `internal/authorization`) | credentials, rotation replays; tokens are stateless | Create, Rotate, Revoke, exchange, use | entitlement, quotas | withdrawal between two reads, repeated rotations | withdrawn authority is refused; one successor per key |
| catalog (`internal/catalog`) | seller, routes with versions, directory, outbox | route lifecycle, price, publication | entitlement, workspace, audit | index reads of any age, terms edited before the publication is written | what is on sale is what was approved, and is found |
| publication outbox, storefront (`internal/publicationops`, `internal/storefront`) | publication state, completion records | Process, refresh, manifest, directory pages | catalog, entitlement | repeated and reordered events, racing servers | a revision names one catalog; served terms were published |
| audit (`internal/audit`) | immutable events | Record, List | all seller mutations | event after the change, fields from a stale copy | the trail and the history of the routes match |
| settlement destinations (`internal/settlement`) | destinations, challenges, the claim of a pair | Create, IssueOwnershipChallenge, VerifyOwnership | wallets | two activations | one active destination per asset and network |
| webhooks, quota counters (`internal/notifications`, `internal/operations`) | subscriptions, deliveries, counters with claims | Create, Disable, Enqueue, Attempt, Redeliver | receivers | double attempts, repeats at the limit, end of the month | a delivery is counted once and stays delivered |
| usage (`internal/billing/usage_service.go`) | meter events, source claims | record, ExportInvoice | proxy | text order of time keys | adjacent invoices add up |
| seller workspace, sandbox (`internal/sellerworkspace`) | one record per seller | settings, preview, connector, validation | catalog, storefront | five writers of one record | no acknowledged progress is lost |
| identity (`internal/identity`) | key cache, revocation records | authenticate, revoke | Cognito | late key fetches, logouts in any order | withdrawn trust is refused |
| development seed (`internal/devseed`, memory repositories) | process memory | reset and seed, cancel | all services of one process | requests between two steps of a reset | the profile is whole or absent |
| agents, analyzers, setup bundles, health, observability, KMS and secrets clients, SDK, connector, web application | logs, caches | | | | not modelled, see below |

`PROJECT.json` lists every component with its status, and under `hazards` each
place where the code can go wrong in a way a test would hardly reach, with the
property that covers it.

## Modules

| Module | Models |
|---|---|
| `Transaction` | the transaction aggregate: its methods as pairs of a guard and a result |
| `Checkout` (extends `Transaction`) | `CheckoutService.Execute` and `ExecutionService.Execute` over store, facilitator and seller |
| `Reporting` (extends `Checkout`) | lifecycle, advice, receipt, reconciliation stage, sales figures |
| `Purchase` | the promise of a paid purchase to buyer, seller and facilitator, abstractly |
| `Remediation` (extends `Checkout`) | disputes and manual refunds beside purchases that are still running; refines `Purchase` |
| `OneOutcome` | the promise of an intent to its buyer, abstractly |
| `PurchaseIntent` | Cancel, Resolve, claim and expiry; refines `OneOutcome` |
| `BrowserPurchase` | browser sessions with their grants, claims, completion and recovery |
| `ApprovalSession` | approval sessions and their live updates |
| `ConfirmationGrants` | grants and the MCP mutations they allow |
| `Gateway` | the idempotent mutations of the HTTP interface, nineteen handlers |
| `EvidenceChain` | the recorder over S3, DynamoDB and memory |
| `Entitlement` | the entitlement, the provider-event inbox, workers and operators |
| `ProjectKeys` (extends `Entitlement`) | project keys, rotations, exchanges and tokens |
| `Catalog` | seller, routes, directory and outbox |
| `Storefront` (extends `Catalog`) | publication revisions and signed documents |
| `AuditTrail` (extends `Catalog`) | audit events of the requests on routes |
| `Settlement`, `Webhooks`, `Workspace`, `SellerSessions` | the components of these names |
| `SortKeys`, `Usage` (extends it) | time keys as text; meter events and invoices |
| `Listing` | four paged lists |
| `DevSeed` (instantiates `Transaction`) | the seeded development store |
| `CheckoutProofs`, `RemediationProofs`, `PurchaseProofs`, `ConsentProofs`, `EvidenceChainProofs`, `AccessProofs`, `CatalogProofs`, `SellerProofs` | theorems and proofs (see Proofs) |
| `MC*` | constants, symmetries and compositions of the TLC instances |

### Checkout

A handler of `Requests` is a goroutine that serves `POST /pay`. `pc[r]` is the
call it makes next; `view[r]` is its copy of the transaction, `payer[r]` the
payer it verified, `result[r]` what the seller call reported. The store is
`txn`, `claims` (payment-claim items) and `chain` (evidence). The world is
`ledger` (what became of a payment authorization), `dispatches` (seller calls)
and `effects` (calls that took effect).

| Call in the code | Action |
|---|---|
| body differs from the intent's: load, `retryCorrectedFulfillment` | `LoadForRetry`, `PrepareRetry` |
| `loadOrCreateTransaction` | `Load`, `Create` |
| `RecordPaymentChallenged`, then the branches on proof and finality | `RecordChallenge` with `AfterChallenge` |
| `Verify`, `VerifyPayment` + `Update` with payment claim, evidence | `Verify`, `SaveVerified`, `RecordVerification` |
| `Settle` and its three outcomes | `SettleConfirmed`, `SettleRefused`, `SettleUnknown` |
| `FinalizePayment`, `FailPayment`, `RequirePaymentReview` + `Update` | `Finalize`, `RejectPayment`, `Review` |
| `ClaimForwarding`, evidence, signature, `failBeforeDispatch` | `Claim`, `RecordForwarding`, `Sign`, `FailBeforeDispatch` |
| `Forward`, outcome, delivery evidence | `Dispatch`, `SaveOutcome`, `RecordDelivery` |
| an error or a crash between two calls | `Abort` |

A request starts after its intent was claimed (that is `PurchaseIntent`). The
entitlement check, schema validation and the browser session end a request
before a write and are `Abort`. Hashes are values: two proofs or bodies are
equal when their hashes are. Transaction ids derive from intent ids, so the
intent names the transaction. The facilitator and the seller are external:
`Transfer`, `Refuse`, `ReportedPayer` and `EffectsOf` say what the code may meet.
An ideal facilitator transfers an authorization at most once and never refuses
one it transferred; the constant `Quirks` adds the departures the code has
branches for.

### PurchaseIntent

Actors run `Service.Cancel` or `PaidRouteService.Resolve`. Time is what the code
compares: whether the deadline of the intent is reached, read again at each
point where the code reads its clock. `Write` may report a failure although it
was applied, because the SDK repeats a conditional write whose reply was lost.
Intents under approval never leave `approval_pending`: neither operation writes
them, which is what the code does.

### Remediation

Clerks are dispute and refund requests. `Service.Create` makes three dependent
writes (transaction, dispute, transaction), `RecordManualRefund` two (record,
audit event); a clerk may be cut off between them. `classify` is the code's
table; "is the amount right" compares the amount with itself in the code, so it
is only whether a payment is on record.

`ImplementsPurchase` compares all of it, the requests of `Checkout` included, with
`Purchase`, which knows no requests, copies, versions or cut-offs. Payment and
finality are those of the stored record, `moved` is what the facilitator settled,
`effect` what the seller did. The stage of a delivery is read off the status and
the number of attempts (`DeliveryStage`): FORWARDED is *working* at the first
attempt and *retrying* at the second, a FAILED record is *retryable* while the
code allows a corrected body, one that waits with an attempt behind it has been
*reopened*. A disputed transaction stays *disputed* whatever its verdict. Where
the facilitator refuses what it transferred, the constant `FalseRefusals` allows
`Purchase` to turn down a payment that moved; without that quirk it may not.

### Entitlement

Every writer reads the entitlement, computes a complete successor
(`ReconcileSellerEntitlement` and its helpers, translated rule by rule) and
commits it with its reconciliation record on the version it has read. Workers
take an event of the inbox, ask the provider for the subscription as it is now,
and write; the action `Retry` is the loop over
`maximumEntitlementReconcileAttempts`. Operators are runs of `ops-entitlement`
with `--apply`: the digest they must repeat binds the entitlement reviewed, so a
dry run leaves nothing to model; operation ids are fresh, a repeated one is
answered from its record. Repository methods that read an event and then replace
it under a condition on the state they read are one action: if the state
changed in between they fail, which is the branch without effect.

Plan, period start and provider ids are left out: no rule reads them. The
Stripe statuses `incomplete_expired` and `trialing` are treated by the code as
`incomplete`. The branches for a fraud quarantine and a closed account are
translated, but no command of the repository creates such a record, so the
instances do not reach them. `cmd/api` wires no provider state reader yet: the
production writers are the operators, which is the instance of `ProjectKeys`.
`AssignPlan` has no caller and is left out.

### ProjectKeys

A session is one request: Create, Rotate, Revoke, the exchange of a key for a
token, or the use of a token, split at its store calls. The exchange makes six:
key, entitlement, entitlement again with the quota (`ConsumeAPIRequest`), the
update of the key, then key and entitlement once more. Tokens are stateless:
`tokens` is what was issued, and any of it may be presented at any time.
`withdrawn` and `revision` are ghosts: whether, when the request arrived, the
key was revoked or the subscription had been interrupted since it was issued.
Digest, scopes and expiry of keys and tokens are left out: they only refuse
more. A failed audit call after a write is `Abandon`.

### Reporting

Nothing is stored: each operator is computed from the stored transaction, as in
the code, and the properties compare it with `ledger` and `effects`, which the
code cannot see. Amounts are numbers of transactions. `AdviceIsSafe` is about
`CommerceLifecycleAt` and the receipt, `SalesMatchLedger` about the aggregates of
`internal/analytics`, computed over every copy that some request still holds.

### BrowserPurchase

A browser holds a grant; `checkout[p]` is a payment request that authorizes with
it, claims the session for its transaction, pays (one action; the steps are in
`Checkout`) and completes the session with the payer's wallet. A retry of a paid
purchase goes to the completion at once (`PaidBefore`). Recoveries prove the
wallet against a challenge and replace the grant. The clock counts the shortest
lifetime of the code and is read by the step that compares it.

### ApprovalSession

Profile and invitations are written together and read by two calls. `Decide` and
`Get` share their first steps; both may write on the version they read. A
connection registers, and gets its snapshot after that, so that an update may come
first.

### ConfirmationGrants

A call is five store calls: replay record, grant, spending it, the change, the
replay record. Tool, arguments and target version are what a grant binds. Other
writers move the versions of the targets. `configure_route` compares the version
of the seller in a call of its own before it creates the draft, so the version may
have moved when the draft is stored; the property excepts it.

### Gateway

Every mutating handler authorizes the caller, looks up the idempotency record,
calls the service and stores the answer. A record per handler says what differs:
which parts of a request the scope and the hash cover, whether the target must be
owned, whether the answer holds a secret that is not replayed, and what the
service does with a repetition ("once": refuses it; "guarded": expects a version;
"settled", "activate": answers with what is there; "create": makes another). Two requests that are
both under way before either is recorded may both take effect, and a cut-off
before the record leaves the effect without one; that is what the code does, and
the property is about keys that have a record.

### EvidenceChain

An event carries its predecessor's hash, its sequence number and its time. A
digest is injective: it is the record it digests. The three backends differ in
what a listing may miss and in what a write checks: S3 refuses an existing object
key only, DynamoDB also requires the predecessor, memory compares with the last
event. Servers' clocks differ by up to `MaxSkew`; `validateEventParams` refuses an
event before its predecessor's time.

### Catalog, Storefront, AuditTrail

`GetRoute` reads a secondary index and the list of a seller's routes is not a
consistent read: both may return any version that was stored, so `routes` keeps
them all and a handler that reads chooses. A handler with one conditional write
is then one action. Publishing is split, because it also depends on reads of
seller and entitlement that are consistent but earlier than its write; every
write announces itself in the outbox in the same transaction.

A job of `Storefront` is a manifest request, a refresh after a mutation or an
outbox event, which may be delivered again until its completion record is
stored. It computes the catalog once, and stores it as the next revision under
the version it loaded, up to three times.

`AuditTrail` adds to each request of the seller the audit event that follows its
write, with the fields that the handler computes from the copy it read. A route
that is created to be published at once (`CreateToPublish`, `PublishCreated`) has
one event for its two versions. An event with a field outside the vocabulary of its
action is refused after the change is stored. A request that is cut off before its
event leaves its versions in the ghost variable `unrecorded`, so that
`TrailMatchesHistory` can speak of every stored version: it has exactly one event,
a true one, or one is still to come, or it was cut off. The exception is a new price
that takes a published route off sale: the vocabulary refuses its event, and the
property says that it never gets one. The documents make no such exception (see
Divergences).

### Settlement, Webhooks

A proof reads the destination, then the list for the one that is active, and
activates with conditions on both destinations and on the claim of the pair. An
enqueued event consumes a unit of the month (`IncrementUnique`, with a claim per
month and source) and then creates the delivery; an attempt reads, sends, and
stores the outcome on the version it read, so that two workers may send the same
event. Redelivery resets a dead letter.

### Usage, SortKeys, Listing

Keys are sequences of bytes: RFC3339Nano drops trailing zeros of the fraction, and
the store compares bytes. An invoice is the range between two rendered times. The
four lists of `Listing` differ in how a page ends: one query (audit), a query that
follows its last key (deliveries), batches that are filtered until the page is
full (directory), and filtered queries over table or memory (transactions). Keys
are numbers in the order of the scan, and a page is a set: the entries with fewer
than so many before them. Entries come, stop matching and, in the directory, go between pages.

### Workspace, SellerSessions, DevSeed

The workspace record is written whole by settings, preview, connector and
validator; `acked` is what they were told. A visit of `SellerSessions` is a
request with a token: key from the cache or from a fetch whose answer may be
late, claims, revocation record; a logout stores the record until the presented
token expires. `DevSeed` writes the real list of seeded objects in the code's
order, while ordinary requests of the same process run between the steps; the
transaction methods are those of `Transaction`.

## Runs

Passing runs, with the number of distinct states (after symmetry). A run may hold
several instances, told apart by the variable `focus`: components that share no
state, of which one runs while the others keep their initial state, or two views
of one component, such as racing deliveries and racing remedies.

| Run | Instance | Shows | States |
|---|---|---|---|
| `delivery_and_remedies` | `Remediation` with `Reporting`, 1 intent, 2 bodies, cut off anywhere: 3 racing requests with the original body or 2 with any; then requests one at a time beside 2 clerks with 2 refund references | `ImplementsPurchase`, `SellerEffectAtMostOnce`, `SellerSeesBoundBody`, `EvidenceCoversDispatch`, `RecordedFactsPersist`, `AdviceIsSafe`, `SalesMatchLedger`, `RefundedAtMostOnce`, `VerdictMatchesDelivery`, `DisputeEndsDelivery` | 402,785 |
| `checkout_liveness` | 2 requests, 1 intent, 2 bodies, either body in any request, another wallet may pay, cut off where the next request makes the call again (at verification and its storing, at settlement, after the outcome) | `ForwardedIsDecided`, `CorrectedRetryIsDecided`, `VerifiedIsDecided` (its premise: buyers retry) | 120,870 |
| `requests` | intents (3 actors), browser (2 purchases, 2 wallets, 2 recoveries), approval (2 approvers, 2 calls), grants (2 grants, 2 calls, each tool), gateway (3 calls, each handler), evidence (2 appends, each backend) | `AnswersAgree`, `ImplementsOneOutcome`, `SessionPaysOnce`, `OneGrantOpensSession`, `ApprovalIsUnanimous`, `ConfirmedOnceAsSeen`, `UsedKeyWritesNothing`, `ChainAlwaysVerifies`, `AcknowledgedEvidenceIsKept` | 875,554 |
| `seller_records` | catalog with its audit trail (2 requests, 1 route with 4 versions, 2 names, 2 prices, cut off anywhere), storefront, destinations, webhooks, usage, lists, workspace, sessions, development seed | `RevisionNamesOneCatalog`, `ServedTermsWerePublished`, `PublishedIsFoundAsApproved`, `TrailMatchesHistory`, `OneActiveDestination`, `UnitsCoverDeliveries`, `DeliveredStaysDelivered`, `InvoicesAddUp`, `PagesMissNothing`, `AcknowledgedProgressIsKept`, `ProfileIsWholeOrAbsent`, `WithdrawnTrustIsRefused` | 765,903 |
| `payments_and_access` | checkout: 2 requests, 2 intents and 2 payments of one wallet, or 1 of each and 2 wallets, all facilitator quirks, cut off anywhere; billing: 2 workers, 2 events and an operator on an entitlement in arrears; keys: 2 sessions, 3 keys and an operator, the clock standing still so that only changes of status interrupt; the first event may lose a race and is tried once more | `ChargeBelongsToOneTransaction`, `NeverForwardUnpaid`, `EpochCountsChanges`, `AppliedIsReconciled`, `WithdrawnAuthorityIsRefused`, `RotationsNeverFork` | 1,616,770 |

Why the bounds are enough for the questions asked. The races are between a
request that holds a stale copy and one that writes: two requests make each of
them; three actors of an intent let two losers follow one winner, and three calls
of a handler let a repetition meet one that is recorded and one that is not. One
intent, session or route suffices where the property is about one; two intents
and two payments, two purchases of a session, two destinations of a pair and two
subscriptions are there where something could be attached to the wrong one. Two
bodies are the original and a corrected one; the code allows one correction, for
which two requests compete. Payments meet two purchases where one could be charged
for the other, and two wallets where one could pay for the other; both at once is
covered by the proofs. Of workers, operators and sessions two run at a time, so that
each pair of kinds races.
Versions reach what a second change after a first needs: a route is published,
edited and published again with four, an entitlement granted, interrupted and
resumed with three. Time has the instants that the code tells apart: before and
after a period, a deadline or a lifetime; for keys as text a whole second, a
fraction of one digit and one of two. Lists have more entries than two pages, and
a batch that is longer than a page, so that both ends of a batch and of a page
meet. Webhooks have two months, and fewer units than repeated calls would take.

`ImplementsPurchase` is checked with the one intent of `delivery_and_remedies`, where
no payment can serve two; that it holds for any number is proved, and
`ChargeBelongsToOneTransaction` checks that part with two.

Every bound has a name in its module's constants. In `Checkout`, `PurchaseIntent`
and `Remediation` no counter needs one: a request slot is reused, and a record
changes status a bounded number of times. Where requests of an instance are alike,
the composition takes them in order, or starts from one of several equal choices
(`FirstDraft`, `CallsInOrder`, `Representative`); these are symmetries written as
conditions, because a permutation of numbers is not a symmetry for TLC. In
`seller_records` the catalog is explored three times, with its audit trail, with its
readers and with its seller, each with the part that a question needs (see
`MCSeller`): the full product of seller, entitlement, two
names and two readers would not end within minutes.

Deadlock is checked where requests can always be sent: in all runs but
`requests`, `seller_records` and `sessions_revoked_family`, in which a call is made
once or a route has a last version, so that an instance stops when all calls are
answered or a bound is reached.

A run with `expect: violation` is a statement of the documentation, or of a
comment, that the code does not keep; the counterexample is a behaviour of the
code as written:

| Run | Statement | What happens |
|---|---|---|
| `checkout_foreign_payer` | ARCHITECTURE.md:406, a settlement by another payer is never forwarded | the verified payer is a local variable; a retry of a confirmed payment has none to compare |
| `checkout_written_off` | ARCHITECTURE.md:415, an unknown outcome stays confirmed | a refusal after a lost settle reply is stored as a failed payment |
| `checkout_lost_retry` | PRODUCT.md:373, paid-but-unfulfilled purchases have a recovery path | a crash between reopening and claiming leaves a purchase no body can execute and no dispute can reach |
| `checkout_same_body` | PRODUCT.md:374-380, a failure before dispatch can be retried, and the retry "may carry corrected request bytes" | only a corrected body is taken: with the original bytes the retry is answered with `ErrPaymentReplay`, however often (`checkout_service.go:94`) |
| `remediation_lost_dispute` | PRODUCT.md:377, definitive non-delivery permits a dispute | a crash between the two writes leaves a DISPUTED transaction without a dispute, and no second try |
| `project_keys_rotation` | SUBSCRIPTION_LIFECYCLE.md:159, a successor clears the rotation requirement | the requirement is a flag of the entitlement that nothing clears; every exchange is refused |
| `sessions_revoked_family` | `identity/service.go`, Revoke "invalidates the complete token family" | the record lives as long as the presented token; a token of the family that expires later is admitted again |

### Divergences without a run of their own

- DATA_MODEL.md:1056 says that audit events are appended "for successful committed
  mutations", and `catalog/audit_integration_test.go:64-92` expects the event of a
  new price on a published route (its recorder accepts everything). The new price
  pauses the route, `priceChangeFields` (`catalog/service.go:695`) then names
  `lifecycleStatus` and `enabled`, and the vocabulary (`audit/service.go:61`) refuses
  them: price and pause are stored without an event, the caller gets an error, the
  catalog is not refreshed. `TrailMatchesHistory` states this exactly: such a change
  never has an event, every other one has unless its request was cut off.
- SUBSCRIPTION_LIFECYCLE.md:153 requires that no administrative suspension is open
  at reactivation; `ReconcileSellerEntitlement` guards only a fraud quarantine.
- SECURITY.md:66 binds an idempotency key to "caller, operation, and request
  hash". `updateRouteDraft` (`catalog/controller.go:325`) has the route in neither
  scope nor hash: the same key and body for another route is answered with the
  first route and changes nothing.
- The workspace keeps one validation result: the result for one product decides
  whether all products of the seller are on sale (`storefront/service.go:331`,
  `:417`), and a failed validation of a second product takes the first one off.
- A payment that becomes final after `commerceExpiresAt` leaves its browser
  session uncompleted (`browserpurchase/service.go:241`), so that no wallet is
  bound and no recovery possible; DATA_MODEL.md:495 binds the payer's wallet with
  the final payment.
- The quota claim of a webhook delivery is per month: an Enqueue that is cut off
  before the delivery exists and repeated in the next month takes a second unit,
  against DATA_MODEL.md:999. `UnitsCoverDeliveries` counts per month.
- Time keys (`dynamodb/keys.go:11`, `:31`) do not sort as times within one
  second; `InvoicesAddUp` holds at whole seconds, which is what the bounds of an
  invoice are compared at.
- A development reset leaves the directory index of the memory repository
  (`memory/development_reset.go:61`), so that the directory may name a product
  that is gone; and a dashboard that is open during a reset can make it fail.

### Fairness

Safety runs assume none. `FairSpec` assumes weak fairness of the next step of
every running request: goroutines are scheduled and every call has a deadline.
`RetrySpec` adds what the documents ask of buyers and of the facilitator: a
buyer repeats a request it may send (strong fairness of `Begin`), a settlement
asked for again and again is answered some time (strong fairness of
`SettleConfirmed`), and an execution tried again and again is not cut off each
time (strong fairness of `Claim`). The violation runs `checkout_lost_retry` and
`checkout_same_body` use it: without it the counterexample would be a buyer who
gives up. `checkout_liveness` runs under `FairSpec`. `VerifiedIsDecided` names what it
asks of buyers and facilitator as its premise (`BuyersRetry`); the other two ask for
nothing more. `CorrectedRetryIsDecided` is about a buyer who has sent a corrected
body once, and about the requests that race with it for the one retry. What becomes
of a retry with the original body is `RetryableIsRetried`, which
`checkout_same_body` refutes although the buyer repeats every request there is; an
instance with corrected bodies would satisfy it only because the fairness makes
the buyer send one. `checkout_liveness` cuts requests off only
where the next request makes the same call again: at verification and before it is
stored, at settlement, and after the outcome. From some other cut-offs the code has no recovery:
a crash between `ClaimForwarding` and the outcome leaves the transaction FORWARDED
for good, deliberately, since nobody knows whether the seller acted. A payment that
another wallet made is not decided by the program either: it is held for a person
(`InReview`), which `VerifiedIsDecided` accepts as an end. `FairRemediationSpec` has weak fairness of
running requests and a buyer who keeps complaining.

## Proofs

Eight modules hold the theorems. Each proves, for any values of the constants that
meet the named assumptions, what a run shows on one instance. TLC evaluates the
assumptions in every run that uses their module; they only say that a place-holder
is not a value, that lifetimes and limits are numbers, and which functions are
total. Bounds such as `MaxVersion` or `MaxClock` are constants of the models and
arbitrary natural numbers in the proofs.

| Module | Theorems | Assumptions |
|---|---|---|
| `CheckoutProofs` | `TypeCorrect`, `AtMostOneEffect`, `OneChargeOneTransaction`, `ForwardedIsPaid`, `BoundBodySent`, `DispatchesAreCounted`, `RefusedIsUnsettled`, `RecordsOnlyAdvance`, `EvidenceTellsTheStory` | `NoneAssumption`, `StatusAssumption`, `CheckoutAssumption` |
| `RemediationProofs` | `OneRefund`, `VerdictsAreTrue`, `DisputesAreFinal`, `DisputesKeepPurchasesSafe`, `DisputesKeepFacts`, `PurchaseImplemented`, `AdviceIsSound`, `SalesAreTrue`, `RemediationTypeCorrect` | the same, `RemediationAssumption` |
| `PurchaseProofs` | `IntentTypeCorrect`, `CallersAgree`, `ApprovalComesFirst`, `OneOutcomeImplemented`; `OnePurchasePerSession`, `OneGrantPerSession`; `UsedKeysAreSpent` | `IntentAssumption`, `BrowserAssumption` |
| `ConsentProofs` | `ApprovalsAreUnanimous`; `ConfirmedChangesHappenOnce` | `ApprovalAssumption`, `GrantsAssumption` |
| `EvidenceChainProofs` | `EveryListingVerifies`, `RecordedFactsStay` | `EvidenceChainAssumption` |
| `AccessProofs` | `EpochsCountChanges`, `AppliedEventsAreReconciled`; `WithdrawnAuthorityNeverPasses`, `KeysHaveOneSuccessor` | `EntitlementAssumption` |
| `CatalogProofs` | `OnSaleAsApproved`; `OneCatalogPerRevision`, `ServedAsApproved`; `TrailIsComplete` | `CatalogAssumption`, `StorefrontAssumption` |
| `SellerProofs` | `OneDestinationPerPair`; `NoProgressIsLost`; `EveryDeliveryIsBilled`, `NoDeliveryIsReopened`; `WithdrawnTrustEnds`; `InvoicesAreExact`; `ListsAreComplete`; `ProfileIsWhole` | `SettlementAssumption`, `WorkspaceAssumption`, `WebhooksAssumption`, `SessionsAssumption`, `UsageAssumption`, `ListingAssumption`, `DevSeedAssumption` |

Two theorems have a hypothesis of their own: `RefusedIsUnsettled` and
`AdviceIsSound` assume that the facilitator does not refuse what it transferred
(`"refuses_settled" \notin Quirks`). It is needed, as `checkout_written_off` shows:
a buyer whose settled payment was written off is sent to a new checkout.

None of the properties is inductive. What has to be added is nearly always what a
copy is worth that was read some calls ago, since the code protects every write by
a condition on a version.

**Checkout.** `Inv` says that a copy is never ahead of the store, and is the stored
record if it has its version (`Fresh`). A request that passes the condition of its
write thus acts on facts that still hold. While a request owns a FORWARDED
transaction its copy is the stored record (`OwnerOK`), and there is one owner
(`OneOwner`), because only a claim on the current version makes one and no other
write is allowed from FORWARDED. `StoredOK` says what a stored record means in the
world: finalized means settled, verified or safely failed means without effect,
attempts count calls. `PaymentOK` ties claims to records in both directions. The
lemmas follow the actions; `LocalStep`, `LedgerStep`, `WriteStep` and `ReturnStep`
are what the actions have in common. `StepAdvances` shows that what a request
stores is always an advance of what was stored, from which `RecordsOnlyAdvance`
follows. `EvidenceInv` adds what the chains tell: the first two events, as many
forwardings as calls, and for each delivered answer that is not yet recorded a
request that will record it (`Pending`): the outcomes on record and the requests
whose call is not on record yet are together never more than the calls. Counting is by lemmas about one more event
(`CountAppend`), never by induction over the chain.

**Remediation.** Clerks write the transactions that requests work on, so
`RemediationInv` carries `EvidenceInv` over their writes: a clerk writes only a
transaction no request owns, and keeps its payment (`DisputeWrite`). Of the clerks
it says that a transaction in dispute is written by clerks alone, that one of them
at most is about to record its dispute (`OneRecorder`), and that a verdict on a
delivery is true of the record and of the seller (`Truth`). `AdviceInv` adds that a
failure is stored with its reason (`CodesOK`), and that a request about to store a
failure has one (`ReasonOK`); the advice is then a matter of cases (`AdviceOK`).
`SalesInv` adds what the copies that requests hold are worth once they are old: two
copies of one version tell the same (`CopiesAgree`), because each was the stored
record when its version was. Whatever copies are counted, the newest are then those
of the store (`NewestRows`), and the figures are compared with the money by two
injections: from sales to the payments that bought them (`SalesHavePayments`) and
from settled payments to purchases in a bucket of paid ones (`PaymentsHaveRows`).

`PurchaseImplemented` goes through the actions of requests and clerks: each is one
step of `Purchase` or changes nothing in it (`RequestRefines`, `ClerkRefines`). Saving
a verified payment pledges it, a claim engages the seller, storing the outcome
finishes the delivery, the first of the two writes of a dispute closes the purchase.
The abstract guards come from `AdviceInv`: that a request writes the record it read,
that a payment on record has moved, that a fulfilled delivery had its effect and one
that may be repeated had none. A write that leaves payment, finality and stage of the
record as they are is silent (`SameStep`), such as the creation of a record, the
review of a payment and the verdict of a dispute; one that moves the stage alone is a delivery
step (`StageStep`).

**Purchases.** The copy an actor holds of an intent is the stored one, or the ready
intent of version 1 that somebody has decided since. Every step of `PurchaseIntent`
is a step of `OneOutcome` or changes nothing in it (`OneOutcomeImplemented`). A
browser session keeps the transaction it was claimed for, and what a recovery has
read differs from it in the grant only. An idempotency record that a request met
when it arrived is never deleted, so that the request ends at its check (`LateOK`).

**Consent.** A call of the approval service that has the stored version has the
stored decisions, because decisions change only together with the session. A spent
grant stands for one mutation, and a change is as its grant shows it.

**Evidence chain.** An append has read a prefix of the chain and computed an event
that follows it (`AppendOK`); a free sequence number is then the next one.

**Access.** Each revision follows the one before it, and no epoch stands for two
statuses. A key keeps its epoch, so a request that began after its key lost its
authority meets the loss at one of its two reads.

**Catalog.** Reads of routes may return any version. A write announces the version
it stores in the outbox, once, so that the successor of an old version is announced
already and only what was made from the current version is stored
(`WriteIsFromCurrent`). Versions have no gaps and a version number stands for one
set of terms, which is why a fingerprint of version numbers names a catalog. The
invariant of the audit trail (`AuditInv`) has the events in hand beside the recorded
ones: all are true, no two are about one version, and every version is explained. A
new version is beyond all events so far, so only its own request can be about it
(`HeldOK`); a request that ends hands its versions to the trail, to the cut-offs, or
is the refused change (`EndOK`). The vocabulary refuses an event exactly if a new
price took the route off sale (`Recordable`), so no recorded event is about such a
version (`KeptOnSale`).

**Seller records.** Settlement: the claim of a pair names its active destination.
Workspace: what a writer copied still holds at the version it read, and every
version holds what was acknowledged. Webhooks: a counter of the quota is the number
of its claims, and each stored delivery has a claim. Sessions: the record of a token
family is the latest expiry that logged out, and a key document is cached no longer
than `FetchTimeout + CacheTTL` after it was asked for. Invoices: an event key
lies on exactly one side of a rendered whole second (`OneSide`), although keys within
one second are out of order, so a window splits into two disjoint windows at any
second (`WindowsSplit`). Lists: the cursor stands
between what the reader has looked at and the rest, each steady entry before it was
shown once, and no entry behind it at all (`ListingInv`); that a page of a finite set
has a last key, behind which the rest begins, is by the least number of a set that is
not empty (`MaxOK`, `MinOK`, `LeadingOK`), which needs no induction scheme. Development
seed: the request that has the mutex has emptied the repositories up to its step and
written the profile up to its step, and what ordinary requests write meanwhile is
never part of the profile (`SeedInv`); the profile is the concrete one of the code, the
numbers of resets, cancellations and ordinary requests are arbitrary.

Only model-checked: the liveness properties of `checkout_liveness` (`VerifiedIsDecided`, `ForwardedIsDecided`,
`CorrectedRetryIsDecided`), because the prover does not handle fairness and ENABLED. Every other property of the passing runs is
stated by a theorem. `SettledNeverWrittenOff`, which `checkout_written_off` refutes with
all quirks, is proved without the one quirk that breaks it (`RefusedIsUnsettled`).

## Plan

Done: the modules above, and proofs of every safety property, action property and
refinement of the passing runs.

Open, for whoever extends this:

1. A checked refinement of `Purchase` under fairness: what of its progress the code
   guarantees is now stated in `Checkout` alone.
2. The parts that are modelled in part or not at all (see `PROJECT.json`), the MCP server
   and the setup bundles before the others.

## Not modelled

Cryptography, encoding and HTTP details (signatures, canonical JSON, schemas,
header and URL filtering, TLS, rate limits) decide whether a request is accepted
and are the refusing branches of the models. Agents call a language model within
limits of one process; analyzers, recipes and setup bundles generate text; health
and observability have no state that is read back. KMS, secrets, S3 and DynamoDB
clients are the stores of the models. The memory repositories serve tests and
local development under one mutex; the models follow the DynamoDB ones, except
where `DevSeed`, `EvidenceChain` and `Listing` are about memory itself.
`AssignPlan` and the older `Authenticate` of project keys have no caller that
changes more than a timestamp. The merchant SDK and the connector appear as the
seller and as clients; the web application keeps no state of a purchase.

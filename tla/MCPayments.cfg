\* Payments: two requests, an unreliable facilitator, cut off anywhere.
\* Billing: two workers and an operator write the entitlement; two events, one retry.
\* Keys: an operator and two sessions, a key and two successors.
CONSTANTS
    None = None NoTxn = NoTxn
    p1 = p1 p2 = p2 id1 = id1 id2 = id2 alice = alice mallory = mallory
    Requests = {a, b}
    Intents = {i, j}
    ApprovedIntents = {}
    Proofs = {p1, p2}
    PaymentIds = {id1, id2}
    PaymentIdOf <- TwoPayments
    PayerOf <- SignedByAlice
    Payers = {alice, mallory}
    Bodies = {b1}
    OriginalBody = b1
    Quirks = {"refuses_settled", "payer_differs", "payer_omitted"}
    AbortAt <- Anywhere
    NoValue = None
    Events = {1, 2}
    Workers = {a, b}
    Operators = {o1}
    Subscriptions <- AllSubscriptions
    PeriodEnd = 1
    Actions = {"grant", "suspend", "cancel"}
    AccessEnds = {1}
    GraceDuration = 1
    MaxAttempts = 2
    MaxTime = 1
    MaxVersion = 3
    KeyIds = {1, 2, 3}
    Sessions = {a, b}
    IdempotencyKeys = {i, j}
    MaxCreated = 1
    MaxKeyVersion = 2
SPECIFICATION MCSpec
SYMMETRY PaymentSymmetry
INVARIANTS
    ChargeBelongsToOneTransaction NeverForwardUnpaid
    EpochCountsChanges AppliedIsReconciled WithdrawnAuthorityIsRefused RotationsNeverFork

\* One purchase with a corrected body, three requests, two clerks.
CONSTANTS
    b1 = b1 p1 = p1 id1 = id1 alice = alice
    None = None NoTxn = NoTxn
    Intents = {i1}
    ApprovedIntents = {i1}
    Proofs = {p1}
    PaymentIds = {id1}
    PaymentIdOf <- OnePayment
    PayerOf <- SignedByAlice
    Payers = {alice}
    Bodies = {b1, b2}
    OriginalBody = b1
    Quirks = {}
    Requests = {r1, r2, r3}
    Clerks = {c1, c2}
    References = {x, y}
    AbortAt <- Anywhere
    AbandonAt <- AnyClerkCall
SPECIFICATION DeliverySpec
SYMMETRY RemediationSymmetry
INVARIANTS
    SellerEffectAtMostOnce SellerSeesBoundBody
    EvidenceCoversDispatch AdviceIsSafe SalesMatchLedger
    RefundedAtMostOnce VerdictMatchesDelivery
PROPERTIES ImplementsPurchase RecordedFactsPersist DisputeEndsDelivery

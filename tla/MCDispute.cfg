\* A dispute request may be cut off before it stores the dispute.
CONSTANTS
    b1 = b1 p1 = p1 id1 = id1 alice = alice
    None = None NoTxn = NoTxn
    Intents = {i1}
    ApprovedIntents = {}
    Proofs = {p1}
    PaymentIds = {id1}
    PaymentIdOf <- OnePayment
    PayerOf <- SignedByAlice
    Payers = {alice}
    Bodies = {b1, b2}
    OriginalBody = b1
    Quirks = {}
    Requests = {r1}
    Clerks = {c1}
    References = {x}
    AbortAt = {}
    AbandonAt = {"record"}
SPECIFICATION FairRemediationSpec
PROPERTY FailedDeliveryGetsDispute

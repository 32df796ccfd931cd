\* A request may be cut off between reopening and claiming a transaction.
CONSTANTS
    r1 = r1 r2 = r2 i1 = i1 p1 = p1 id1 = id1 b1 = b1 b2 = b2
    alice = alice mallory = mallory
    None = None NoTxn = NoTxn
    Requests = {r1}
    Intents = {i1}
    ApprovedIntents = {i1}
    Proofs = {p1}
    PaymentIds = {id1}
    PaymentIdOf <- OnePayment
    PayerOf <- SignedByAlice
    Payers = {alice}
    Bodies = {b1, b2}
    OriginalBody = b1
    Quirks = {}
    AbortAt = {"claim"}
SPECIFICATION RetrySpec
PROPERTY VerifiedIsDecided

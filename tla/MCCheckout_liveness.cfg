\* Requests may be cut off where the next one makes the call again, buyers may
\* retry or not, and another wallet may pay.
CONSTANTS
    r1 = r1 r2 = r2 i1 = i1 p1 = p1 id1 = id1 b1 = b1 b2 = b2
    alice = alice mallory = mallory
    None = None NoTxn = NoTxn
    Requests = {r1, r2}
    Intents = {i1}
    ApprovedIntents = {i1}
    Proofs = {p1}
    PaymentIds = {id1}
    PaymentIdOf <- OnePayment
    PayerOf <- SignedByAlice
    Payers = {alice, mallory}
    Bodies = {b1, b2}
    OriginalBody = b1
    Quirks = {"payer_differs"}
    AbortAt = {"verify", "saveVerified", "settle", "recordDelivery"}
SPECIFICATION FairSpec
PROPERTIES VerifiedIsDecided ForwardedIsDecided CorrectedRetryIsDecided

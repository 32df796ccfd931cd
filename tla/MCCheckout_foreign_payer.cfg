\* The settled payer may differ from the verified one.
CONSTANTS
    r1 = r1 r2 = r2 i1 = i1 p1 = p1 id1 = id1 b1 = b1 b2 = b2
    alice = alice mallory = mallory
    None = None NoTxn = NoTxn
    Requests = {r1, r2}
    Intents = {i1}
    ApprovedIntents = {}
    Proofs = {p1}
    PaymentIds = {id1}
    PaymentIdOf <- OnePayment
    PayerOf <- SignedByAlice
    Payers = {alice, mallory}
    Bodies = {b1}
    OriginalBody = b1
    Quirks = {"payer_differs"}
    AbortAt <- Anywhere
SPECIFICATION Spec
INVARIANT NeverForwardForeignPayer

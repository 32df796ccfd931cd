\* A seller is suspended, reactivated, and rotates its key as required.
CONSTANTS
    NoValue = NoValue
    Events = {}
    Workers = {}
    Operators = {o1}
    Subscriptions <- Paid
    Actions = {"grant", "suspend"}
    AccessEnds = {1}
    GraceDuration = 1
    MaxAttempts = 1
    MaxTime = 0
    MaxVersion = 3
    KeyIds = {k1, k2}
    Sessions = {s1}
    IdempotencyKeys = {i1}
    MaxCreated = 1
    MaxKeyVersion = 2
SPECIFICATION AccessSpec
INVARIANT SuccessorIsEligible

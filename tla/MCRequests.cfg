\* Three racing requests of each kind, or two where each makes more calls.
CONSTANTS
    None = None Nothing = Nothing
\* intents: one direct, one under approval
    Intents = {i1, i2}
    ApprovalIntents = {i2}
    Actors = {x, y, z}
\* browser: two purchases and two wallets in one session
    PurchaseSessions = {s1}
    CreationKeys = {n1}
    Purchases = {p1, p2}
    SessionOf <- OneSession
    Wallets = {k, l}
    Challenges = {u, v}
    Checkouts = {c1, c2}
    Recoveries = {q1, q2}
    CommerceLifetime = 1
    AccessLifetime = 1
    MaxClock = 2
\* approval
    Approvers = {k, l}
    ApproverCalls = {u, v}
    Sockets = {s1}
\* grants
    Grants = {1, 2}
    Arguments = {n1}
    MutationKeys = {k, l}
    Calls = {u, v}
    MaxTargetVersion = 2
\* gateway: every handler
    Callers = {a, b}
    Items = {i1, i2}
    Home = i1
    Bodies = {1, 2}
    Keys = {n1}
    HTTPCalls = {1, 2, 3}
    Served = {"createSeller", "activateSellerService", "createRoute", "updateRouteDraft",
              "publishRoute", "executeRouteVersionMutation", "createDestination",
              "verifyOwnership", "createSubscription", "disableSubscription", "redeliver",
              "createCredential", "revokeCredential", "createDispute", "recordManualRefund",
              "createIntent", "cancelIntent", "createSession", "decide"}
\* evidence
    Appends = {u, v}
    OnceTypes = {"payment.challenged"}
    OtherTypes = {"proxy.forwarded"}
    Facts = {1, 2}
    MaxEvents = 2
    MaxSkew = 1
    MaxEvidenceClock = 1
SPECIFICATION MCSpec
SYMMETRY RequestSymmetry
INVARIANTS
    AnswersAgree SessionPaysOnce OneGrantOpensSession ApprovalIsUnanimous
    ConfirmedOnceAsSeen ChainAlwaysVerifies AcknowledgedEvidenceIsKept
PROPERTIES ImplementsOneOutcome UsedKeyWritesNothing
CHECK_DEADLOCK FALSE

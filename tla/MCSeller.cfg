SPECIFICATION MCSpec
CONSTANTS
\* audit, storefront: enough versions to publish a route twice
    Routes = {r1}
    Slugs = {s1}
    Names = {n1, n2}
    Prices = {p1, p2}
    Origins = {o1, o2}
    Publishers = {c1}
    Jobs = {a, b}
    Requests = {a, b}
    PublishedLimit = 1
    MaxVersion = 4
    SellerFocusVersions = 2
    MaxSellerVersion = 2
    MaxEntitlement = 2
    MaxAttempts = 2
    MaxRevision = 2
    Nobody = Nobody
\* payment destinations: two of one pair
    Destinations = {1, 2}
    Pairs = {p1}
    PairOf <- OnePair
    Proofs = {a, b}
    MaxChallenges = 3
    NoDestination = Nobody
\* webhooks: two subscriptions, two events, two deliveries a month; two retries
    Subscriptions = {d1, d2}
    WebhookEvents = {e1, e2}
    Workers = {a, b}
    SubscriptionLimit = 2
    DeliveryLimit = 2
    MaximumAttempts = 3
    RetryDelays = 2
    MaxRedeliveries = 1
    MaxMonth = 2
\* usage
    MeteredTransactions = {d1, d2}
    Recorders = {a, b}
    UsagePlans = {p1, p2}
    LastSecond = 1
    Fractions = {0, 5, 50}
\* lists: up to three pages; one page may need two queries
    LastKey = 5
    PageLimit = 2
    BatchSize = 3
    MaximumBatches = 2
\* workspace
    Products = {r1}
    Prerequisites = {"service"}
    Works = {a, b}
    MaxSettings = 1
    MaxProductVersion = 3
    MaxWorkspace = 3
\* sessions
    Families = {f1}
    SigningKeys = {k1, k2}
    Visits = {a, b}
    TokenLifetime = 2
    MaxTokens = 2
    CacheTTL = 1
    FetchTimeout = 1
    MaxNow = 4
\* development seed
    Resets = {r1, r2}
    Cancels = {c1, c2}
    SellerCalls = {a, b}
SYMMETRY SellerSymmetry
INVARIANTS
    RevisionNamesOneCatalog ServedTermsWerePublished PublishedIsFoundAsApproved
    
    OneActiveDestination UnitsCoverDeliveries InvoicesAddUp
    PagesMissNothing AcknowledgedProgressIsKept ProfileIsWholeOrAbsent
PROPERTIES DeliveredStaysDelivered WithdrawnTrustIsRefused
CHECK_DEADLOCK FALSE

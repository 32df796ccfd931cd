------------------------------ MODULE DevSeed ------------------------------
(***************************************************************************)
(* The development profile: a local server over process memory that is     *)
(* reset to a fixed set of fixtures, at start and whenever it is asked to. *)
(*                                                                         *)
(* A reset clears one repository after another and then writes the profile *)
(* object by object; a refused write undoes everything.  The seeder's      *)
(* mutex keeps resets and cancellations apart, but not the ordinary        *)
(* requests the same server answers meanwhile.                             *)
(***************************************************************************)
EXTENDS Naturals, Sequences

CONSTANTS
    Resets,       \* POST requests to the reset path
    Cancels,      \* POST requests to the cancellation path
    SellerCalls   \* ordinary requests of the local seller

VARIABLES
    config,     \* the runtime gates the process was started with
    server,     \* "off", "starting", "serving" or "refused"
    store,      \* every object of the in-memory repositories
    productIndex,  \* routes of the repository's public directory index
    mutex,      \* the request that holds the seeder, or Unlocked
    call        \* what each request does next and what it holds

seedVars == <<config, server, store, productIndex, mutex, call>>

Tx == INSTANCE Transaction WITH
          Proofs <- {"proof"}, PaymentIds <- {"mock_payment"},
          Bodies <- {"body"}, None <- "none"

Unlocked  == "unlocked"
Boot      == "boot"      \* the reset the process makes before it serves
Seeders   == Resets \cup {Boot}
SeedCalls == Seeders \cup Cancels \cup SellerCalls
Waiting   == [pc |-> "waiting"]

ASSUME DevSeedAssumption == Unlocked \notin SeedCalls

-----------------------------------------------------------------------------
\* The profile

Object(kind, id, is) ==
    [in |-> kind, id |-> id, is |-> is, by |-> "seed", version |-> 1]

\* A seller's record holds the owner it claims.
SeededSellers ==
    << Object("sellers", "launchReady", "local-seller"),
       Object("sellers", "incomplete", "local-incomplete-owner") >>

SeededEntitlements ==
    << Object("entitlements", "launchReady", "active"),
       Object("entitlements", "incomplete", "suspended") >>

SeededDestinations ==
    << Object("destinations", "USDC", "active"),
       Object("destinations", "EURC", "active") >>

SeededRoutes ==
    << Object("routes", "belowThreshold", "published"),
       Object("routes", "approvalRequired", "published"),
       Object("routes", "inactive", "paused") >>

\* The fixtures are built with the methods of the transaction itself.
verifyAndFinalize(t) ==
    Tx!FinalizePayment(Tx!VerifyPayment(t, "mock_payment", "proof"))

Approved(t) == Tx!MarkApproved(Tx!RequireApproval(t))

advancePaymentPending == Tx!RequirePayment(Tx!NewTransaction)

advanceFulfilled ==
    Tx!MarkFulfilled(Tx!MarkForwarded(verifyAndFinalize(
        Tx!RequirePayment(Tx!NewTransaction))))

advanceFailed ==
    Tx!MarkFailedWithRecovery(
        Tx!MarkForwarded(verifyAndFinalize(
            Tx!RequirePayment(Approved(Tx!NewTransaction)))),
        "upstream_status", "other", FALSE)

advanceDisputed ==
    Tx!OpenDispute(Tx!MarkFulfilled(Tx!MarkForwarded(verifyAndFinalize(
        Tx!RequirePayment(Approved(Tx!NewTransaction))))))

\* Each transaction follows the intent it was created for.
SeededPurchase(id, transaction) ==
    << Object("intents", id, "created"),
       Object("transactions", id, transaction.status) >>

SeededTransactions ==
    SeededPurchase("pending", advancePaymentPending)
        \o SeededPurchase("fulfilled", advanceFulfilled)
        \o SeededPurchase("failed", advanceFailed)
        \o SeededPurchase("disputed", advanceDisputed)

\* The second event carries a signature that does not verify.
SeededEvidence ==
    << Object("evidence", "fulfilled", "valid"),
       Object("evidence", "failed", "invalid") >>

SeededDispute == << Object("disputes", "disputed", "open") >>

\* A dead letter is a delivery that failed until no attempt was left.
SeededWebhookHistory ==
    << Object("subscriptions", "hook", "active"),
       Object("secrets", "hook", "stored"),
       Object("deliveries", "fulfilled", "delivered"),
       Object("deliveries", "failed", "retry_scheduled"),
       Object("deliveries", "disputed", "dead_letter") >>

SeededLaunchReadiness ==
    << Object("credentials", "launchReady", "live"),
       Object("workspaces", "launchReady", "verified") >>

Profile ==
    SeededSellers \o SeededEntitlements \o SeededDestinations \o SeededRoutes
        \o SeededTransactions \o SeededEvidence \o SeededDispute
        \o SeededWebhookHistory \o SeededLaunchReadiness

-----------------------------------------------------------------------------
\* The repositories

Stored(kind, id) == {o \in store : o.in = kind /\ o.id = id}

\* A seller must bring a new identifier and a new owner.
AcceptsSeller(o) ==
    \A p \in store : p.in = "sellers" => p.id # o.id /\ p.is # o.is

\* A route needs its seller.
AcceptsRoute(o) == Stored("routes", o.id) = {} /\ Stored("sellers", "launchReady") # {}

\* A secret is put whatever was there; everything else must be new.
Accepts(o) ==
    CASE o.in = "secrets" -> TRUE
      [] o.in = "sellers" -> AcceptsSeller(o)
      [] o.in = "routes"  -> AcceptsRoute(o)
      [] OTHER            -> Stored(o.in, o.id) = {}

With(o) == (store \ Stored(o.in, o.id)) \cup {o}

\* A route replaces its own entry of the directory.
Indexed(o) ==
    IF o.in # "routes" THEN productIndex
    ELSE IF o.is = "published" THEN productIndex \cup {o.id} ELSE productIndex \ {o.id}

\* The repositories a reset empties, in its order.  The catalog's maps go
\* together, the directory index stays.
ResetOrder ==
    << {"sellers", "routes"}, {"intents"}, {"approvals"}, {"transactions"},
       {"evidence"}, {"disputes"}, {"refunds"}, {"browserSessions"},
       {"destinations"}, {"subscriptions"}, {"deliveries"}, {"secrets"},
       {"credentials"}, {"grants"}, {"entitlements"}, {"providerEvents"},
       {"audit"}, {"idempotency"}, {"revocations"}, {"workspaces"},
       {"publications"} >>

-----------------------------------------------------------------------------
\* Starting the process

Configs ==
    [environment : {"local", "production"}, repositories : {"memory", "dynamodb"},
     loopback : BOOLEAN, profile : {"", "launch-ready", "unknown"}]

validateConfig(c) ==
    /\ c.profile = "launch-ready"
    /\ c.environment = "local" /\ c.repositories = "memory" /\ c.loopback

DevSeedInit ==
    /\ config \in Configs
    /\ server = "off"
    /\ store = {} /\ productIndex = {}
    /\ mutex = Unlocked
    /\ call = [c \in SeedCalls |-> Waiting]

\* Without a profile the server has no seeder at all: nothing to model then.
StartProcess ==
    /\ server = "off"
    /\ config.profile # ""
    /\ \/ /\ validateConfig(config)
          /\ server' = "starting"
          /\ mutex' = Boot
          /\ call' = [call EXCEPT ![Boot] = [pc |-> "clearing", at |-> 1]]
       \/ /\ ~validateConfig(config)
          /\ server' = "refused"
          /\ UNCHANGED <<mutex, call>>
    /\ UNCHANGED <<config, store, productIndex>>

-----------------------------------------------------------------------------
\* ResetAndSeed

Step(c, next) == call' = [call EXCEPT ![c] = next]

TakesMutex(c) == mutex = Unlocked /\ mutex' = c

BeginReset(c) ==
    /\ server = "serving"
    /\ call[c] = Waiting
    /\ TakesMutex(c)
    /\ Step(c, [pc |-> "clearing", at |-> 1])
    /\ UNCHANGED <<config, server, store, productIndex>>

Cleared(pc) == IF pc = "clearing" THEN "seeding" ELSE "failed"

\* One repository at a time, each under its own lock.
ResetRepository(c) ==
    /\ call[c].pc \in {"clearing", "undoing"}
    /\ store' = {o \in store : o.in \notin ResetOrder[call[c].at]}
    /\ Step(c, IF call[c].at < Len(ResetOrder)
                 THEN [call[c] EXCEPT !.at = @ + 1]
                 ELSE [pc |-> Cleared(call[c].pc), at |-> 1])
    /\ UNCHANGED <<config, server, productIndex, mutex>>

\* Faulty variant: the half-written profile stays.
FaultyAfterRefusal == "failed"

\* A refused write: everything written so far goes again.
AfterRefusal == "undoing"

SeedObject(c) ==
    /\ call[c].pc = "seeding" /\ call[c].at <= Len(Profile)
    /\ LET o == Profile[call[c].at]
       IN  \/ /\ Accepts(o)
              /\ store' = With(o)
              /\ productIndex' = Indexed(o)
              /\ Step(c, [call[c] EXCEPT !.at = @ + 1])
           \/ /\ ~Accepts(o)
              /\ Step(c, [pc |-> AfterRefusal, at |-> 1])
              /\ UNCHANGED <<store, productIndex>>
    /\ UNCHANGED <<config, server, mutex>>

\* The process serves only after its own reset succeeded.
AnswerReset(c) ==
    LET seeded == call[c].pc = "seeding" /\ call[c].at > Len(Profile)
    IN  /\ seeded \/ call[c].pc = "failed"
        /\ Step(c, [pc |-> IF seeded THEN "seeded" ELSE "error"])
        /\ server' = IF c # Boot THEN server ELSE IF seeded THEN "serving" ELSE "refused"
        /\ mutex' = Unlocked
        /\ UNCHANGED <<config, store, productIndex>>

-----------------------------------------------------------------------------
\* cancelLaunchReadySeller

BeginCancel(c) ==
    /\ server = "serving"
    /\ call[c] = Waiting
    /\ TakesMutex(c)
    /\ \E e \in Stored("entitlements", "launchReady"),
          k \in Stored("credentials", "launchReady") :
         Step(c, [pc |-> "cancelling", at |-> 1, entitlements |-> e, credentials |-> k])
    /\ UNCHANGED <<config, server, store, productIndex>>

\* Either record is missing: an error, with nothing written.
CancelFindsNothing(c) ==
    /\ server = "serving"
    /\ call[c] = Waiting
    /\ mutex = Unlocked
    /\ Stored("entitlements", "launchReady") = {} \/ Stored("credentials", "launchReady") = {}
    /\ Step(c, [pc |-> "error"])
    /\ UNCHANGED <<config, server, store, productIndex, mutex>>

\* The entitlement, and with it the epoch, comes first.
CancellationOrder == <<"entitlements", "credentials">>

Ended(kind) == IF kind = "entitlements" THEN "cancelled" ELSE "revoked"

Unchanged(o) == \E p \in Stored(o.in, o.id) : p.version = o.version

\* One of the two writes: skipped when it was made before, refused when the
\* record changed since it was read.
CancelNext(c) ==
    /\ call[c].pc = "cancelling" /\ call[c].at <= Len(CancellationOrder)
    /\ LET kind == CancellationOrder[call[c].at]
           read == call[c][kind]
       IN  \/ /\ read.is = Ended(kind)
              /\ Step(c, [call[c] EXCEPT !.at = @ + 1])
              /\ UNCHANGED <<store, mutex>>
           \/ /\ read.is # Ended(kind) /\ Unchanged(read)
              /\ store' = With([read EXCEPT !.is = Ended(kind), !.by = "cancel",
                                            !.version = @ + 1])
              /\ Step(c, [call[c] EXCEPT !.at = @ + 1])
              /\ UNCHANGED mutex
           \/ /\ read.is # Ended(kind) /\ ~Unchanged(read)
              /\ Step(c, [pc |-> "error"])
              /\ mutex' = Unlocked
              /\ UNCHANGED store
    /\ UNCHANGED <<config, server, productIndex>>

AnswerCancel(c) ==
    /\ call[c].pc = "cancelling" /\ call[c].at > Len(CancellationOrder)
    /\ Step(c, [pc |-> "cancelled"])
    /\ mutex' = Unlocked
    /\ UNCHANGED <<config, server, store, productIndex>>

-----------------------------------------------------------------------------
\* Ordinary requests: they know nothing of the seeder's mutex

\* The local seller opens a store of its own.
CreateOwnSeller(q) ==
    LET own == [Object("sellers", "own", "local-seller") EXCEPT !.by = "api"]
    IN  /\ server = "serving"
        /\ call[q] = Waiting
        /\ store' = IF Accepts(own) THEN With(own) ELSE store
        /\ Step(q, [pc |-> "answered"])
        /\ UNCHANGED <<config, server, productIndex, mutex>>

\* Onboarding resolves the seller and finds no workspace ...
BeginOnboarding(q) ==
    /\ server = "serving"
    /\ call[q] = Waiting
    /\ \E s \in store : /\ s.in = "sellers" /\ s.is = "local-seller"
                        /\ Stored("workspaces", s.id) = {}
                        /\ Step(q, [pc |-> "onboarding", seller |-> s.id])
    /\ UNCHANGED <<config, server, store, productIndex, mutex>>

\* ... and creates one, unless somebody was faster.
CreateWorkspace(q) ==
    LET blank == [Object("workspaces", call[q].seller, "blank") EXCEPT !.by = "api"]
    IN  /\ call[q].pc = "onboarding"
        /\ store' = IF Accepts(blank) THEN With(blank) ELSE store
        /\ Step(q, [pc |-> "answered"])
        /\ UNCHANGED <<config, server, productIndex, mutex>>

\* The seller revokes the profile's key: read ...
BeginRevoke(q) ==
    /\ server = "serving"
    /\ call[q] = Waiting
    /\ \E k \in Stored("credentials", "launchReady") :
         k.is = "live" /\ Step(q, [pc |-> "revoking", credential |-> k])
    /\ UNCHANGED <<config, server, store, productIndex, mutex>>

\* ... and write, at the version that was read.
RevokeKey(q) ==
    LET read == call[q].credential
    IN  /\ call[q].pc = "revoking"
        /\ store' = IF Unchanged(read)
                      THEN With([read EXCEPT !.is = "revoked", !.version = @ + 1])
                      ELSE store
        /\ Step(q, [pc |-> "answered"])
        /\ UNCHANGED <<config, server, productIndex, mutex>>

DevSeedNext ==
    \/ StartProcess
    \/ \E c \in Resets : BeginReset(c)
    \/ \E c \in Seeders : ResetRepository(c) \/ SeedObject(c) \/ AnswerReset(c)
    \/ \E c \in Cancels : \/ BeginCancel(c) \/ CancelFindsNothing(c)
                          \/ CancelNext(c) \/ AnswerCancel(c)
    \/ \E q \in SellerCalls : \/ CreateOwnSeller(q)
                              \/ BeginOnboarding(q) \/ CreateWorkspace(q)
                              \/ BeginRevoke(q) \/ RevokeKey(q)

DevSeedSpec == DevSeedInit /\ [][DevSeedNext]_seedVars

-----------------------------------------------------------------------------
\* Properties

Holds(o) == \E p \in Stored(o.in, o.id) : p.by # "api"

\* ResetAndSeed "reapplies the profile": whenever no reset or cancellation is
\* under way, a serving process holds every object of the profile or none of
\* them, whatever other requests wrote between two steps of the reset.
ProfileIsWholeOrAbsent ==
    server = "serving" /\ mutex = Unlocked =>
        \/ \A i \in 1..Len(Profile) : Holds(Profile[i])
        \/ \A i \in 1..Len(Profile) : ~Holds(Profile[i])
=============================================================================

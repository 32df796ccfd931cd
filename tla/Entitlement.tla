---------------------------- MODULE Entitlement ----------------------------
(***************************************************************************)
(* The entitlement of one seller: whether its subscription gives it access *)
(* to the network.  It is written by workers that reconcile it with the    *)
(* billing provider, one stored webhook event at a time, and by operators  *)
(* who run ops-entitlement.  Every writer reads the entitlement, computes  *)
(* a complete successor and commits it on the version it has read.         *)
(*                                                                         *)
(* A worker is split at its calls to the store and to the provider.  The   *)
(* provider is external: its subscription changes at any time and a fetch  *)
(* may fail.                                                               *)
(***************************************************************************)
EXTENDS Integers, Sequences

CONSTANTS
    Events,          \* provider events, by event id
    Workers,         \* processes that run Reconcile
    Operators,       \* concurrent runs of ops-entitlement
    Subscriptions,   \* states the provider's subscription may be in
    Actions,         \* what operators do: "grant", "suspend", "cancel"
    AccessEnds,      \* access boundaries an operator may grant
    GraceDuration,   \* EntitlementGraceDuration
    MaxAttempts,     \* maximumEntitlementReconcileAttempts
    MaxTime,         \* bound on the clock
    MaxVersion,      \* bound on the entitlement's version
    NoValue

EntitlementStatuses == {"active", "grace", "suspended", "cancelled", "closed"}
Reasons  == {"none", "payment_failed", "cancelled", "provider_incomplete",
             "administrative", "fraud_quarantine", "account_closed"}
Sources  == {"billing_provider", "operator"}
StripeStatuses == {"active", "past_due", "unpaid", "canceled", "paused", "incomplete"}

\* EntitlementCandidate and SellerEntitlement, without what no rule reads
\* (plan, billing period, provider ids).
Candidates ==
    [ status : EntitlementStatuses, reason : Reasons, source : Sources, accessEndsAt : Nat,
      cancels : BOOLEAN, event : Events \cup {NoValue} ]
Entitlements ==
    [ status : EntitlementStatuses, reason : Reasons, source : Sources, accessEndsAt : Nat,
      cancels : BOOLEAN, event : Events \cup {NoValue},
      epoch : Nat, rotationRequired : BOOLEAN, version : Nat ]

ASSUME EntitlementAssumption ==
    /\ NoValue \notin Events \cup Candidates \cup Entitlements
    /\ GraceDuration \in Nat /\ MaxAttempts \in Nat \ {0}
    /\ MaxTime \in Nat /\ MaxVersion \in Nat
    /\ Actions \subseteq {"grant", "suspend", "cancel"} /\ AccessEnds \subseteq Nat
    /\ Subscriptions \subseteq
         [status : StripeStatuses, paid : BOOLEAN, cancels : BOOLEAN, paidThrough : Nat]

EventStates == {"absent", "received", "processing", "applied", "failed", "quarantined"}

VARIABLES
    now,           \* the clock
    subscription,  \* the provider's current subscription
    entitlement,   \* the stored SellerEntitlement, None before the first
    history,       \* the stored reconciliations, by sourceRevision
    inbox,         \* the stored provider events: processing state
    worker,        \* the reconciling workers: control point and local copies
    operator       \* runs of ops-entitlement: the version read, the entitlement proposed

entitlementVars == <<now, subscription, entitlement, history, inbox, worker, operator>>

IdleWorker == [ pc |-> "idle", event |-> NoValue, candidate |-> NoValue, base |-> NoValue,
                proposed |-> NoValue, attempts |-> 0 ]
NoOperation == [expectedVersion |-> 0, proposed |-> NoValue]

EntitlementInit ==
    /\ now = 0
    /\ subscription \in Subscriptions
    /\ entitlement = NoValue
    /\ history = << >>
    /\ inbox  = [e \in Events |-> "absent"]
    /\ worker = [w \in Workers |-> IdleWorker]
    /\ operator = [o \in Operators |-> NoOperation]

-----------------------------------------------------------------------------
\* The rules of ReconcileSellerEntitlement

AllowsAccess(e, at) == e # NoValue /\ e.status = "active" /\ at < e.accessEndsAt

\* normalizeCandidateAtBoundary: a paid period that is over.
NormalizeCandidateAtBoundary(c, at) ==
    LET ended     == c.status = "active" /\ at >= c.accessEndsAt
        inGrace   == at < c.accessEndsAt + GraceDuration
        unpaid    == c.reason = "payment_failed"
        suspended == [c EXCEPT !.status = "suspended", !.reason = "payment_failed"]
    IN  CASE ended /\ c.cancels ->
               [c EXCEPT !.status = "cancelled", !.reason = "cancelled"]
          [] ended /\ ~c.cancels /\ unpaid ->
               IF inGrace THEN [c EXCEPT !.status = "grace"] ELSE suspended
          [] ended /\ ~c.cancels /\ ~unpaid ->
               [c EXCEPT !.status = "suspended", !.reason = "provider_incomplete"]
          [] c.status = "grace" /\ ~inGrace -> suspended
          [] OTHER -> c

CandidateFromEntitlement(e) ==
    [ status |-> e.status, reason |-> e.reason, source |-> e.source,
      accessEndsAt |-> e.accessEndsAt, cancels |-> e.cancels, event |-> e.event ]

\* A provider event lifts no fraud quarantine, and nothing reopens an account.
Admissible(current, c) ==
    CASE current = NoValue -> c
      [] current # NoValue /\ current.status = "closed" ->
           [ CandidateFromEntitlement(current) EXCEPT
               !.event = c.event, !.source = "operator", !.reason = "account_closed" ]
      [] current # NoValue /\ current.status # "closed" ->
           IF current.reason = "fraud_quarantine" /\ c.source = "billing_provider"
             THEN [CandidateFromEntitlement(current) EXCEPT !.event = c.event]
             ELSE c

FaultyInvalidatesCapabilities(current, c) ==
    c.status = "suspended" /\ c.reason = "fraud_quarantine"

InvalidatesCapabilities(current, c) ==
    \/ current.status # c.status
    \/ /\ c.status = "suspended" /\ c.reason = "fraud_quarantine"
       /\ current.reason # "fraud_quarantine"

ReconcileSellerEntitlement(current, candidate, at) ==
    LET c     == Admissible(current, NormalizeCandidateAtBoundary(candidate, at))
        fresh == current = NoValue
    IN  [ status |-> c.status, reason |-> c.reason, source |-> c.source,
          accessEndsAt |-> c.accessEndsAt, cancels |-> c.cancels, event |-> c.event,
          epoch   |-> CASE fresh -> 1
                        [] ~fresh /\ InvalidatesCapabilities(current, c) -> current.epoch + 1
                        [] OTHER -> current.epoch,
          rotationRequired |->
            ~fresh /\ \/ current.rotationRequired
                      \/ current.status # "active" /\ c.status = "active",
          version |-> IF fresh THEN 1 ELSE current.version + 1 ]

StoredVersion == IF entitlement = NoValue THEN 0 ELSE entitlement.version

VersionOf(e) == IF e = NoValue THEN 0 ELSE e.version

FaultyEntitlementUnchanged(base) == TRUE

\* The condition of Apply and ApplyWithAudit on the stored entitlement.
EntitlementUnchanged(base) == StoredVersion = VersionOf(base)

\* Apply: the entitlement and its reconciliation record, in one transaction.
Apply(e) ==
    /\ entitlement' = e
    /\ history' = Append(history,
         [source |-> e.source, event |-> e.event, status |-> e.status, epoch |-> e.epoch])

-----------------------------------------------------------------------------
\* The world around: time, and the provider's subscription

Tick ==
    /\ now < MaxTime
    /\ now' = now + 1
    /\ UNCHANGED <<subscription, entitlement, history, inbox, worker, operator>>

SubscriptionChanges ==
    /\ \E s \in Subscriptions \ {subscription} : subscription' = s
    /\ UNCHANGED <<now, entitlement, history, inbox, worker, operator>>

-----------------------------------------------------------------------------
\* StripeProviderEventService.Ingest

\* Store: an event is kept once; a second payload under its id quarantines it.
Ingest(e) ==
    /\ inbox[e] = "absent"
    /\ inbox' = [inbox EXCEPT ![e] = "received"]
    /\ UNCHANGED <<now, subscription, entitlement, history, worker, operator>>

IngestConflicting(e) ==
    /\ inbox[e] \notin {"absent", "quarantined"}
    /\ inbox' = [inbox EXCEPT ![e] = "quarantined"]
    /\ UNCHANGED <<now, subscription, entitlement, history, worker, operator>>

-----------------------------------------------------------------------------
\* StripeProviderEventService.Reconcile

\* MarkProcessing: one worker takes the event.  When the reply is lost the
\* event stays taken by nobody.
MarkProcessing(w, e) ==
    /\ worker[w].pc = "idle"
    /\ inbox[e] \in {"received", "failed"}
    /\ inbox' = [inbox EXCEPT ![e] = "processing"]
    /\ \/ worker' = [worker EXCEPT ![w] = [IdleWorker EXCEPT !.pc = "fetch", !.event = e]]
       \/ UNCHANGED worker
    /\ UNCHANGED <<now, subscription, entitlement, history, operator>>

StripeEntitlementStatus(s) ==
    CASE s.status = "active" /\ s.paid -> <<"active", "none">>
      [] s.status = "active" /\ ~s.paid -> <<"active", "payment_failed">>
      [] s.status = "past_due" -> <<"active", "payment_failed">>
      [] s.status = "unpaid" -> <<"suspended", "payment_failed">>
      [] s.status = "canceled" -> <<"cancelled", "cancelled">>
      [] s.status = "paused" -> <<"suspended", "administrative">>
      [] OTHER -> <<"suspended", "provider_incomplete">>

CurrentEntitlement(e) ==
    LET mapped == StripeEntitlementStatus(subscription) IN
    [ status |-> mapped[1], reason |-> mapped[2], source |-> "billing_provider",
      accessEndsAt |-> subscription.paidThrough, cancels |-> subscription.cancels, event |-> e ]

\* The provider is asked for the subscription as it is now.
FetchState(w) ==
    /\ worker[w].pc = "fetch"
    /\ worker' = [worker EXCEPT ![w] =
         [@ EXCEPT !.pc = "compare", !.candidate = CurrentEntitlement(worker[w].event)]]
    /\ UNCHANGED <<now, subscription, entitlement, history, inbox, operator>>

\* The provider or the store fails while nothing has been written.
FailReconcile(w) ==
    /\ worker[w].pc \in {"fetch", "compare", "read", "write"}
    /\ worker' = [worker EXCEPT ![w] = [IdleWorker EXCEPT !.pc = "failing", !.event = worker[w].event]]
    /\ UNCHANGED <<now, subscription, entitlement, history, inbox, operator>>

\* An earlier attempt may have applied this event already.
Compare(w) ==
    /\ worker[w].pc = "compare"
    /\ worker' = [worker EXCEPT ![w].pc =
         IF entitlement # NoValue /\ entitlement.event = worker[w].event THEN "confirm" ELSE "read"]
    /\ UNCHANGED <<now, subscription, entitlement, history, inbox, operator>>

\* ReconcileEntitlement reads the entitlement again, and the clock.
ReadCurrent(w) ==
    /\ worker[w].pc = "read"
    /\ StoredVersion < MaxVersion
    /\ worker' = [worker EXCEPT ![w] =
         [@ EXCEPT !.pc = "write", !.base = entitlement, !.candidate = NoValue,
                   !.proposed = ReconcileSellerEntitlement(entitlement, worker[w].candidate, now)]]
    /\ UNCHANGED <<now, subscription, entitlement, history, inbox, operator>>

FaultyAfterConflict(attempts) == IF attempts < MaxAttempts THEN "fetch" ELSE "mark"

\* Where a worker goes after a conflict: it fetches again, MaxAttempts times.
AfterConflict(attempts) == IF attempts < MaxAttempts THEN "fetch" ELSE "failing"

Retry(w) ==
    LET attempts == worker[w].attempts + 1 IN
    worker' = [worker EXCEPT ![w] =
      [@ EXCEPT !.pc = AfterConflict(attempts), !.attempts = attempts,
                !.base = NoValue, !.proposed = NoValue]]

\* Apply.  Its reply may be lost (the client's own retry then finds a
\* conflict), and the audit record or the cache invalidation may fail.
WriteReconciled(w) ==
    /\ worker[w].pc = "write"
    /\ EntitlementUnchanged(worker[w].base)
    /\ Apply(worker[w].proposed)
    /\ \/ \E next \in {"mark", "failing"} :
            worker' = [worker EXCEPT ![w] =
              [@ EXCEPT !.pc = next, !.base = NoValue, !.proposed = NoValue]]
       \/ Retry(w)
    /\ UNCHANGED <<now, subscription, inbox, operator>>

WriteConflicts(w) ==
    /\ worker[w].pc = "write"
    /\ ~EntitlementUnchanged(worker[w].base)
    /\ Retry(w)
    /\ UNCHANGED <<now, subscription, entitlement, history, inbox, operator>>

\* MarkApplied succeeds only while the event is processing.  A failure after
\* the write, of the call or of its reply, leads to MarkFailed.
MarkApplied(w) ==
    LET e == worker[w].event IN
    /\ worker[w].pc \in {"mark", "confirm"}
    /\ \/ /\ inbox[e] = "processing"
          /\ inbox' = [inbox EXCEPT ![e] = "applied"]
       \/ UNCHANGED inbox
    /\ worker' = [worker EXCEPT ![w] =
         IF worker[w].pc = "mark" /\ (inbox' = inbox)
           THEN [@ EXCEPT !.pc = "failing"] ELSE IdleWorker]
    /\ UNCHANGED <<now, subscription, entitlement, history, operator>>

MarkAppliedReplyLost(w) ==
    LET e == worker[w].event IN
    /\ worker[w].pc = "mark"
    /\ inbox[e] = "processing"
    /\ inbox' = [inbox EXCEPT ![e] = "applied"]
    /\ worker' = [worker EXCEPT ![w].pc = "failing"]
    /\ UNCHANGED <<now, subscription, entitlement, history, operator>>

\* MarkFailed leaves a quarantined event alone; its errors are ignored.
MarkFailedState(e) == IF inbox[e] = "quarantined" THEN "quarantined" ELSE "failed"

MarkFailed(w) ==
    LET e == worker[w].event IN
    /\ worker[w].pc = "failing"
    /\ inbox' = [inbox EXCEPT ![e] = MarkFailedState(e)]
    /\ worker' = [worker EXCEPT ![w] = IdleWorker]
    /\ UNCHANGED <<now, subscription, entitlement, history, operator>>

\* The process dies, or MarkFailed itself fails.
Crash(w) ==
    /\ worker[w].pc # "idle"
    /\ worker' = [worker EXCEPT ![w] = IdleWorker]
    /\ UNCHANGED <<now, subscription, entitlement, history, inbox, operator>>

-----------------------------------------------------------------------------
\* ops-entitlement

\* buildCandidate
OperatorCandidate(action, ends) ==
    CASE action = "grant" ->
           [ status |-> "active", reason |-> "none", source |-> "operator",
             accessEndsAt |-> ends, cancels |-> FALSE, event |-> NoValue ]
      [] action = "suspend" ->
           [ status |-> "suspended", reason |-> "administrative", source |-> "operator",
             accessEndsAt |-> entitlement.accessEndsAt, cancels |-> FALSE, event |-> NoValue ]
      [] action = "cancel" ->
           [ status |-> "cancelled", reason |-> "cancelled", source |-> "operator",
             accessEndsAt |-> entitlement.accessEndsAt, cancels |-> FALSE, event |-> NoValue ]

\* The run with --apply reads the entitlement.  The digest of the dry run
\* binds the entitlement reviewed and the one proposed, so the run goes on only
\* if it reads what was reviewed: the dry run leaves nothing else behind.  A
\* repeated operation id is answered from its record and changes nothing.
LoadOperation(o, action, ends) ==
    /\ operator[o] = NoOperation
    /\ StoredVersion < MaxVersion
    /\ IF action = "grant" THEN ends > now ELSE entitlement # NoValue
    /\ operator' = [operator EXCEPT ![o] =
         [ expectedVersion |-> StoredVersion,
           proposed |-> ReconcileSellerEntitlement(
                          entitlement, OperatorCandidate(action, ends), now) ]]
    /\ UNCHANGED <<now, subscription, entitlement, history, inbox, worker>>

\* ApplyWithAudit, on the reviewed version.
ApplyOperation(o) ==
    /\ operator[o] # NoOperation
    /\ \/ /\ StoredVersion = operator[o].expectedVersion
          /\ Apply(operator[o].proposed)
       \/ /\ StoredVersion # operator[o].expectedVersion
          /\ UNCHANGED <<entitlement, history>>
    /\ operator' = [operator EXCEPT ![o] = NoOperation]
    /\ UNCHANGED <<now, subscription, inbox, worker>>

-----------------------------------------------------------------------------
EntitlementNext ==
    \/ Tick
    \/ SubscriptionChanges
    \/ \E e \in Events : Ingest(e) \/ IngestConflicting(e)
    \/ \E w \in Workers, e \in Events : MarkProcessing(w, e)
    \/ \E w \in Workers :
         \/ FetchState(w) \/ FailReconcile(w) \/ Compare(w) \/ ReadCurrent(w)
         \/ WriteReconciled(w) \/ WriteConflicts(w)
         \/ MarkApplied(w) \/ MarkAppliedReplyLost(w) \/ MarkFailed(w) \/ Crash(w)
    \/ \E o \in Operators :
         \/ \E action \in Actions, ends \in AccessEnds : LoadOperation(o, action, ends)
         \/ ApplyOperation(o)

EntitlementSpec == EntitlementInit /\ [][EntitlementNext]_entitlementVars

-----------------------------------------------------------------------------
\* Every variable has its type.
EntitlementTypeOK ==
    /\ now \in 0 .. MaxTime
    /\ subscription \in Subscriptions
    /\ entitlement \in Entitlements \cup {NoValue}
    /\ history \in Seq([ source : Sources, event : Events \cup {NoValue},
                         status : EntitlementStatuses, epoch : Nat ])
    /\ inbox \in [Events -> EventStates]
    /\ worker \in
         [Workers -> [ pc : {"idle", "fetch", "compare", "read", "write", "mark",
                            "confirm", "failing"},
                      event : Events \cup {NoValue}, candidate : Candidates \cup {NoValue},
                      base : Entitlements \cup {NoValue}, proposed : Entitlements \cup {NoValue},
                      attempts : 0 .. MaxAttempts ]]
    /\ operator \in
         [Operators -> [expectedVersion : Nat, proposed : Entitlements \cup {NoValue}]]

\* The stored entitlement is the last of an unbroken chain of reconciliations:
\* each has its record, and the epoch has moved once per change of status.  A
\* writer that worked on an outdated copy would leave a version without record
\* or an epoch that a later writer uses again.
EpochCountsChanges ==
    entitlement # NoValue =>
      /\ entitlement.version = Len(history)
      /\ entitlement.status = history[Len(history)].status
      /\ \A r \in 1 .. Len(history) - 1 :
           history[r + 1].epoch =
             history[r].epoch + (IF history[r].status = history[r + 1].status THEN 0 ELSE 1)

\* An event is marked applied only when the entitlement was reconciled for it,
\* whatever conflicts, lost replies and crashes the workers met.
AppliedIsReconciled ==
    \A e \in Events :
      inbox[e] = "applied" => \E r \in DOMAIN history : history[r].event = e
=============================================================================

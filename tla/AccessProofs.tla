---------------------------- MODULE AccessProofs ----------------------------
(***************************************************************************)
(* The safety of the seller entitlement and of the project keys that are   *)
(* issued under it, for any number of events, workers, operators, keys and *)
(* concurrent requests, and any clock.                                     *)
(*                                                                         *)
(* A reconciliation is written only onto the version it was computed from, *)
(* and a copy that has the stored version is the stored record.  So each   *)
(* revision follows the one before it, the epoch grows with every change   *)
(* of status, and no epoch stands for two statuses: a key issued before an *)
(* interruption carries an epoch the entitlement never has again.  A key   *)
(* keeps its epoch, and a revocation is never undone, so a request that    *)
(* began after its key lost its authority meets the loss at one of its two *)
(* reads.                                                                  *)
(***************************************************************************)
EXTENDS ProjectKeys, TLAPS

\* The runs of the reconciliation worker, by control point.
WorkerRecords ==
    [ pc : {"idle", "fetch", "compare", "read", "write", "mark", "confirm", "failing"},
      event : Events \cup {NoValue}, candidate : Candidates \cup {NoValue},
      base : Entitlements \cup {NoValue}, proposed : Entitlements \cup {NoValue},
      attempts : 0 .. MaxAttempts ]

\* The entitlement revisions, in the order they were stored.
HistoryRecords ==
    [source : Sources, event : Events \cup {NoValue}, status : EntitlementStatuses, epoch : Nat]

\* The entitlement e may follow base in one reconciliation.
Succeeds(e, base) ==
    /\ e \in Entitlements
    /\ e.reason # "fraud_quarantine"
    /\ e.version = VersionOf(base) + 1
    /\ base # NoValue =>
         e.epoch = base.epoch + (IF e.status = base.status THEN 0 ELSE 1)

\* The stored entitlement is the last of the history, in which the epoch grows
\* and stands for one status.
ChainOK ==
    /\ entitlement = NoValue => Len(history) = 0
    /\ entitlement # NoValue =>
         /\ entitlement.reason # "fraud_quarantine"
         /\ Len(history) > 0 /\ entitlement.version = Len(history)
         /\ history[Len(history)].status = entitlement.status
         /\ history[Len(history)].epoch = entitlement.epoch
         /\ history[Len(history)].event = entitlement.event
    /\ \A r \in 1 .. Len(history) - 1 :
         history[r + 1].epoch =
           history[r].epoch + (IF history[r].status = history[r + 1].status THEN 0 ELSE 1)

\* Epochs grow along the history, and one epoch stands for one status.
EpochsOK ==
    \A q, r \in 1 .. Len(history) : q <= r =>
        /\ history[q].epoch <= history[r].epoch
        /\ history[q].epoch = history[r].epoch => history[q].status = history[r].status

\* The event was used in a revision.
Reconciled(e) == \E r \in 1 .. Len(history) : history[r].event = e

\* What a worker holds.  Its base may be old, but at the stored version it is
\* the stored entitlement, and its proposal follows its base.
WorkerOK(w) ==
    /\ worker[w].pc # "idle" => worker[w].event \in Events
    /\ worker[w].pc \in {"fetch", "compare", "read", "write"} => worker[w].attempts < MaxAttempts
    /\ worker[w].pc \in {"compare", "read"} =>
         /\ worker[w].candidate \in Candidates
         /\ worker[w].candidate.event = worker[w].event
         /\ worker[w].candidate.reason # "fraud_quarantine"
    /\ worker[w].pc = "write" =>
         /\ VersionOf(worker[w].base) <= StoredVersion
         /\ VersionOf(worker[w].base) = StoredVersion => worker[w].base = entitlement
         /\ Succeeds(worker[w].proposed, worker[w].base)
         /\ worker[w].proposed.event = worker[w].event
    /\ worker[w].pc \in {"mark", "confirm"} => Reconciled(worker[w].event)

\* What the operator command holds: its proposal follows the stored entitlement
\* as long as that has the version the command expects.
OperatorOK(o) ==
    operator[o] # NoOperation =>
        /\ operator[o].expectedVersion <= StoredVersion
        /\ operator[o].expectedVersion = StoredVersion =>
             Succeeds(operator[o].proposed, entitlement)
        /\ operator[o].proposed \in Entitlements

\* The inductive invariant of Entitlement.
EntitlementInv ==
    /\ EntitlementTypeOK
    /\ ChainOK
    /\ EpochsOK
    /\ \A w \in Workers : WorkerOK(w)
    /\ \A o \in Operators : OperatorOK(o)
    /\ AppliedIsReconciled

\* There is no entitlement, and nobody is working on one.
LEMMA EntitlementInitOK == EntitlementInit => EntitlementInv
<1> SUFFICES ASSUME EntitlementInit PROVE EntitlementInv
  OBVIOUS
<1> USE EntitlementAssumption
<1>1. IdleWorker \in WorkerRecords /\ IdleWorker.pc = "idle"
  BY DEF IdleWorker, WorkerRecords
<1>2. EntitlementTypeOK
  <2>1. history \in Seq(HistoryRecords) /\ Len(history) = 0
    BY DEF EntitlementInit
  <2> QED
    BY <1>1, <2>1 DEF EntitlementInit, EntitlementTypeOK, WorkerRecords, HistoryRecords, EventStates,
        NoOperation
<1>3. Len(history) = 0
  BY DEF EntitlementInit
<1>4. \A w \in Workers : worker[w].pc = "idle"
  BY <1>1 DEF EntitlementInit
<1> QED
  BY <1>2, <1>3, <1>4 DEF EntitlementInit, EntitlementInv, ChainOK, EpochsOK, WorkerOK, OperatorOK,
     AppliedIsReconciled

\* The boundary rule may downgrade a candidate; it keeps its event.
LEMMA NormalizedType ==
    ASSUME NEW c \in Candidates, c.reason # "fraud_quarantine", NEW at
    PROVE  /\ NormalizeCandidateAtBoundary(c, at) \in Candidates
           /\ NormalizeCandidateAtBoundary(c, at).event = c.event
           /\ NormalizeCandidateAtBoundary(c, at).reason # "fraud_quarantine"
BY DEF NormalizeCandidateAtBoundary, Candidates, EntitlementStatuses, Reasons

\* The candidate that is reconciled carries the event of the one that was
\* given, even where the status is taken from the stored entitlement.
LEMMA AdmissibleType ==
    ASSUME NEW c \in Candidates, c.reason # "fraud_quarantine",
           NEW current \in Entitlements \cup {NoValue},
           current # NoValue => current.reason # "fraud_quarantine"
    PROVE  /\ Admissible(current, c) \in Candidates
           /\ Admissible(current, c).event = c.event
           /\ Admissible(current, c).reason # "fraud_quarantine"
BY EntitlementAssumption DEF Admissible, CandidateFromEntitlement, Candidates, Entitlements, EntitlementStatuses, Reasons, Sources

\* ReconcileSellerEntitlement computes an entitlement that follows the one it
\* was given: the next version, and the next epoch exactly when the status
\* changes.
LEMMA ReconciledSucceeds ==
    ASSUME NEW candidate \in Candidates, candidate.reason # "fraud_quarantine",
           NEW current \in Entitlements \cup {NoValue},
           current # NoValue => current.reason # "fraud_quarantine", NEW at
    PROVE  /\ Succeeds(ReconcileSellerEntitlement(current, candidate, at), current)
           /\ ReconcileSellerEntitlement(current, candidate, at).event = candidate.event
<1> USE EntitlementAssumption
<1>1. PICK n \in Candidates : n = NormalizeCandidateAtBoundary(candidate, at)
                           /\ n.event = candidate.event /\ n.reason # "fraud_quarantine"
  BY NormalizedType
<1>2. PICK c \in Candidates : c = Admissible(current, n)
                           /\ c.event = candidate.event /\ c.reason # "fraud_quarantine"
  BY <1>1, AdmissibleType
<1>3. CASE current = NoValue
  BY <1>1, <1>2, <1>3 DEF Succeeds, VersionOf, ReconcileSellerEntitlement, Candidates, Entitlements
<1>4. CASE current # NoValue
  BY <1>1, <1>2, <1>4 DEF Succeeds, VersionOf, ReconcileSellerEntitlement, Candidates, Entitlements,
     InvalidatesCapabilities
<1> QED BY <1>3, <1>4

\* Versions are numbers, that of no entitlement included.
LEMMA VersionType ==
    ASSUME NEW e \in Entitlements \cup {NoValue}
    PROVE  VersionOf(e) \in Nat
BY EntitlementAssumption DEF VersionOf, Entitlements

\* A worker is not disturbed by a step that stores no entitlement.
LEMMA WorkerKept ==
    ASSUME UNCHANGED <<entitlement, history>>, NEW w \in Workers,
           worker'[w] = worker[w], WorkerOK(w)
    PROVE  WorkerOK(w)'
BY DEF WorkerOK, StoredVersion, Reconciled

\* The operator command is not disturbed by a step that stores no entitlement.
LEMMA OperatorKept ==
    ASSUME UNCHANGED <<entitlement, history>>, NEW o \in Operators,
           operator'[o] = operator[o], OperatorOK(o)
    PROVE  OperatorOK(o)'
BY DEF OperatorOK, StoredVersion

\* A step of one worker or operator that stores no entitlement.
LEMMA StepKept ==
    ASSUME EntitlementInv, EntitlementTypeOK', UNCHANGED <<entitlement, history>>,
           \A w \in Workers : worker'[w] # worker[w] => WorkerOK(w)',
           \A o \in Operators : operator'[o] # operator[o] => OperatorOK(o)',
           \A e \in Events : inbox'[e] = "applied" => inbox[e] = "applied" \/ Reconciled(e)
    PROVE  EntitlementInv'
<1>1. \A w \in Workers : WorkerOK(w)'
  BY WorkerKept DEF EntitlementInv
<1>2. \A o \in Operators : OperatorOK(o)'
  BY OperatorKept DEF EntitlementInv
<1>3. ChainOK' /\ EpochsOK'
  BY DEF EntitlementInv, ChainOK, EpochsOK
<1>4. DOMAIN history = 1 .. Len(history)
  BY DEF EntitlementInv, EntitlementTypeOK
<1>5. AppliedIsReconciled'
  BY <1>4 DEF EntitlementInv, AppliedIsReconciled, Reconciled
<1> QED BY <1>1, <1>2, <1>3, <1>5 DEF EntitlementInv

\* Storing an entitlement that follows the stored one extends the history by
\* one revision that keeps its order.
LEMMA AppliedOK ==
    ASSUME EntitlementInv, NEW e, Succeeds(e, entitlement), Apply(e)
    PROVE  /\ ChainOK' /\ EpochsOK'
           /\ entitlement' \in Entitlements
           /\ history' \in Seq(HistoryRecords)
           /\ StoredVersion' = StoredVersion + 1
           /\ Reconciled(e.event)'
           /\ \A x : Reconciled(x) => Reconciled(x)'
<1> USE EntitlementAssumption
<1> DEFINE n == Len(history)
           record == [source |-> e.source, event |-> e.event, status |-> e.status, epoch |-> e.epoch]
<1>1. history \in Seq(HistoryRecords) /\ n \in Nat
  BY DEF EntitlementInv, EntitlementTypeOK, HistoryRecords
<1>2. e \in Entitlements /\ e.epoch \in Nat /\ e.version \in Nat /\ e.version = VersionOf(entitlement) + 1
      /\ entitlement' = e /\ entitlement' # NoValue
  BY DEF Succeeds, Apply, Entitlements
<1>3. record \in HistoryRecords
  BY <1>2 DEF HistoryRecords, Entitlements
<1>4. history' = Append(history, record)
  BY DEF Apply
<1>4a. record.status = e.status /\ record.epoch = e.epoch /\ record.event = e.event
  OBVIOUS
<1> HIDE DEF record
<1>5. /\ history' \in Seq(HistoryRecords) /\ Len(history') = n + 1
      /\ \A r \in 1 .. n : history'[r] = history[r] /\ history[r] \in HistoryRecords
      /\ history'[n + 1] = record
  BY <1>1, <1>3, <1>4
<1>6. n = VersionOf(entitlement)
  BY DEF EntitlementInv, ChainOK, VersionOf
<1>7. n = 0 <=> entitlement = NoValue
  BY DEF EntitlementInv, ChainOK
<1>8. \A r \in 1 .. n : history[r].epoch \in Nat
  BY <1>5 DEF HistoryRecords
<1> HIDE DEF n
<1>9. n > 0 => /\ record.epoch = history[n].epoch + (IF record.status = history[n].status THEN 0 ELSE 1)
  BY <1>1, <1>4a, <1>7 DEF Succeeds, EntitlementInv, ChainOK, n
<1>10. \A r \in 1 .. n - 1 :
         history[r + 1].epoch =
           history[r].epoch + (IF history[r].status = history[r + 1].status THEN 0 ELSE 1)
  BY DEF EntitlementInv, ChainOK, n
<1>11. \A r \in 1 .. n :
         history'[r + 1].epoch =
           history'[r].epoch + (IF history'[r].status = history'[r + 1].status THEN 0 ELSE 1)
  <2> SUFFICES ASSUME NEW r \in 1 .. n
               PROVE  history'[r + 1].epoch =
           history'[r].epoch + (IF history'[r].status = history'[r + 1].status THEN 0 ELSE 1)
    OBVIOUS
  <2>1. CASE r = n
    BY <1>1, <1>5, <1>9, <2>1
  <2>2. CASE r # n
    <3>1. r \in 1 .. n - 1 /\ r + 1 \in 1 .. n
      BY <1>1, <2>2
    <3> QED BY <1>5, <1>10, <3>1
  <2> QED BY <2>1, <2>2
<1>12. ChainOK'
  <2>1. Len(history') - 1 = n /\ Len(history') > 0
    BY <1>1, <1>5
  <2>2. e.version = n + 1 /\ entitlement'.reason # "fraud_quarantine"
    BY <1>2, <1>6 DEF Succeeds
  <2> QED
    BY <1>2, <1>4a, <1>5, <1>11, <2>1, <2>2 DEF ChainOK
<1>13. EpochsOK'
  <2> SUFFICES ASSUME NEW q \in 1 .. n + 1, NEW r \in 1 .. n + 1, q <= r
               PROVE /\ history'[q].epoch <= history'[r].epoch
                     /\ history'[q].epoch = history'[r].epoch => history'[q].status = history'[r].status
    BY <1>5 DEF EpochsOK
  <2>0. record.epoch \in Nat
    BY <1>2, <1>4a
  <2>1. CASE r \in 1 .. n
    BY <1>1, <1>5, <2>1 DEF EntitlementInv, EpochsOK, n
  <2>2. CASE r = n + 1 /\ q = n + 1
    BY <1>5, <2>0, <2>2
  <2>3. CASE r = n + 1 /\ q \in 1 .. n
    <3>1. n \in 1 .. n /\ n > 0
      BY <1>1, <2>3
    <3>2. /\ history[q].epoch <= history[n].epoch
          /\ history[q].epoch = history[n].epoch => history[q].status = history[n].status
      BY <1>1, <2>3, <3>1 DEF EntitlementInv, EpochsOK, n
    <3>3. history[q].epoch \in Nat /\ history[n].epoch \in Nat
      BY <1>8, <2>3, <3>1
    <3>4. history'[q] = history[q] /\ history'[r] = record
      BY <1>5, <2>3
    <3> QED BY <1>9, <2>0, <3>1, <3>2, <3>3, <3>4
  <2> QED BY <1>1, <2>1, <2>2, <2>3
<1>14. StoredVersion' = StoredVersion + 1
  BY <1>2 DEF StoredVersion, VersionOf
<1>15. Reconciled(e.event)' /\ \A x : Reconciled(x) => Reconciled(x)'
  BY <1>1, <1>4a, <1>5 DEF Reconciled, n
<1> QED BY <1>2, <1>5, <1>12, <1>13, <1>14, <1>15

\* A worker whose base was overtaken can only lose the conditional write.
LEMMA WorkerKeptByApply ==
    ASSUME EntitlementInv, NEW e, Succeeds(e, entitlement), Apply(e), NEW w \in Workers,
           worker'[w] = worker[w]
    PROVE  WorkerOK(w)'
<1>1. WorkerOK(w)
  BY DEF EntitlementInv
<1>2. /\ StoredVersion' = StoredVersion + 1
      /\ \A x : Reconciled(x) => Reconciled(x)'
  BY AppliedOK
<1>3. StoredVersion \in Nat /\ VersionOf(worker[w].base) \in Nat
  BY VersionType DEF StoredVersion, VersionOf, EntitlementInv, EntitlementTypeOK
<1>4. worker[w].pc \in {"mark", "confirm"} => Reconciled(worker[w].event)'
  <2>1. PICK x : x = worker[w].event
    OBVIOUS
  <2>2. worker[w].pc \in {"mark", "confirm"} => Reconciled(x)'
    BY <1>1, <1>2, <2>1 DEF WorkerOK
  <2> QED BY <2>1, <2>2 DEF Reconciled
<1>5. worker[w].pc = "write" =>
         /\ VersionOf(worker[w].base) <= StoredVersion'
         /\ VersionOf(worker[w].base) # StoredVersion'
  BY <1>1, <1>2, <1>3 DEF WorkerOK
<1> QED
  BY <1>1, <1>4, <1>5 DEF WorkerOK, Reconciled

\* A command whose version was overtaken can only lose the conditional write.
LEMMA OperatorKeptByApply ==
    ASSUME EntitlementInv, NEW e, Succeeds(e, entitlement), Apply(e), NEW o \in Operators,
           operator'[o] = operator[o]
    PROVE  OperatorOK(o)'
<1>1. OperatorOK(o)
  BY DEF EntitlementInv
<1>2. StoredVersion' = StoredVersion + 1
  BY AppliedOK
<1>3. StoredVersion \in Nat /\ operator[o].expectedVersion \in Nat
  BY VersionType DEF StoredVersion, VersionOf, EntitlementInv, EntitlementTypeOK
<1>4. operator[o] # NoOperation =>
        /\ operator[o].expectedVersion <= StoredVersion'
        /\ operator[o].expectedVersion # StoredVersion'
  BY <1>1, <1>2, <1>3 DEF OperatorOK
<1> QED
  BY <1>1, <1>4 DEF OperatorOK

\* Every step of the inbox, the worker and the operator command keeps the
\* invariant.
LEMMA EntitlementNextOK ==
    EntitlementInv /\ [EntitlementNext]_entitlementVars => EntitlementInv'
<1> SUFFICES ASSUME EntitlementInv, [EntitlementNext]_entitlementVars
             PROVE  EntitlementInv'
    OBVIOUS
<1> USE EntitlementAssumption
<1>t. /\ worker \in [Workers -> WorkerRecords] /\ inbox \in [Events -> EventStates]
      /\ history \in Seq(HistoryRecords)
      /\ now \in 0 .. MaxTime /\ subscription \in Subscriptions
      /\ entitlement \in Entitlements \cup {NoValue}
      /\ operator \in [Operators -> [expectedVersion : Nat, proposed : Entitlements \cup {NoValue}]]
  BY DEF EntitlementInv, EntitlementTypeOK, WorkerRecords, HistoryRecords
<1>i. IdleWorker \in WorkerRecords /\ IdleWorker.pc = "idle" /\ IdleWorker.attempts = 0
  BY DEF IdleWorker, WorkerRecords
\* A step of one worker that leaves the entitlement alone.
<1>w. ASSUME NEW w \in Workers, NEW rec \in WorkerRecords,
             worker' = [worker EXCEPT ![w] = rec], WorkerOK(w)',
             UNCHANGED <<now, subscription, entitlement, history, operator>>,
             inbox' \in [Events -> EventStates],
             \A e \in Events : inbox'[e] = "applied" => inbox[e] = "applied" \/ Reconciled(e)
      PROVE  EntitlementInv'
  <2>1. worker' \in [Workers -> WorkerRecords] /\ \A x \in Workers : worker'[x] # worker[x] => x = w
    BY <1>t, <1>w
  <2>2. EntitlementTypeOK'
    BY <1>t, <1>w, <2>1 DEF EntitlementTypeOK, WorkerRecords, HistoryRecords
  <2> QED BY <1>w, <2>1, <2>2, StepKept
\* A worker that ends.
<1>e. ASSUME NEW w \in Workers, worker' = [worker EXCEPT ![w] = IdleWorker],
             UNCHANGED <<now, subscription, entitlement, history, operator>>,
             inbox' \in [Events -> EventStates],
             \A e \in Events : inbox'[e] = "applied" => inbox[e] = "applied" \/ Reconciled(e)
      PROVE  EntitlementInv'
  <2>1. WorkerOK(w)'
    <3>1. worker'[w].pc = "idle"
      BY <1>t, <1>i, <1>e
    <3> QED BY <3>1 DEF WorkerOK
  <2> QED BY <1>w, <1>e, <1>i, <2>1
<1>1. CASE Tick \/ SubscriptionChanges
  <2>1. EntitlementTypeOK'
    BY <1>t, <1>1 DEF Tick, SubscriptionChanges, EntitlementTypeOK, WorkerRecords, HistoryRecords
  <2> QED BY <1>1, <2>1, StepKept DEF Tick, SubscriptionChanges
<1>2. ASSUME NEW e \in Events, Ingest(e) \/ IngestConflicting(e)
      PROVE  EntitlementInv'
  <2>1. EntitlementTypeOK'
    BY <1>t, <1>2 DEF Ingest, IngestConflicting, EntitlementTypeOK, WorkerRecords, HistoryRecords, EventStates
  <2>2. \A x \in Events : inbox'[x] = "applied" => inbox[x] = "applied"
    BY <1>t, <1>2 DEF Ingest, IngestConflicting
  <2> QED BY <1>2, <2>1, <2>2, StepKept DEF Ingest, IngestConflicting
<1>3. ASSUME NEW w \in Workers, NEW e \in Events, MarkProcessing(w, e)
      PROVE  EntitlementInv'
  <2>1. inbox' \in [Events -> EventStates] /\ \A x \in Events : inbox'[x] = "applied" => inbox[x] = "applied"
    BY <1>t, <1>3 DEF MarkProcessing, EventStates
  <2>2. CASE UNCHANGED worker
    <3>1. EntitlementTypeOK'
      BY <1>t, <1>3, <2>1, <2>2 DEF MarkProcessing, EntitlementTypeOK, WorkerRecords, HistoryRecords
    <3> QED BY <1>3, <2>1, <2>2, <3>1, StepKept DEF MarkProcessing
  <2>3. CASE worker' = [worker EXCEPT ![w] = [IdleWorker EXCEPT !.pc = "fetch", !.event = e]]
    <3> DEFINE rec == [IdleWorker EXCEPT !.pc = "fetch", !.event = e]
    <3>1. rec \in WorkerRecords /\ rec.pc = "fetch" /\ rec.event = e /\ rec.attempts = 0
      BY <1>i DEF WorkerRecords
    <3> HIDE DEF rec
    <3>2. worker' = [worker EXCEPT ![w] = rec]
      BY <2>3 DEF rec
    <3>3. worker'[w] = rec
      BY <1>t, <3>2
    <3>4. WorkerOK(w)'
      BY <3>1, <3>3 DEF WorkerOK
    <3> QED BY <1>3, <1>w, <2>1, <3>1, <3>2, <3>4 DEF MarkProcessing
  <2> QED BY <1>3, <2>2, <2>3 DEF MarkProcessing
<1>4. ASSUME NEW w \in Workers, FetchState(w)
      PROVE  EntitlementInv'
  <2> DEFINE c == CurrentEntitlement(worker[w].event)
             rec == [[worker[w] EXCEPT !.pc = "compare"] EXCEPT !.candidate = c]
  <2>1. worker[w].event \in Events /\ worker[w].attempts < MaxAttempts
    BY <1>4 DEF FetchState, EntitlementInv, WorkerOK
  <2>2. c \in Candidates /\ c.event = worker[w].event /\ c.reason # "fraud_quarantine"
    <3>1. PICK m : m = StripeEntitlementStatus(subscription)
      OBVIOUS
    <3>2. m[1] \in EntitlementStatuses /\ m[2] \in Reasons \ {"fraud_quarantine"}
      BY <3>1 DEF StripeEntitlementStatus, EntitlementStatuses, Reasons
    <3>3. subscription.paidThrough \in Nat /\ subscription.cancels \in BOOLEAN
      BY <1>t
    <3>4. c = [ status |-> m[1], reason |-> m[2], source |-> "billing_provider",
      accessEndsAt |-> subscription.paidThrough, cancels |-> subscription.cancels, event |-> worker[w].event ]
      BY <3>1 DEF CurrentEntitlement
    <3> QED
      BY <2>1, <3>2, <3>3, <3>4 DEF Candidates, Sources
  <2> HIDE DEF c
  <2>3. worker[w] \in WorkerRecords
    BY <1>t
  <2>4. /\ rec \in WorkerRecords /\ rec.pc = "compare" /\ rec.candidate = c
        /\ rec.event = worker[w].event /\ rec.attempts = worker[w].attempts
    BY <2>2, <2>3 DEF WorkerRecords
  <2> HIDE DEF rec
  <2>5. worker' = [worker EXCEPT ![w] = rec]
    BY <1>t, <1>4 DEF FetchState, rec, c
  <2>6. worker'[w] = rec
    BY <1>t, <2>5
  <2>7. WorkerOK(w)'
    BY <2>1, <2>2, <2>4, <2>6 DEF WorkerOK
  <2> QED BY <1>4, <1>t, <1>w, <2>4, <2>5, <2>7 DEF FetchState
<1>5. ASSUME NEW w \in Workers, FailReconcile(w)
      PROVE  EntitlementInv'
  <2> DEFINE rec == [IdleWorker EXCEPT !.pc = "failing", !.event = worker[w].event]
  <2>1. worker[w].event \in Events
    BY <1>5 DEF FailReconcile, EntitlementInv, WorkerOK
  <2>2. rec \in WorkerRecords /\ rec.pc = "failing" /\ rec.event = worker[w].event
    BY <1>i, <2>1 DEF WorkerRecords
  <2> HIDE DEF rec
  <2>3. worker' = [worker EXCEPT ![w] = rec]
    BY <1>5 DEF FailReconcile, rec
  <2>4. worker'[w] = rec
    BY <1>t, <2>3
  <2>5. WorkerOK(w)'
    BY <2>1, <2>2, <2>4 DEF WorkerOK
  <2> QED BY <1>5, <1>t, <1>w, <2>2, <2>3, <2>5 DEF FailReconcile
<1>6. ASSUME NEW w \in Workers, Compare(w)
      PROVE  EntitlementInv'
  <2> DEFINE next == IF entitlement # NoValue /\ entitlement.event = worker[w].event THEN "confirm" ELSE "read"
             rec == [worker[w] EXCEPT !.pc = next]
  <2>1. worker[w] \in WorkerRecords /\ WorkerOK(w) /\ worker[w].pc = "compare"
    BY <1>6, <1>t DEF Compare, EntitlementInv
  <2>2. next \in {"confirm", "read"}
    OBVIOUS
  <2>3. next = "confirm" => Reconciled(worker[w].event)
    BY <1>t DEF EntitlementInv, ChainOK, Reconciled
  <2> HIDE DEF next
  <2>4. /\ rec \in WorkerRecords /\ rec.pc = next /\ rec.candidate = worker[w].candidate
        /\ rec.event = worker[w].event /\ rec.attempts = worker[w].attempts
    BY <2>1, <2>2 DEF WorkerRecords
  <2> HIDE DEF rec
  <2>5. worker' = [worker EXCEPT ![w] = rec]
    BY <1>t, <1>6 DEF Compare, rec, next
  <2>6. worker'[w] = rec
    BY <1>t, <2>5
  <2>7. WorkerOK(w)'
    <3>1. PICK e : e = worker[w].event
      OBVIOUS
    <3>2. next = "confirm" => Reconciled(e)'
      BY <1>6, <2>3, <3>1 DEF Compare, Reconciled
    <3>3. next = "confirm" => Reconciled(worker[w].event)'
      BY <2>4, <2>6, <3>1, <3>2 DEF Reconciled
    <3> QED
      BY <2>1, <2>2, <2>4, <2>6, <3>3 DEF WorkerOK
  <2> QED BY <1>6, <1>t, <1>w, <2>4, <2>5, <2>7 DEF Compare
<1>7. ASSUME NEW w \in Workers, ReadCurrent(w)
      PROVE  EntitlementInv'
  <2> DEFINE p == ReconcileSellerEntitlement(entitlement, worker[w].candidate, now)
             rec == [[[[worker[w] EXCEPT !.pc = "write"] EXCEPT !.base = entitlement]
                        EXCEPT !.candidate = NoValue] EXCEPT !.proposed = p]
  <2>1. worker[w] \in WorkerRecords /\ WorkerOK(w) /\ worker[w].pc = "read"
    BY <1>7, <1>t DEF ReadCurrent, EntitlementInv
  <2>2. Succeeds(p, entitlement) /\ p.event = worker[w].event
    <3>1. entitlement # NoValue => entitlement.reason # "fraud_quarantine"
      BY DEF EntitlementInv, ChainOK
    <3> QED
      BY <1>t, <2>1, <3>1, ReconciledSucceeds DEF WorkerOK
  <2>3. p \in Entitlements
    BY <2>2 DEF Succeeds
  <2> HIDE DEF p
  <2>4. /\ rec \in WorkerRecords /\ rec.pc = "write" /\ rec.base = entitlement /\ rec.proposed = p
        /\ rec.event = worker[w].event /\ rec.attempts = worker[w].attempts
    BY <1>t, <2>1, <2>3 DEF WorkerRecords
  <2> HIDE DEF rec
  <2>5. worker' = [worker EXCEPT ![w] = rec]
    BY <1>t, <1>7 DEF ReadCurrent, rec, p
  <2>6. worker'[w] = rec
    BY <1>t, <2>5
  <2>7. WorkerOK(w)'
    <3>1. VersionOf(entitlement) = StoredVersion /\ StoredVersion \in Nat
      BY <1>t, VersionType DEF VersionOf, StoredVersion
    <3>2. StoredVersion' = StoredVersion /\ entitlement' = entitlement
      BY <1>7 DEF ReadCurrent, StoredVersion
    <3> QED
      BY <2>1, <2>2, <2>4, <2>6, <3>1, <3>2 DEF WorkerOK
  <2> QED BY <1>7, <1>t, <1>w, <2>4, <2>5, <2>7 DEF ReadCurrent
<1>r. ASSUME NEW w \in Workers, worker[w].pc = "write", Retry(w)
      PROVE  \E rec \in WorkerRecords :
               /\ worker' = [worker EXCEPT ![w] = rec]
               /\ rec.pc \in {"fetch", "failing"} /\ rec.event = worker[w].event
               /\ rec.pc = "fetch" => rec.attempts < MaxAttempts
  <2> DEFINE n == worker[w].attempts + 1
             next == AfterConflict(n)
             rec == [[[[worker[w] EXCEPT !.pc = next] EXCEPT !.attempts = n]
                        EXCEPT !.base = NoValue] EXCEPT !.proposed = NoValue]
  <2>1. worker[w] \in WorkerRecords /\ worker[w].attempts < MaxAttempts
    BY <1>r, <1>t DEF EntitlementInv, WorkerOK
  <2>2. n \in 0 .. MaxAttempts
    BY <2>1 DEF WorkerRecords
  <2>3. next \in {"fetch", "failing"} /\ (next = "fetch" => n < MaxAttempts)
    BY DEF AfterConflict
  <2>4. worker' = [worker EXCEPT ![w] = rec]
    <3> HIDE DEF n
    <3>1. worker' = [worker EXCEPT ![w] =
            [@ EXCEPT !.pc = next, !.attempts = n, !.base = NoValue, !.proposed = NoValue]]
      BY <1>r DEF Retry, n
    <3> HIDE DEF next
    <3> QED BY <1>t, <2>1, <3>1
  <2> HIDE DEF n, next
  <2>5. /\ rec \in WorkerRecords /\ rec.pc = next /\ rec.event = worker[w].event
        /\ rec.attempts = n
    BY <2>1, <2>2, <2>3 DEF WorkerRecords
  <2> HIDE DEF rec
  <2> QED BY <2>3, <2>4, <2>5
<1>8. ASSUME NEW w \in Workers, WriteReconciled(w)
      PROVE  EntitlementInv'
  <2>1. worker[w] \in WorkerRecords /\ WorkerOK(w) /\ worker[w].pc = "write"
    BY <1>8, <1>t DEF WriteReconciled, EntitlementInv
  <2>2. PICK p : p = worker[w].proposed
    OBVIOUS
  <2>3. Succeeds(p, entitlement) /\ Apply(p) /\ p.event = worker[w].event
    BY <1>8, <2>1, <2>2 DEF WriteReconciled, WorkerOK, EntitlementUnchanged
  <2>4. /\ ChainOK' /\ EpochsOK'
        /\ entitlement' \in Entitlements
        /\ history' \in Seq(HistoryRecords)
        /\ Reconciled(p.event)'
        /\ \A x : Reconciled(x) => Reconciled(x)'
    BY <2>3, AppliedOK
  <2>5. \E rec \in WorkerRecords :
               /\ worker' = [worker EXCEPT ![w] = rec]
               /\ rec.pc \in {"fetch", "failing", "mark"} /\ rec.event = worker[w].event
               /\ rec.pc = "fetch" => rec.attempts < MaxAttempts
    <3>1. CASE Retry(w)
      BY <1>r, <2>1, <3>1
    <3>2. ASSUME NEW next \in {"mark", "failing"},
            worker' = [worker EXCEPT ![w] =
              [@ EXCEPT !.pc = next, !.base = NoValue, !.proposed = NoValue]]
          PROVE  \E rec \in WorkerRecords :
               /\ worker' = [worker EXCEPT ![w] = rec]
               /\ rec.pc \in {"fetch", "failing", "mark"} /\ rec.event = worker[w].event
               /\ rec.pc = "fetch" => rec.attempts < MaxAttempts
      <4> DEFINE rec == [[[worker[w] EXCEPT !.pc = next] EXCEPT !.base = NoValue] EXCEPT !.proposed = NoValue]
      <4>1. rec \in WorkerRecords /\ rec.pc = next /\ rec.event = worker[w].event
        BY <2>1 DEF WorkerRecords
      <4>2. worker' = [worker EXCEPT ![w] = rec]
        BY <3>2, <1>t
      <4> HIDE DEF rec
      <4> QED BY <4>1, <4>2
    <3> QED BY <1>8, <3>1, <3>2 DEF WriteReconciled
  <2>6. PICK rec \in WorkerRecords :
               /\ worker' = [worker EXCEPT ![w] = rec]
               /\ rec.pc \in {"fetch", "failing", "mark"} /\ rec.event = worker[w].event
               /\ rec.pc = "fetch" => rec.attempts < MaxAttempts
    BY <2>5
  <2>7. worker' \in [Workers -> WorkerRecords] /\ worker'[w] = rec
        /\ \A x \in Workers : x # w => worker'[x] = worker[x]
    BY <1>t, <2>6
  <2>8. worker[w].event \in Events
    BY <2>1 DEF WorkerOK
  <2>9. WorkerOK(w)'
    <3>1. Reconciled(worker[w].event)'
      BY <2>3, <2>4, <2>6, <2>7 DEF Reconciled
    <3> QED
      BY <2>6, <2>7, <2>8, <3>1 DEF WorkerOK
  <2>10. \A x \in Workers : WorkerOK(x)'
    BY <2>3, <2>7, <2>9, WorkerKeptByApply
  <2>11. \A o \in Operators : OperatorOK(o)'
    BY <1>8, <2>3, OperatorKeptByApply DEF WriteReconciled
  <2>12. EntitlementTypeOK'
    BY <1>8, <1>t, <2>4, <2>7 DEF WriteReconciled, EntitlementTypeOK, WorkerRecords, HistoryRecords
  <2>13. AppliedIsReconciled'
    <3>1. DOMAIN history = 1 .. Len(history) /\ DOMAIN history' = 1 .. Len(history')
      BY <1>t, <2>4
    <3>2. inbox' = inbox
      BY <1>8 DEF WriteReconciled
    <3>3. \A e \in Events : inbox[e] = "applied" => Reconciled(e)
      BY <3>1 DEF EntitlementInv, AppliedIsReconciled, Reconciled
    <3>4. \A e \in Events : inbox[e] = "applied" => Reconciled(e)'
      BY <2>4, <3>3
    <3> QED BY <3>1, <3>2, <3>4 DEF AppliedIsReconciled, Reconciled
  <2> QED BY <2>4, <2>10, <2>11, <2>12, <2>13 DEF EntitlementInv
<1>9. ASSUME NEW w \in Workers, WriteConflicts(w)
      PROVE  EntitlementInv'
  <2>1. worker[w].event \in Events
    BY <1>9 DEF WriteConflicts, EntitlementInv, WorkerOK
  <2>2. PICK rec \in WorkerRecords :
               /\ worker' = [worker EXCEPT ![w] = rec]
               /\ rec.pc \in {"fetch", "failing"} /\ rec.event = worker[w].event
               /\ rec.pc = "fetch" => rec.attempts < MaxAttempts
    BY <1>9, <1>r DEF WriteConflicts
  <2>3. worker'[w] = rec
    BY <1>t, <2>2
  <2>4. WorkerOK(w)'
    BY <2>1, <2>2, <2>3 DEF WorkerOK
  <2> QED BY <1>9, <1>t, <1>w, <2>2, <2>4 DEF WriteConflicts
<1>10. ASSUME NEW w \in Workers, MarkApplied(w)
      PROVE  EntitlementInv'
  <2>1. worker[w] \in WorkerRecords /\ WorkerOK(w) /\ worker[w].pc \in {"mark", "confirm"}
    BY <1>10, <1>t DEF MarkApplied, EntitlementInv
  <2>2. worker[w].event \in Events /\ Reconciled(worker[w].event)
    BY <2>1 DEF WorkerOK
  <2>3. /\ inbox' \in [Events -> EventStates]
        /\ \A e \in Events : inbox'[e] = "applied" => inbox[e] = "applied" \/ Reconciled(e)
    BY <1>10, <1>t, <2>2 DEF MarkApplied, EventStates
  <2>4. CASE worker' = [worker EXCEPT ![w] = IdleWorker]
    BY <1>10, <1>e, <2>3, <2>4 DEF MarkApplied
  <2>5. CASE worker' = [worker EXCEPT ![w] = [worker[w] EXCEPT !.pc = "failing"]]
    <3> DEFINE rec == [worker[w] EXCEPT !.pc = "failing"]
    <3>1. rec \in WorkerRecords /\ rec.pc = "failing" /\ rec.event = worker[w].event
      BY <2>1 DEF WorkerRecords
    <3> HIDE DEF rec
    <3>2. worker' = [worker EXCEPT ![w] = rec]
      BY <2>5 DEF rec
    <3>3. worker'[w] = rec
      BY <1>t, <3>2
    <3>4. WorkerOK(w)'
      BY <2>2, <3>1, <3>3 DEF WorkerOK
    <3> QED BY <1>10, <1>w, <2>3, <3>1, <3>2, <3>4 DEF MarkApplied
  <2> QED BY <1>10, <1>t, <2>4, <2>5 DEF MarkApplied
<1>11. ASSUME NEW w \in Workers, MarkAppliedReplyLost(w)
      PROVE  EntitlementInv'
  <2>1. worker[w] \in WorkerRecords /\ WorkerOK(w) /\ worker[w].pc = "mark"
    BY <1>11, <1>t DEF MarkAppliedReplyLost, EntitlementInv
  <2>2. worker[w].event \in Events /\ Reconciled(worker[w].event)
    BY <2>1 DEF WorkerOK
  <2>3. /\ inbox' \in [Events -> EventStates]
        /\ \A e \in Events : inbox'[e] = "applied" => inbox[e] = "applied" \/ Reconciled(e)
    BY <1>11, <1>t, <2>2 DEF MarkAppliedReplyLost, EventStates
  <2> DEFINE rec == [worker[w] EXCEPT !.pc = "failing"]
  <2>4. rec \in WorkerRecords /\ rec.pc = "failing" /\ rec.event = worker[w].event
    BY <2>1 DEF WorkerRecords
  <2>5. worker' = [worker EXCEPT ![w] = rec]
    BY <1>11, <1>t DEF MarkAppliedReplyLost
  <2> HIDE DEF rec
  <2>6. worker'[w] = rec
    BY <1>t, <2>5
  <2>7. WorkerOK(w)'
    BY <2>2, <2>4, <2>6 DEF WorkerOK
  <2> QED BY <1>11, <1>w, <2>3, <2>4, <2>5, <2>7 DEF MarkAppliedReplyLost
<1>12. ASSUME NEW w \in Workers, MarkFailed(w) \/ Crash(w)
      PROVE  EntitlementInv'
  <2>1. /\ inbox' \in [Events -> EventStates]
        /\ \A e \in Events : inbox'[e] = "applied" => inbox[e] = "applied"
    BY <1>12, <1>t DEF MarkFailed, MarkFailedState, Crash, EventStates
  <2> QED BY <1>12, <1>e, <2>1 DEF MarkFailed, Crash
<1>13. ASSUME NEW o \in Operators, NEW action \in Actions, NEW ends \in AccessEnds,
              LoadOperation(o, action, ends)
      PROVE  EntitlementInv'
  <2> DEFINE c == OperatorCandidate(action, ends)
             p == ReconcileSellerEntitlement(entitlement, c, now)
  <2>1. c \in Candidates /\ c.reason # "fraud_quarantine"
    <3>1. action # "grant" => entitlement \in Entitlements
      BY <1>13, <1>t DEF LoadOperation
    <3> QED
      BY <1>t, <3>1 DEF OperatorCandidate, Candidates, Entitlements, EntitlementStatuses, Reasons, Sources
  <2>2. Succeeds(p, entitlement)
    <3>1. entitlement # NoValue => entitlement.reason # "fraud_quarantine"
      BY DEF EntitlementInv, ChainOK
    <3> HIDE DEF c
    <3> QED BY <1>t, <2>1, <3>1, ReconciledSucceeds
  <2>3. p \in Entitlements
    BY <2>2 DEF Succeeds
  <2> HIDE DEF c, p
  <2>4. operator' = [operator EXCEPT ![o] = [expectedVersion |-> StoredVersion, proposed |-> p]]
    BY <1>13 DEF LoadOperation, p, c
  <2>5. StoredVersion \in Nat
    BY <1>t, VersionType DEF VersionOf, StoredVersion
  <2>6. /\ operator' \in [Operators -> [expectedVersion : Nat, proposed : Entitlements \cup {NoValue}]]
        /\ operator'[o].expectedVersion = StoredVersion /\ operator'[o].proposed = p
        /\ \A x \in Operators : x # o => operator'[x] = operator[x]
    BY <1>t, <2>3, <2>4, <2>5
  <2>7. EntitlementTypeOK'
    BY <1>13, <1>t, <2>6 DEF LoadOperation, EntitlementTypeOK, WorkerRecords, HistoryRecords
  <2>8. OperatorOK(o)'
    <3>1. StoredVersion' = StoredVersion /\ entitlement' = entitlement
      BY <1>13 DEF LoadOperation, StoredVersion
    <3> QED
      BY <2>2, <2>3, <2>5, <2>6, <3>1 DEF OperatorOK
  <2> QED BY <1>13, <2>6, <2>7, <2>8, StepKept DEF LoadOperation
<1>14. ASSUME NEW o \in Operators, ApplyOperation(o)
      PROVE  EntitlementInv'
  <2>1. /\ operator' \in [Operators -> [expectedVersion : Nat, proposed : Entitlements \cup {NoValue}]]
        /\ operator'[o] = NoOperation
        /\ \A x \in Operators : x # o => operator'[x] = operator[x]
    BY <1>14, <1>t DEF ApplyOperation, NoOperation
  <2>2. OperatorOK(o)'
    BY <2>1 DEF OperatorOK
  <2>3. CASE UNCHANGED <<entitlement, history>>
    <3>1. EntitlementTypeOK'
      BY <1>14, <1>t, <2>1, <2>3 DEF ApplyOperation, EntitlementTypeOK, WorkerRecords, HistoryRecords
    <3> QED BY <1>14, <2>1, <2>2, <2>3, <3>1, StepKept DEF ApplyOperation
  <2>4. CASE StoredVersion = operator[o].expectedVersion /\ Apply(operator[o].proposed)
    <3>1. PICK p : p = operator[o].proposed
      OBVIOUS
    <3>2. Succeeds(p, entitlement) /\ Apply(p)
      BY <1>14, <2>4, <3>1 DEF ApplyOperation, OperatorOK, EntitlementInv
    <3>3. /\ ChainOK' /\ EpochsOK'
          /\ entitlement' \in Entitlements
          /\ history' \in Seq(HistoryRecords)
          /\ \A x : Reconciled(x) => Reconciled(x)'
      BY <3>2, AppliedOK
    <3>4. \A x \in Workers : WorkerOK(x)'
      BY <1>14, <3>2, WorkerKeptByApply DEF ApplyOperation
    <3>5. \A x \in Operators : OperatorOK(x)'
      BY <2>1, <2>2, <3>2, OperatorKeptByApply
    <3>6. EntitlementTypeOK'
      BY <1>14, <1>t, <2>1, <3>3 DEF ApplyOperation, EntitlementTypeOK, WorkerRecords, HistoryRecords
    <3>7. AppliedIsReconciled'
      <4>1. DOMAIN history = 1 .. Len(history) /\ DOMAIN history' = 1 .. Len(history')
        BY <1>t, <3>3
      <4>2. inbox' = inbox
        BY <1>14 DEF ApplyOperation
      <4>3. \A e \in Events : inbox[e] = "applied" => Reconciled(e)
        BY <4>1 DEF EntitlementInv, AppliedIsReconciled, Reconciled
      <4>4. \A e \in Events : inbox[e] = "applied" => Reconciled(e)'
        BY <3>3, <4>3
      <4> QED BY <4>1, <4>2, <4>4 DEF AppliedIsReconciled, Reconciled
    <3> QED BY <3>3, <3>4, <3>5, <3>6, <3>7 DEF EntitlementInv
  <2> QED BY <1>14, <2>3, <2>4 DEF ApplyOperation
<1>15. CASE UNCHANGED entitlementVars
  <2>1. EntitlementTypeOK'
    BY <1>15 DEF entitlementVars, EntitlementInv, EntitlementTypeOK
  <2> QED BY <1>15, <2>1, StepKept DEF entitlementVars
<1> QED
  BY <1>1, <1>2, <1>3, <1>4, <1>5, <1>6, <1>7, <1>8, <1>9, <1>10, <1>11, <1>12, <1>13, <1>14, <1>15
  DEF EntitlementNext

\* The epoch of the entitlement moves by one exactly when its status changes,
\* whatever order the worker and the operator command reconcile in and
\* however often an event is retried.
THEOREM EpochsCountChanges == EntitlementSpec => []EpochCountsChanges
<1>1. EntitlementInv => EpochCountsChanges
  BY DEF EntitlementInv, ChainOK, EpochCountsChanges
<1> QED
  BY <1>1, EntitlementInitOK, EntitlementNextOK, PTL DEF EntitlementSpec

\* An inbox event marked applied has been used in a stored revision: a crash or
\* a lost reply between the entitlement write and the mark never loses it.
THEOREM AppliedEventsAreReconciled == EntitlementSpec => []AppliedIsReconciled
<1>1. EntitlementInv => AppliedIsReconciled
  BY DEF EntitlementInv
<1> QED
  BY <1>1, EntitlementInitOK, EntitlementNextOK, PTL DEF EntitlementSpec
-----------------------------------------------------------------------------
\* The control points of a request on a key.
SessionPCs ==
    { "idle", "issue", "create", "replay", "predecessor", "rotate", "reload",
      "authenticate", "revoke", "entitlement", "consume", "markUsed",
      "checkKey", "checkEntitlement" }

\* The subscription was interrupted at or after this revision.
InterruptedSince(revision) == \E r \in revision .. Len(history) : history[r].status # "active"

\* The epoch was read from this revision, at which the seller was active.
IssuedAt(epoch, revision) ==
    /\ revision \in 1 .. Len(history)
    /\ history[revision].status = "active"
    /\ history[revision].epoch = epoch

\* A stored key was issued at a revision at which the seller was active.
KeyOK(k) ==
    keys[k] # NoKey =>
        /\ keys[k].version >= 1
        /\ IssuedAt(keys[k].epoch, keys[k].revision)

\* The key was rotated to this successor.
ReplacedBy(k, successor) ==
    keys[k] # NoKey /\ keys[k].revoked /\ keys[k].replacedBy = successor

\* What a request r holds.
RequestOK(r) ==
    /\ r.answer = "authorized" => ~r.withdrawn
    /\ r.pc # "idle" /\ r.op = "create" => r.pc \in {"issue", "create"} /\ ~r.withdrawn
    /\ r.pc # "idle" /\ r.op # "create" =>
         /\ r.key \in KeyIds /\ keys[r.key] # NoKey /\ r.pc # "create"
         /\ r.withdrawn => keys[r.key].revoked \/ InterruptedSince(keys[r.key].revision)
    /\ r.op = "rotate" => r.idem \in IdempotencyKeys
    /\ r.pc \in {"replay", "predecessor", "rotate", "reload"} => r.op = "rotate"
    /\ r.pc = "issue" => r.op \in {"create", "rotate"}
    /\ r.pc \in {"issue", "rotate"} /\ r.op = "rotate" =>
         /\ r.expected <= keys[r.key].version
         /\ r.expected = keys[r.key].version => ~keys[r.key].revoked
    /\ r.pc \in {"create", "rotate"} => IssuedAt(r.epoch, r.revision)
    /\ r.pc = "authenticate" /\ r.op = "revoke" => r.expected <= keys[r.key].version
    /\ r.pc = "revoke" => r.op = "revoke" /\ r.expected <= r.copy.version
    /\ r.pc \in {"entitlement", "consume", "markUsed"} => r.op # "revoke"
    /\ r.pc \in {"authenticate", "revoke", "entitlement", "consume", "markUsed", "checkKey",
                 "checkEntitlement"} => r.op \notin {"create", "rotate"}
    /\ r.pc \in {"revoke", "entitlement", "consume", "markUsed"} =>
         /\ ~r.copy.revoked
         /\ r.copy.version <= keys[r.key].version
         /\ r.copy.version = keys[r.key].version => r.copy = keys[r.key]
    /\ r.pc = "checkEntitlement" =>
         /\ keys[r.key].epoch = r.epoch
         /\ r.withdrawn => InterruptedSince(keys[r.key].revision)

\* The inductive invariant of ProjectKeys.
KeysInv ==
    /\ EntitlementInv
    /\ keys \in [KeyIds -> KeyRecords]
    /\ rotations \subseteq Rotations
    /\ told \subseteq [key : KeyIds, successor : KeyIds]
    /\ tokens \subseteq Tokens
    /\ session \in [Sessions -> SessionRecords]
    /\ \A k \in KeyIds : KeyOK(k)
    /\ \A r \in rotations \cup told : ReplacedBy(r.key, r.successor)
    /\ \A s \in Sessions : RequestOK(session[s])

\* The key that is not there, and the request that has not begun.
LEMMA IdleType ==
    /\ NoKey \in KeyRecords /\ NoKey.version = 0 /\ ~NoKey.revoked
    /\ IdleSession \in SessionRecords
    /\ IdleSession.pc = "idle" /\ IdleSession.op = "none" /\ IdleSession.answer = "none"
    /\ IdleSession.withdrawn = FALSE
BY DEF NoKey, KeyRecords, IdleSession, SessionRecords

\* A request that is not running holds nothing.
LEMMA IdleOK ==
    ASSUME NEW r, r.pc = "idle", r.op # "rotate", r.answer = "authorized" => ~r.withdrawn
    PROVE  RequestOK(r) /\ RequestOK(r)'
BY DEF RequestOK

\* There is no key and no request.
LEMMA KeysInitOK == AccessInit => KeysInv
<1> SUFFICES ASSUME AccessInit PROVE KeysInv
  OBVIOUS
<1>1. EntitlementInv
  BY EntitlementInitOK DEF AccessInit
<1>2. \A s \in Sessions : RequestOK(session[s])
  BY IdleType, IdleOK DEF AccessInit
<1> QED
  BY <1>1, <1>2, IdleType DEF AccessInit, KeysInv, KeyOK

\* What no step undoes in the history of the entitlement.
HistoryGrows ==
    /\ Len(history) \in Nat /\ Len(history') \in Nat
    /\ Len(history') >= Len(history)
    /\ \A r \in 1 .. Len(history) : history'[r] = history[r]

\* What no step undoes in a key: it stays, with its epoch, and once revoked it
\* stays revoked with the successor it has.
KeysAdvance ==
    \A k \in KeyIds : keys[k] # NoKey =>
        /\ keys'[k] # NoKey
        /\ keys'[k].epoch = keys[k].epoch /\ keys'[k].revision = keys[k].revision
        /\ keys'[k].version >= keys[k].version
        /\ keys'[k].version = keys[k].version => keys'[k] = keys[k]
        /\ keys[k].revoked => keys'[k].revoked /\ keys'[k].replacedBy = keys[k].replacedBy

\* A revision at which the seller was active stays one.
LEMMA IssuedKept ==
    ASSUME HistoryGrows, NEW epoch, NEW revision \in Nat, IssuedAt(epoch, revision)
    PROVE  IssuedAt(epoch, revision)'
BY DEF HistoryGrows, IssuedAt

\* An interruption of the subscription is never forgotten.
LEMMA InterruptedKept ==
    ASSUME HistoryGrows, NEW revision \in Nat, revision >= 1, InterruptedSince(revision)
    PROVE  InterruptedSince(revision)'
BY DEF HistoryGrows, InterruptedSince

\* A request in progress is not disturbed by what others do.
LEMMA RequestKept ==
    ASSUME keys \in [KeyIds -> KeyRecords], keys' \in [KeyIds -> KeyRecords],
           \A k \in KeyIds : KeyOK(k), HistoryGrows, KeysAdvance,
           NEW r \in SessionRecords, RequestOK(r)
    PROVE  RequestOK(r)'
<1>1. CASE r.pc = "idle" \/ r.op = "create"
  <2>1. r.revision \in Nat
    BY DEF SessionRecords
  <2>2. IssuedAt(r.epoch, r.revision) => IssuedAt(r.epoch, r.revision)'
    BY <2>1, IssuedKept
  <2> QED BY <1>1, <2>2 DEF RequestOK
<1>2. CASE r.pc # "idle" /\ r.op # "create"
  <2>1. PICK k \in KeyIds : k = r.key
    BY <1>2 DEF RequestOK
  <2>2. keys[k] # NoKey /\ r.pc # "create"
    BY <1>2, <2>1 DEF RequestOK
  <2>3. PICK a \in KeyRecords : a = keys[k]
    OBVIOUS
  <2>4. PICK b \in KeyRecords : b = keys'[k]
    OBVIOUS
  <2>5. /\ b # NoKey /\ b.epoch = a.epoch /\ b.revision = a.revision
        /\ b.version >= a.version /\ (b.version = a.version => b = a)
        /\ a.revoked => b.revoked /\ b.replacedBy = a.replacedBy
    BY <2>2, <2>3, <2>4 DEF KeysAdvance
  <2>6. a.version \in Nat /\ b.version \in Nat /\ a.revision \in Nat /\ a.revision >= 1
    BY <2>2, <2>3, <2>4 DEF KeyRecords, KeyOK, IssuedAt
  <2>7. r.revision \in Nat /\ r.expected \in Nat /\ r.copy \in KeyRecords /\ r.copy.version \in Nat
    BY DEF SessionRecords, KeyRecords
  <2>8. IssuedAt(r.epoch, r.revision) => IssuedAt(r.epoch, r.revision)'
    BY <2>7, IssuedKept
  <2>9. InterruptedSince(a.revision) => InterruptedSince(a.revision)'
    BY <2>6, InterruptedKept
  <2>10. r.withdrawn => b.revoked \/ InterruptedSince(b.revision)'
    BY <1>2, <2>1, <2>3, <2>5, <2>9 DEF RequestOK
  <2>11. r.pc = "checkEntitlement" /\ r.withdrawn => InterruptedSince(b.revision)'
    BY <1>2, <2>1, <2>3, <2>5, <2>9 DEF RequestOK
  <2>12. keys'[r.key] = b /\ keys[r.key] = a
    BY <2>1, <2>3, <2>4
  <2>13. /\ r.withdrawn => keys'[r.key].revoked \/ InterruptedSince(keys[r.key].revision)'
         /\ r.pc = "checkEntitlement" /\ r.withdrawn => InterruptedSince(keys[r.key].revision)'
    BY <2>10, <2>11, <2>12 DEF InterruptedSince
  <2> HIDE DEF InterruptedSince, IssuedAt
  <2>14. r.pc \in {"issue", "rotate"} /\ r.op = "rotate" =>
         /\ r.expected <= b.version
         /\ r.expected = b.version => ~b.revoked
    BY <1>2, <2>5, <2>6, <2>7, <2>12 DEF RequestOK
  <2>15. /\ r.pc = "authenticate" /\ r.op = "revoke" => r.expected <= b.version
         /\ r.pc \in {"revoke", "entitlement", "consume", "markUsed"} =>
              /\ r.copy.version <= b.version
              /\ r.copy.version = b.version => r.copy = b
    BY <1>2, <2>5, <2>6, <2>7, <2>12 DEF RequestOK
  <2>16. /\ r.pc \in {"create", "rotate"} => IssuedAt(r.epoch, r.revision)'
         /\ r.pc = "checkEntitlement" => b.epoch = r.epoch
    BY <1>2, <2>5, <2>8, <2>12 DEF RequestOK
  <2> QED
    BY <1>2, <2>1, <2>2, <2>5, <2>12, <2>13, <2>14, <2>15, <2>16 DEF RequestOK
<1> QED BY <1>1, <1>2

\* Every step of the entitlement only adds to its history.
LEMMA HistoryKept ==
    ASSUME EntitlementInv, [EntitlementNext]_entitlementVars
    PROVE  HistoryGrows
<1>1. history \in Seq(HistoryRecords) /\ Len(history) \in Nat
  BY DEF EntitlementInv, EntitlementTypeOK, HistoryRecords
<1>2. CASE UNCHANGED history
  BY <1>1, <1>2 DEF HistoryGrows
<1>3. ASSUME NEW e, Apply(e), EntitlementInv'
      PROVE  HistoryGrows
  <2>1. PICK record : history' = Append(history, record)
    BY <1>3 DEF Apply
  <2>2. history' \in Seq(HistoryRecords) 
    BY <1>3 DEF EntitlementInv, EntitlementTypeOK, HistoryRecords
  <2>3. /\ Len(history') = Len(history) + 1
        /\ \A r \in 1 .. Len(history) : history'[r] = history[r]
    BY <1>1, <2>1
  <2> QED BY <1>1, <2>3 DEF HistoryGrows
<1>4. EntitlementInv'
  BY EntitlementNextOK
<1> QED
  BY <1>2, <1>3, <1>4 DEF EntitlementNext, entitlementVars, Tick, SubscriptionChanges, Ingest,
     IngestConflicting, MarkProcessing, FetchState, FailReconcile, Compare, ReadCurrent, WriteReconciled,
     WriteConflicts, MarkApplied, MarkAppliedReplyLost, MarkFailed, Crash, LoadOperation, ApplyOperation

\* A step of one request leaves the others undisturbed.
LEMMA SessionsKept ==
    ASSUME KeysInv, keys' \in [KeyIds -> KeyRecords], HistoryGrows, KeysAdvance,
           NEW s \in Sessions, NEW rec \in SessionRecords,
           session' = [session EXCEPT ![s] = rec], RequestOK(rec)'
    PROVE  session' \in [Sessions -> SessionRecords] /\ \A x \in Sessions : RequestOK(session[x])'
<1>1. session' \in [Sessions -> SessionRecords]
  BY DEF KeysInv
<1>2. ASSUME NEW x \in Sessions PROVE RequestOK(session[x])'
  <2>1. CASE x = s
    <3>1. session'[x] = rec
      BY <2>1 DEF KeysInv
    <3> QED BY <3>1 DEF RequestOK, IssuedAt, InterruptedSince
  <2>2. CASE x # s
    <3>1. PICK r \in SessionRecords : r = session[x]
      BY DEF KeysInv
    <3>2. session'[x] = r
      BY <2>2, <3>1 DEF KeysInv
    <3>3. RequestOK(r)'
      BY <3>1, RequestKept DEF KeysInv
    <3> QED BY <3>2, <3>3 DEF RequestOK, IssuedAt, InterruptedSince
  <2> QED BY <2>1, <2>2
<1> QED BY <1>1, <1>2

\* A step of one request that changes no key.
LEMMA LocalStep ==
    ASSUME KeysInv, UNCHANGED <<entitlementVars, keys, rotations>>,
           told' \subseteq [key : KeyIds, successor : KeyIds], tokens' \subseteq Tokens,
           \A t \in told' : t \in told \/ ReplacedBy(t.key, t.successor),
           NEW s \in Sessions, NEW rec \in SessionRecords,
           session' = [session EXCEPT ![s] = rec], RequestOK(rec)
    PROVE  KeysInv'
<1>1. history' = history /\ EntitlementInv'
  BY EntitlementNextOK DEF KeysInv, entitlementVars
<1>2. HistoryGrows
  BY <1>1 DEF HistoryGrows, KeysInv, EntitlementInv, EntitlementTypeOK
<1>3. KeysAdvance
  BY DEF KeysAdvance, KeysInv, KeyRecords
<1>4. RequestOK(rec)'
  BY <1>1 DEF RequestOK, IssuedAt, InterruptedSince
<1>5. session' \in [Sessions -> SessionRecords] /\ \A x \in Sessions : RequestOK(session[x])'
  BY <1>2, <1>3, <1>4, SessionsKept DEF KeysInv
<1>6. \A k \in KeyIds : KeyOK(k)'
  BY <1>1 DEF KeysInv, KeyOK, IssuedAt
<1>7. \A r \in rotations' \cup told' : ReplacedBy(r.key, r.successor)'
  BY DEF KeysInv, ReplacedBy
<1> QED BY <1>1, <1>5, <1>6, <1>7 DEF KeysInv

\* A request that moves on keeps what it holds.
LEMMA GotoType ==
    ASSUME NEW r \in SessionRecords, NEW pc \in SessionPCs
    PROVE  /\ [r EXCEPT !.pc = pc] \in SessionRecords
           /\ [r EXCEPT !.pc = pc].pc = pc
           /\ [r EXCEPT !.pc = pc].op = r.op /\ [r EXCEPT !.pc = pc].key = r.key
           /\ [r EXCEPT !.pc = pc].idem = r.idem /\ [r EXCEPT !.pc = pc].expected = r.expected
           /\ [r EXCEPT !.pc = pc].copy = r.copy /\ [r EXCEPT !.pc = pc].epoch = r.epoch
           /\ [r EXCEPT !.pc = pc].revision = r.revision
           /\ [r EXCEPT !.pc = pc].withdrawn = r.withdrawn
           /\ [r EXCEPT !.pc = pc].answer = r.answer
BY DEF SessionRecords, SessionPCs

\* A request that ends without an answer the properties are about.
LEMMA EndOK ==
    ASSUME KeysInv, UNCHANGED <<entitlementVars, keys, rotations>>,
           told' \subseteq [key : KeyIds, successor : KeyIds], tokens' \subseteq Tokens,
           \A t \in told' : t \in told \/ ReplacedBy(t.key, t.successor),
           NEW s \in Sessions, End(s)
    PROVE  KeysInv'
<1>1. IdleSession \in SessionRecords /\ RequestOK(IdleSession)
  BY IdleType, IdleOK
<1> QED BY <1>1, LocalStep DEF End

\* A request that goes on, with what it holds.
LEMMA GotoOK ==
    ASSUME KeysInv, UNCHANGED <<entitlementVars, keys, rotations, told, tokens>>,
           NEW s \in Sessions, NEW pc \in SessionPCs, GoesOn(s, pc),
           NEW rec, rec = [session[s] EXCEPT !.pc = pc],
           rec \in SessionRecords => RequestOK(rec)
    PROVE  KeysInv'
<1>1. session[s] \in SessionRecords
  BY DEF KeysInv
<1>2. rec \in SessionRecords
  BY <1>1, GotoType
<1>3. session' = [session EXCEPT ![s] = rec]
  BY DEF GoesOn, KeysInv
<1>4. told' \subseteq [key : KeyIds, successor : KeyIds] /\ tokens' \subseteq Tokens
  BY DEF KeysInv
<1> QED BY <1>2, <1>3, <1>4, LocalStep

\* A step of one request that changes keys.
LEMMA KeyStep ==
    ASSUME KeysInv, UNCHANGED entitlementVars, UNCHANGED tokens,
           keys' \in [KeyIds -> KeyRecords], KeysAdvance, \A k \in KeyIds : KeyOK(k)',
           rotations' \subseteq Rotations, told' \subseteq [key : KeyIds, successor : KeyIds],
           \A r \in rotations' \cup told' :
               r \in rotations \cup told \/ ReplacedBy(r.key, r.successor)',
           NEW s \in Sessions, NEW rec \in SessionRecords,
           session' = [session EXCEPT ![s] = rec], RequestOK(rec)'
    PROVE  KeysInv'
<1>1. history' = history /\ EntitlementInv'
  BY EntitlementNextOK DEF KeysInv, entitlementVars
<1>2. HistoryGrows
  BY <1>1 DEF HistoryGrows, KeysInv, EntitlementInv, EntitlementTypeOK
<1>3. session' \in [Sessions -> SessionRecords] /\ \A x \in Sessions : RequestOK(session[x])'
  BY <1>2, SessionsKept
<1>4. ASSUME NEW r \in rotations' \cup told' PROVE ReplacedBy(r.key, r.successor)'
  <2>1. CASE r \in rotations \cup told
    <3>1. r.key \in KeyIds /\ ReplacedBy(r.key, r.successor)
      BY <2>1 DEF KeysInv, Rotations
    <3> QED BY <3>1 DEF ReplacedBy, KeysAdvance
  <2> QED BY <2>1
<1> QED BY <1>1, <1>3, <1>4 DEF KeysInv

\* Every step of a request on a key, and of the entitlement, keeps the invariant.
LEMMA KeysNextOK == KeysInv /\ [AccessNext]_accessVars => KeysInv'
<1> SUFFICES ASSUME KeysInv, [AccessNext]_accessVars
             PROVE  KeysInv'
    OBVIOUS
<1>t. /\ keys \in [KeyIds -> KeyRecords] /\ rotations \subseteq Rotations
      /\ told \subseteq [key : KeyIds, successor : KeyIds] /\ tokens \subseteq Tokens
      /\ session \in [Sessions -> SessionRecords]
  BY DEF KeysInv
<1>n. ASSUME NEW s \in Sessions, NEW successor \in KeyIds, NameSuccessor(s, successor),
             session[s].key \in KeyIds, ReplacedBy(session[s].key, successor),
             UNCHANGED <<entitlementVars, keys, rotations, tokens>>
      PROVE  KeysInv'
  <2>1. \A t \in told' : t \in told \/ ReplacedBy(t.key, t.successor)
    BY <1>n DEF NameSuccessor
  <2>2. told' \subseteq [key : KeyIds, successor : KeyIds]
    BY <1>n, <1>t DEF NameSuccessor
  <2> QED BY <1>n, <1>t, <2>1, <2>2, EndOK DEF NameSuccessor
<1>1. ASSUME NEW s \in Sessions, BeginCreate(s)
      PROVE  KeysInv'
  <2>1. PICK rec : rec = [IdleSession EXCEPT !.pc = "issue", !.op = "create"]
    OBVIOUS
  <2>2. rec \in SessionRecords /\ rec.pc = "issue" /\ rec.op = "create" /\ rec.answer = "none"
        /\ rec.withdrawn = FALSE
    BY <2>1, IdleType DEF SessionRecords
  <2>3. RequestOK(rec)
    BY <2>2 DEF RequestOK
  <2> QED BY <1>1, <1>t, <2>1, <2>2, <2>3, LocalStep DEF BeginCreate
<1>2. ASSUME NEW s \in Sessions, NEW k \in KeyIds, NEW epoch \in Nat, NEW op, NEW pc,
             \/ op = "exchange" /\ pc = "authenticate"
             \/ op = "use" /\ pc = "checkKey",
             Present(s, op, pc, k, epoch)
      PROVE  KeysInv'
  <2>1. PICK b \in BOOLEAN : b = Withdrawn(k)
    BY <1>t DEF Withdrawn, KeyRecords
  <2>2. PICK rec : rec = [[[[[IdleSession EXCEPT !.pc = pc] EXCEPT !.op = op] EXCEPT !.key = k]
                            EXCEPT !.epoch = epoch] EXCEPT !.withdrawn = b]
    OBVIOUS
  <2>3. rec \in SessionRecords /\ rec.pc = pc /\ rec.op = op /\ rec.answer = "none"
        /\ rec.withdrawn = b /\ rec.key = k
    BY <1>2, <2>2, IdleType DEF SessionRecords
  <2>4. session' = [session EXCEPT ![s] = rec]
    BY <1>2, <2>1, <2>2, IdleType DEF Present, SessionRecords
  <2>5. RequestOK(rec)
    BY <1>2, <2>1, <2>3 DEF RequestOK, Present, Withdrawn, InterruptedSince
  <2> QED BY <1>2, <1>t, <2>3, <2>4, <2>5, LocalStep DEF Present
<1>3. ASSUME NEW s \in Sessions, NEW k \in KeyIds, NEW op, NEW pc, NEW idem,
             \/ op = "revoke" /\ pc = "authenticate" /\ idem = NoValue
             \/ op = "rotate" /\ pc = "replay" /\ idem \in IdempotencyKeys,
             Change(s, op, pc, k, idem)
      PROVE  KeysInv'
  <2>1. PICK v \in Nat : v = keys[k].version
    BY <1>t DEF KeyRecords
  <2>2. PICK rec : rec = [[[[[IdleSession EXCEPT !.pc = pc] EXCEPT !.op = op] EXCEPT !.key = k]
                            EXCEPT !.idem = idem] EXCEPT !.expected = v]
    OBVIOUS
  <2>3. rec \in SessionRecords /\ rec.pc = pc /\ rec.op = op /\ rec.answer = "none"
        /\ rec.withdrawn = FALSE /\ rec.key = k /\ rec.idem = idem /\ rec.expected = v
    BY <1>3, <2>2, IdleType DEF SessionRecords
  <2>4. session' = [session EXCEPT ![s] = rec]
    BY <1>3, <2>1, <2>2, IdleType DEF Change, SessionRecords
  <2>5. RequestOK(rec)
    BY <1>3, <2>1, <2>3 DEF RequestOK, Change
  <2> QED BY <1>3, <1>t, <2>3, <2>4, <2>5, LocalStep DEF Change
<1>4. ASSUME NEW s \in Sessions, Abandon(s)
      PROVE  KeysInv'
  BY <1>4, <1>t, EndOK DEF Abandon
<1>5. ASSUME NEW s \in Sessions, ReadIssuanceEpoch(s)
      PROVE  KeysInv'
  <2>1. CASE End(s)
    BY <1>5, <1>t, <2>1, EndOK DEF ReadIssuanceEpoch
  <2>2. CASE AllowsAccess(entitlement, now) /\ ~End(s)
    <3>1. PICK r \in SessionRecords : r = session[s] /\ RequestOK(r) /\ r.pc = "issue"
      BY <1>5, <1>t DEF ReadIssuanceEpoch, KeysInv
    <3>2. entitlement \in Entitlements
      BY <2>2 DEF AllowsAccess, KeysInv, EntitlementInv, EntitlementTypeOK
    <3>3. PICK epoch \in Nat : epoch = entitlement.epoch
      BY <3>2 DEF Entitlements
    <3>4. PICK version \in Nat : version = entitlement.version
      BY <3>2 DEF Entitlements
    <3>5. IssuedAt(epoch, version)
      BY <2>2, <3>3, <3>4 DEF IssuedAt, AllowsAccess, KeysInv, EntitlementInv, ChainOK
    <3>6. PICK pc \in {"create", "rotate"} : pc = IF r.op = "create" THEN "create" ELSE "rotate"
      OBVIOUS
    <3>7. PICK rec : rec = [[[r EXCEPT !.pc = pc] EXCEPT !.epoch = epoch] EXCEPT !.revision = version]
      OBVIOUS
    <3>8. /\ rec \in SessionRecords /\ rec.pc = pc /\ rec.epoch = epoch /\ rec.revision = version
          /\ rec.op = r.op /\ rec.key = r.key /\ rec.idem = r.idem /\ rec.expected = r.expected
          /\ rec.copy = r.copy /\ rec.withdrawn = r.withdrawn /\ rec.answer = r.answer
      BY <3>6, <3>7 DEF SessionRecords
    <3>9. session' = [session EXCEPT ![s] = rec]
      BY <1>5, <1>t, <2>2, <3>1, <3>3, <3>4, <3>6, <3>7 DEF ReadIssuanceEpoch
    <3>10. RequestOK(rec)
      BY <3>1, <3>5, <3>6, <3>8 DEF RequestOK
    <3> QED BY <1>5, <1>t, <3>8, <3>9, <3>10, LocalStep DEF ReadIssuanceEpoch
  <2> QED BY <1>5, <2>1, <2>2 DEF ReadIssuanceEpoch
<1>6. ASSUME NEW s \in Sessions, NEW k \in KeyIds, CreateKey(s, k)
      PROVE  KeysInv'
  <2>1. PICK r \in SessionRecords : r = session[s] /\ RequestOK(r) /\ r.pc = "create"
    BY <1>6, <1>t DEF CreateKey, KeysInv
  <2>2. PICK key : key = Issued(s)
    OBVIOUS
  <2>3. key \in KeyRecords /\ key.version = 1 /\ key.epoch = r.epoch /\ key.revision = r.revision
    BY <2>1, <2>2 DEF Issued, KeyRecords, SessionRecords
  <2>4. /\ keys' \in [KeyIds -> KeyRecords] /\ keys'[k] = key
        /\ \A x \in KeyIds : x # k => keys'[x] = keys[x]
        /\ keys[k] = NoKey
    BY <1>6, <1>t, <2>2, <2>3 DEF CreateKey
  <2>5. KeysAdvance
    BY <1>t, <2>4 DEF KeysAdvance, KeyRecords
  <2>6. history' = history
    BY <1>6 DEF CreateKey, entitlementVars
  <2>7. IssuedAt(r.epoch, r.revision)
    BY <2>1 DEF RequestOK
  <2>8. \A x \in KeyIds : KeyOK(x)'
    BY <2>3, <2>4, <2>6, <2>7 DEF KeyOK, IssuedAt, KeysInv
  <2>9. IdleSession \in SessionRecords /\ RequestOK(IdleSession)'
    BY IdleType, IdleOK
  <2> QED
    BY <1>6, <1>t, <2>4, <2>5, <2>8, <2>9, KeyStep DEF CreateKey, End
<1>7. ASSUME NEW s \in Sessions, LoadRotationReplay(s) \/ ReloadRotation(s)
      PROVE  KeysInv'
  <2>1. PICK r \in SessionRecords : r = session[s] /\ RequestOK(r) /\ r.pc \in {"replay", "reload"}
    BY <1>7, <1>t DEF LoadRotationReplay, ReloadRotation, KeysInv
  <2>2. r.key \in KeyIds /\ r.op = "rotate"
    BY <2>1 DEF RequestOK
  <2>3. ASSUME NEW q \in FindRotation(s), NameSuccessor(s, q.successor)
        PROVE  KeysInv'
    <3>1. q \in rotations /\ q.key = session[s].key /\ q.successor \in KeyIds
      BY <1>t DEF FindRotation, Rotations
    <3>2. ReplacedBy(session[s].key, q.successor)
      BY <3>1 DEF KeysInv
    <3> QED
      BY <1>7, <1>n, <2>1, <2>2, <2>3, <3>1, <3>2 DEF LoadRotationReplay, ReloadRotation
  <2>4. CASE End(s) /\ UNCHANGED told
    BY <1>7, <1>t, <2>4, EndOK DEF LoadRotationReplay, ReloadRotation
  <2>5. CASE GoesOn(s, "predecessor") /\ UNCHANGED told /\ r.pc = "replay"
    <3>1. PICK rec : rec = [r EXCEPT !.pc = "predecessor"]
      OBVIOUS
    <3>2. "predecessor" \in SessionPCs
      BY DEF SessionPCs
    <3>3. RequestOK(rec)
      BY <2>1, <2>5, <3>1, <3>2, GotoType DEF RequestOK
    <3> QED BY <1>7, <2>1, <2>5, <3>1, <3>2, <3>3, GotoOK DEF LoadRotationReplay, ReloadRotation
  <2> QED BY <1>7, <2>1, <2>3, <2>4, <2>5 DEF LoadRotationReplay, ReloadRotation
<1>8. ASSUME NEW s \in Sessions, ReadPredecessor(s)
      PROVE  KeysInv'
  <2>1. PICK r \in SessionRecords : r = session[s] /\ RequestOK(r) /\ r.pc = "predecessor"
    BY <1>8, <1>t DEF ReadPredecessor, KeysInv
  <2>2. r.key \in KeyIds /\ r.op = "rotate" /\ keys[r.key] # NoKey
    BY <2>1 DEF RequestOK
  <2>3. CASE GoesOn(s, "issue") /\ UNCHANGED told
             /\ keys[r.key].version = r.expected /\ ~keys[r.key].revoked
    <3>1. PICK rec : rec = [r EXCEPT !.pc = "issue"]
      OBVIOUS
    <3>2. "issue" \in SessionPCs
      BY DEF SessionPCs
    <3>3. r.expected \in Nat
      BY DEF SessionRecords
    <3>4. RequestOK(rec)
      BY <2>1, <2>2, <2>3, <3>1, <3>2, <3>3, GotoType DEF RequestOK
    <3> QED BY <1>8, <2>1, <2>3, <3>1, <3>2, <3>4, GotoOK DEF ReadPredecessor
  <2>4. CASE /\ keys[r.key].revoked /\ HasSuccessor(keys[r.key])
             /\ NameSuccessor(s, keys[r.key].replacedBy)
    <3>1. PICK successor \in KeyIds : successor = keys[r.key].replacedBy
      BY <1>t, <2>2, <2>4 DEF HasSuccessor, KeyRecords
    <3> QED
      BY <1>8, <1>n, <2>1, <2>2, <2>4, <3>1 DEF ReadPredecessor, ReplacedBy
  <2>5. CASE End(s) /\ UNCHANGED told
    BY <1>8, <1>t, <2>5, EndOK DEF ReadPredecessor
  <2> QED BY <1>8, <2>1, <2>3, <2>4, <2>5 DEF ReadPredecessor
<1>9. ASSUME NEW s \in Sessions, NEW successor \in KeyIds, RotateKey(s, successor)
      PROVE  KeysInv'
  <2>1. PICK r \in SessionRecords : r = session[s] /\ RequestOK(r) /\ r.pc = "rotate"
    BY <1>9, <1>t DEF RotateKey, KeysInv
  <2>2. /\ r.key \in KeyIds /\ r.op = "rotate" /\ keys[r.key] # NoKey /\ r.idem \in IdempotencyKeys
        /\ r.expected \in Nat /\ IssuedAt(r.epoch, r.revision)
    BY <2>1 DEF RequestOK, SessionRecords
  <2>3. PICK old \in KeyIds : old = r.key
    BY <2>2
  <2>4. /\ keys[old].version = r.expected /\ ~keys[old].revoked
        /\ keys[successor] = NoKey /\ successor # old
    BY <1>9, <2>1, <2>2, <2>3 DEF RotateKey, RotationConditions, RequestOK
  <2>5. PICK fresh : fresh = Issued(s)
    OBVIOUS
  <2>6. fresh \in KeyRecords /\ fresh.version = 1 /\ fresh.epoch = r.epoch /\ fresh.revision = r.revision
    BY <2>1, <2>5 DEF Issued, KeyRecords, SessionRecords
  <2>7. PICK a \in KeyRecords : a = keys[old]
    BY <1>t
  <2>8. PICK v \in Nat : v = r.expected + 1
    BY <2>2
  <2>9. PICK b : b = [[[a EXCEPT !.revoked = TRUE] EXCEPT !.replacedBy = successor] EXCEPT !.version = v]
    OBVIOUS
  <2>10. /\ b \in KeyRecords /\ b.revoked /\ b.replacedBy = successor /\ b.version = v
         /\ b.epoch = a.epoch /\ b.revision = a.revision
    BY <2>9 DEF KeyRecords
  <2>11. keys' = [[keys EXCEPT ![old] = b] EXCEPT ![successor] = fresh]
    BY <1>9, <1>t, <2>1, <2>3, <2>5, <2>7, <2>8, <2>9 DEF RotateKey
  <2>12. /\ keys' \in [KeyIds -> KeyRecords] /\ keys'[old] = b /\ keys'[successor] = fresh
         /\ \A x \in KeyIds : x # old /\ x # successor => keys'[x] = keys[x]
    BY <1>t, <2>4, <2>6, <2>10, <2>11
  <2>13. a.version = r.expected /\ v > a.version /\ v >= 1 /\ ~a.revoked /\ a # NoKey
    BY <2>2, <2>3, <2>4, <2>7, <2>8 
  <2>14. b # NoKey /\ v # 0
    BY <2>10, <2>13, IdleType
  <2>15. KeysAdvance
    <3> SUFFICES ASSUME NEW x \in KeyIds, keys[x] # NoKey
                 PROVE /\ keys'[x] # NoKey
                       /\ keys'[x].epoch = keys[x].epoch /\ keys'[x].revision = keys[x].revision
                       /\ keys'[x].version >= keys[x].version
                       /\ keys'[x].version = keys[x].version => keys'[x] = keys[x]
                       /\ keys[x].revoked => keys'[x].revoked /\ keys'[x].replacedBy = keys[x].replacedBy
      BY DEF KeysAdvance
    <3>1. CASE x = old
      <4>1. keys[x] = a /\ keys'[x] = b
        BY <2>7, <2>12, <3>1
      <4>2. v \in Nat /\ a.version \in Nat
        BY <2>2, <2>13
      <4> QED BY <2>10, <2>13, <2>14, <4>1, <4>2
    <3>2. CASE x # old
      <4>1. keys'[x] = keys[x] /\ keys[x].version \in Nat
        BY <1>t, <2>4, <2>12, <3>2 DEF KeyRecords
      <4> QED BY <4>1
    <3> QED BY <3>1, <3>2
  <2>16. history' = history
    BY <1>9 DEF RotateKey, entitlementVars
  <2>17. \A x \in KeyIds : KeyOK(x)'
    <3>1. KeyOK(successor)'
      BY <2>2, <2>6, <2>12, <2>16 DEF KeyOK, IssuedAt
    <3>2. KeyOK(old)'
      BY <2>7, <2>10, <2>12, <2>13, <2>16 DEF KeyOK, IssuedAt, KeysInv
    <3>3. \A x \in KeyIds : x # old /\ x # successor => KeyOK(x)'
      BY <2>12, <2>16 DEF KeyOK, IssuedAt, KeysInv
    <3> QED BY <3>1, <3>2, <3>3
  <2>18. ReplacedBy(old, successor)'
    BY <2>10, <2>12, <2>14 DEF ReplacedBy
  <2>19. PICK record : record = [key |-> old, idem |-> r.idem, successor |-> successor]
    OBVIOUS
  <2>20. /\ rotations' = rotations \cup {record} /\ record \in Rotations
         /\ record.key = old /\ record.successor = successor
    BY <1>9, <2>1, <2>2, <2>3, <2>19 DEF RotateKey, Rotations
  <2>21. CASE NameSuccessor(s, successor)
    <3>1. PICK t : t = [key |-> old, successor |-> successor]
      OBVIOUS
    <3>2. told' = told \cup {t} /\ t \in [key : KeyIds, successor : KeyIds] /\ t.key = old /\ t.successor = successor
      BY <2>1, <2>3, <2>21, <3>1 DEF NameSuccessor
    <3>3. \A q \in rotations' \cup told' :
            q \in rotations \cup told \/ ReplacedBy(q.key, q.successor)'
      BY <2>18, <2>20, <3>2
    <3>4. IdleSession \in SessionRecords /\ RequestOK(IdleSession)'
      BY IdleType, IdleOK
    <3>5. told' \subseteq [key : KeyIds, successor : KeyIds] /\ rotations' \subseteq Rotations
      BY <1>t, <2>20, <3>2
    <3> QED
      BY <1>9, <2>12, <2>15, <2>17, <2>21, <3>3, <3>4, <3>5, KeyStep DEF RotateKey, NameSuccessor, End
  <2>22. CASE UNCHANGED told /\ GoesOn(s, "reload")
    <3>1. PICK rec : rec = [r EXCEPT !.pc = "reload"]
      OBVIOUS
    <3>2. "reload" \in SessionPCs
      BY DEF SessionPCs
    <3>3. rec \in SessionRecords /\ session' = [session EXCEPT ![s] = rec]
      BY <1>t, <2>1, <2>22, <3>1, <3>2, GotoType DEF GoesOn
    <3>4. RequestOK(r)'
      <4>1. HistoryGrows
        BY <2>16 DEF HistoryGrows, KeysInv, EntitlementInv, EntitlementTypeOK
      <4> QED BY <2>1, <2>12, <2>15, <4>1, RequestKept DEF KeysInv
    <3>5. RequestOK(rec)'
      BY <2>1, <3>1, <3>2, <3>4, GotoType DEF RequestOK
    <3>6. \A q \in rotations' \cup told' :
            q \in rotations \cup told \/ ReplacedBy(q.key, q.successor)'
      BY <2>18, <2>20, <2>22
    <3>7. told' \subseteq [key : KeyIds, successor : KeyIds] /\ rotations' \subseteq Rotations
      BY <1>t, <2>20, <2>22
    <3> QED
      BY <1>9, <2>12, <2>15, <2>17, <3>3, <3>5, <3>6, <3>7, KeyStep DEF RotateKey
  <2> QED BY <1>9, <2>21, <2>22 DEF RotateKey
<1>10. ASSUME NEW s \in Sessions, RotationConflicts(s)
      PROVE  KeysInv'
  <2>1. PICK r \in SessionRecords : r = session[s] /\ RequestOK(r) /\ r.pc = "rotate"
    BY <1>10, <1>t DEF RotationConflicts, KeysInv
  <2>2. PICK rec : rec = [r EXCEPT !.pc = "reload"]
    OBVIOUS
  <2>3. "reload" \in SessionPCs
    BY DEF SessionPCs
  <2>4. RequestOK(rec)
    BY <2>1, <2>2, <2>3, GotoType DEF RequestOK
  <2> QED BY <1>10, <2>1, <2>2, <2>3, <2>4, GotoOK DEF RotationConflicts
<1>11. ASSUME NEW s \in Sessions, ReadKey(s)
      PROVE  KeysInv'
  <2>1. PICK r \in SessionRecords : r = session[s] /\ RequestOK(r) /\ r.pc = "authenticate"
    BY <1>11, <1>t DEF ReadKey, KeysInv
  <2>2. r.key \in KeyIds /\ r.op \notin {"create", "rotate"} /\ keys[r.key] # NoKey
    BY <2>1 DEF RequestOK
  <2>3. PICK k \in KeyRecords : k = keys[r.key]
    BY <1>t, <2>2
  <2>4. CASE End(s)
    BY <1>11, <1>t, <2>4, EndOK DEF ReadKey
  <2>5. CASE ~k.revoked /\ ~End(s)
    <3>1. PICK pc \in {"revoke", "entitlement"} : pc = IF r.op = "revoke" THEN "revoke" ELSE "entitlement"
      OBVIOUS
    <3>2. PICK rec : rec = [[r EXCEPT !.pc = pc] EXCEPT !.copy = k]
      OBVIOUS
    <3>3. /\ rec \in SessionRecords /\ rec.pc = pc /\ rec.copy = k
          /\ rec.op = r.op /\ rec.key = r.key /\ rec.idem = r.idem /\ rec.expected = r.expected
          /\ rec.epoch = r.epoch /\ rec.revision = r.revision
          /\ rec.withdrawn = r.withdrawn /\ rec.answer = r.answer
      BY <3>1, <3>2 DEF SessionRecords
    <3>4. session' = [session EXCEPT ![s] = rec]
      BY <1>11, <1>t, <2>1, <2>3, <2>5, <3>1, <3>2 DEF ReadKey
    <3>5. k.version \in Nat
      BY DEF KeyRecords
    <3>6. RequestOK(rec)
      BY <2>1, <2>2, <2>3, <2>5, <3>1, <3>3, <3>5 DEF RequestOK
    <3> QED BY <1>11, <1>t, <3>3, <3>4, <3>6, LocalStep DEF ReadKey
  <2> QED BY <1>11, <2>1, <2>3, <2>4, <2>5 DEF ReadKey
\* A write of the copy, on the version it was read at.
<1>c. ASSUME NEW r \in SessionRecords, RequestOK(r), r.pc \in {"revoke", "markUsed"},
             keys[r.key].version = (IF r.op = "revoke" THEN r.expected ELSE r.copy.version),
             NEW b \in KeyRecords, b.version = r.copy.version + 1,
             b.epoch = r.copy.epoch, b.revision = r.copy.revision,
             keys' = [keys EXCEPT ![r.key] = b], UNCHANGED entitlementVars
      PROVE  /\ r.key \in KeyIds /\ keys' \in [KeyIds -> KeyRecords] /\ keys'[r.key] = b
             /\ KeysAdvance /\ \A k \in KeyIds : KeyOK(k)'
             /\ HistoryGrows
  <2>1. r.key \in KeyIds /\ keys[r.key] # NoKey /\ r.op \notin {"create", "rotate"}
    BY <1>c DEF RequestOK
  <2>2. r.copy.version \in Nat /\ r.expected \in Nat /\ keys[r.key].version \in Nat
    BY <1>t, <2>1 DEF SessionRecords, KeyRecords
  <2>3. keys[r.key] = r.copy /\ ~r.copy.revoked
    BY <1>c, <2>2 DEF RequestOK
  <2>4. /\ keys' \in [KeyIds -> KeyRecords] /\ keys'[r.key] = b
        /\ \A x \in KeyIds : x # r.key => keys'[x] = keys[x] /\ keys[x].version \in Nat
    BY <1>c, <1>t, <2>1 DEF KeyRecords
  <2>5. b # NoKey /\ b.version >= 1 /\ b.version \in Nat
    BY <1>c, <2>2, IdleType
  <2>6. history' = history
    BY <1>c DEF entitlementVars
  <2>7. KeysAdvance
    BY <1>c, <2>2, <2>3, <2>4, <2>5 DEF KeysAdvance
  <2>8. \A k \in KeyIds : KeyOK(k)'
    BY <1>c, <2>1, <2>3, <2>4, <2>5, <2>6 DEF KeyOK, IssuedAt, KeysInv
  <2>9. HistoryGrows
    BY <2>6 DEF HistoryGrows, KeysInv, EntitlementInv, EntitlementTypeOK
  <2> QED BY <2>1, <2>4, <2>7, <2>8, <2>9
<1>12. ASSUME NEW s \in Sessions, RevokeKey(s)
      PROVE  KeysInv'
  <2>1. PICK r \in SessionRecords : r = session[s] /\ RequestOK(r) /\ r.pc = "revoke"
    BY <1>12, <1>t DEF RevokeKey, KeysInv
  <2>2. CASE UNCHANGED keys
    BY <1>12, <1>t, <2>2, EndOK DEF RevokeKey
  <2>3. CASE keys' # keys
    <3>1. PICK a \in KeyRecords : a = r.copy
      BY DEF SessionRecords
    <3>2. PICK v \in Nat : v = a.version + 1
      BY DEF KeyRecords
    <3>3. PICK b : b = [[a EXCEPT !.revoked = TRUE] EXCEPT !.version = v]
      OBVIOUS
    <3>4. b \in KeyRecords /\ b.version = v /\ b.epoch = a.epoch /\ b.revision = a.revision
      BY <3>3 DEF KeyRecords
    <3>5. keys' = [keys EXCEPT ![r.key] = b] /\ KeyUnchanged(s) /\ End(s)
      BY <1>12, <2>1, <2>3, <3>1, <3>2, <3>3 DEF RevokeKey
    <3>6. /\ r.key \in KeyIds /\ keys' \in [KeyIds -> KeyRecords]
          /\ KeysAdvance /\ \A k \in KeyIds : KeyOK(k)'
      BY <1>12, <1>c, <2>1, <3>1, <3>2, <3>4, <3>5 DEF KeyUnchanged, RevokeKey
    <3>7. IdleSession \in SessionRecords /\ RequestOK(IdleSession)'
      BY IdleType, IdleOK
    <3> QED
      BY <1>12, <1>t, <3>5, <3>6, <3>7, KeyStep DEF RevokeKey, End
  <2> QED BY <2>2, <2>3
<1>13. ASSUME NEW s \in Sessions, MarkKeyUsed(s)
      PROVE  KeysInv'
  <2>1. PICK r \in SessionRecords : r = session[s] /\ RequestOK(r) /\ r.pc = "markUsed"
    BY <1>13, <1>t DEF MarkKeyUsed, KeysInv
  <2>2. CASE UNCHANGED keys /\ End(s)
    BY <1>13, <1>t, <2>2, EndOK DEF MarkKeyUsed
  <2>3. CASE ~(UNCHANGED keys /\ End(s))
    <3>1. PICK a \in KeyRecords : a = r.copy
      BY DEF SessionRecords
    <3>2. PICK v \in Nat : v = a.version + 1
      BY DEF KeyRecords
    <3>3. PICK b : b = [a EXCEPT !.version = v]
      OBVIOUS
    <3>4. b \in KeyRecords /\ b.version = v /\ b.epoch = a.epoch /\ b.revision = a.revision
      BY <3>3 DEF KeyRecords
    <3>5. keys' = [keys EXCEPT ![r.key] = b] /\ KeyUnchanged(s)
      BY <1>13, <2>1, <2>3, <3>1, <3>2, <3>3 DEF MarkKeyUsed
    <3>6. /\ r.key \in KeyIds /\ keys' \in [KeyIds -> KeyRecords]
          /\ KeysAdvance /\ \A k \in KeyIds : KeyOK(k)' /\ HistoryGrows
      BY <1>13, <1>c, <2>1, <3>1, <3>2, <3>4, <3>5 DEF KeyUnchanged, MarkKeyUsed
    <3>7. RequestOK(r)'
      BY <1>t, <2>1, <3>6, RequestKept DEF KeysInv
    <3>8. PICK rec : rec = [[[r EXCEPT !.pc = "checkKey"] EXCEPT !.epoch = a.epoch] EXCEPT !.copy = NoKey]
      OBVIOUS
    <3>9. /\ rec \in SessionRecords /\ rec.pc = "checkKey"
          /\ rec.op = r.op /\ rec.key = r.key /\ rec.idem = r.idem /\ rec.expected = r.expected
          /\ rec.revision = r.revision
          /\ rec.withdrawn = r.withdrawn /\ rec.answer = r.answer
      <4>1. a.epoch \in Nat /\ NoKey \in KeyRecords
        BY IdleType DEF KeyRecords
      <4> QED BY <3>8, <4>1 DEF SessionRecords
    <3>10. session' = [session EXCEPT ![s] = rec]
      BY <1>13, <1>t, <2>1, <2>3, <3>1, <3>8 DEF MarkKeyUsed
    <3>11. RequestOK(rec)'
      BY <2>1, <3>7, <3>9 DEF RequestOK
    <3> QED
      BY <1>13, <1>t, <3>6, <3>9, <3>10, <3>11, KeyStep DEF MarkKeyUsed
  <2> QED BY <2>2, <2>3
<1>14. ASSUME NEW s \in Sessions, AuthorizeCurrentEntitlement(s)
      PROVE  KeysInv'
  <2>1. PICK r \in SessionRecords : r = session[s] /\ RequestOK(r) /\ r.pc = "entitlement"
    BY <1>14, <1>t DEF AuthorizeCurrentEntitlement, KeysInv
  <2>2. CASE End(s)
    BY <1>14, <1>t, <2>2, EndOK DEF AuthorizeCurrentEntitlement
  <2>3. CASE GoesOn(s, "consume")
    <3>1. PICK rec : rec = [r EXCEPT !.pc = "consume"]
      OBVIOUS
    <3>2. "consume" \in SessionPCs
      BY DEF SessionPCs
    <3>3. RequestOK(rec)
      BY <2>1, <3>1, <3>2, GotoType DEF RequestOK
    <3> QED BY <1>14, <2>1, <2>3, <3>1, <3>2, <3>3, GotoOK DEF AuthorizeCurrentEntitlement
  <2> QED BY <1>14, <2>2, <2>3 DEF AuthorizeCurrentEntitlement
<1>15. ASSUME NEW s \in Sessions, ConsumeAPIRequest(s)
      PROVE  KeysInv'
  <2>1. PICK r \in SessionRecords : r = session[s] /\ RequestOK(r) /\ r.pc = "consume"
    BY <1>15, <1>t DEF ConsumeAPIRequest, KeysInv
  <2>2. CASE End(s)
    BY <1>15, <1>t, <2>2, EndOK DEF ConsumeAPIRequest
  <2>3. CASE GoesOn(s, "markUsed")
    <3>1. PICK rec : rec = [r EXCEPT !.pc = "markUsed"]
      OBVIOUS
    <3>2. "markUsed" \in SessionPCs
      BY DEF SessionPCs
    <3>3. RequestOK(rec)
      BY <2>1, <3>1, <3>2, GotoType DEF RequestOK
    <3> QED BY <1>15, <2>1, <2>3, <3>1, <3>2, <3>3, GotoOK DEF ConsumeAPIRequest
  <2>4. CASE RotationRequired(s)
    <3>1. PICK rec : rec = [[IdleSession EXCEPT !.answer = "rotation_required"] EXCEPT !.key = r.key]
      OBVIOUS
    <3>2. r.key \in KeyIds \cup {NoValue}
      BY DEF SessionRecords
    <3>3. rec \in SessionRecords /\ rec.pc = "idle" /\ rec.answer = "rotation_required" /\ rec.op = "none"
      BY <3>1, <3>2, IdleType DEF SessionRecords
    <3>4. session' = [session EXCEPT ![s] = rec]
      BY <2>1, <2>4, <3>1, IdleType DEF RotationRequired, SessionRecords
    <3>5. RequestOK(rec)
      BY <3>3, IdleOK
    <3> QED BY <1>15, <1>t, <3>3, <3>4, <3>5, LocalStep DEF ConsumeAPIRequest
  <2> QED BY <1>15, <2>2, <2>3, <2>4 DEF ConsumeAPIRequest
<1>16. ASSUME NEW s \in Sessions, CheckKey(s)
      PROVE  KeysInv'
  <2>1. PICK r \in SessionRecords : r = session[s] /\ RequestOK(r) /\ r.pc = "checkKey"
    BY <1>16, <1>t DEF CheckKey, KeysInv
  <2>2. CASE End(s)
    BY <1>16, <1>t, <2>2, EndOK DEF CheckKey
  <2>3. CASE GoesOn(s, "checkEntitlement") /\ KeyStillValid(s)
    <3>1. PICK rec : rec = [r EXCEPT !.pc = "checkEntitlement"]
      OBVIOUS
    <3>2. "checkEntitlement" \in SessionPCs
      BY DEF SessionPCs
    <3>3. RequestOK(rec)
      BY <2>1, <2>3, <3>1, <3>2, GotoType DEF RequestOK, KeyStillValid
    <3> QED BY <1>16, <2>1, <2>3, <3>1, <3>2, <3>3, GotoOK DEF CheckKey
  <2> QED BY <1>16, <2>2, <2>3 DEF CheckKey
<1>17. ASSUME NEW s \in Sessions, CheckEntitlement(s)
      PROVE  KeysInv'
  <2>1. PICK r \in SessionRecords : r = session[s] /\ RequestOK(r) /\ r.pc = "checkEntitlement"
    BY <1>17, <1>t DEF CheckEntitlement, KeysInv
  <2>2. CASE End(s) /\ UNCHANGED tokens
    BY <1>17, <1>t, <2>2, EndOK DEF CheckEntitlement
  <2>3. CASE /\ AllowsAccess(entitlement, now) /\ entitlement.epoch = r.epoch
             /\ Authorized(s)
             /\ tokens' = tokens \cup {[key |-> r.key, epoch |-> r.epoch]}
    <3>1. r.key \in KeyIds /\ keys[r.key] # NoKey /\ keys[r.key].epoch = r.epoch
          /\ (r.withdrawn => InterruptedSince(keys[r.key].revision))
      BY <2>1 DEF RequestOK
    <3>2. tokens' \subseteq Tokens
      BY <1>t, <2>3, <3>1 DEF Tokens, SessionRecords
    <3>3. ~r.withdrawn
      <4> SUFFICES ASSUME r.withdrawn PROVE FALSE
        OBVIOUS
      <4>1. PICK v : v = keys[r.key].revision
        OBVIOUS
      <4>2. /\ v \in 1 .. Len(history) /\ history[v].status = "active"
            /\ history[v].epoch = r.epoch
        BY <3>1, <4>1 DEF KeysInv, KeyOK, IssuedAt
      <4>3. PICK q \in v .. Len(history) : history[q].status # "active"
        BY <3>1, <4>1 DEF InterruptedSince
      <4>4. Len(history) \in Nat /\ history \in Seq(HistoryRecords)
        BY DEF KeysInv, EntitlementInv, EntitlementTypeOK, HistoryRecords
      <4>5. q \in 1 .. Len(history) /\ v <= q /\ q <= Len(history) /\ Len(history) \in 1 .. Len(history)
        BY <4>2, <4>3, <4>4
      <4>6. history[q].epoch \in Nat /\ history[v].epoch \in Nat /\ history[Len(history)].epoch \in Nat
        <5>1. \A i \in 1 .. Len(history) : history[i] \in HistoryRecords
          BY <4>4
        <5>2. \A i \in 1 .. Len(history) : history[i].epoch \in Nat
          BY <5>1 DEF HistoryRecords
        <5> QED BY <4>2, <4>5, <5>2
      <4>7. history[v].epoch <= history[q].epoch /\ history[v].epoch # history[q].epoch
        BY <4>2, <4>3, <4>5 DEF KeysInv, EntitlementInv, EpochsOK
      <4>8. history[q].epoch <= history[Len(history)].epoch
        BY <4>5 DEF KeysInv, EntitlementInv, EpochsOK
      <4>9. history[Len(history)].epoch = r.epoch
        BY <2>3, <4>2 DEF AllowsAccess, KeysInv, EntitlementInv, ChainOK
      <4> QED BY <4>2, <4>6, <4>7, <4>8, <4>9
    <3>4. PICK rec : rec = [[IdleSession EXCEPT !.answer = "authorized"] EXCEPT !.withdrawn = r.withdrawn]
      OBVIOUS
    <3>5. rec \in SessionRecords /\ rec.pc = "idle" /\ rec.op = "none" /\ rec.withdrawn = r.withdrawn
      BY <3>4, IdleType DEF SessionRecords
    <3>6. session' = [session EXCEPT ![s] = rec]
      BY <2>1, <2>3, <3>4, IdleType DEF Authorized, SessionRecords
    <3>7. RequestOK(rec)
      BY <3>3, <3>5, IdleOK
    <3> QED BY <1>17, <1>t, <3>2, <3>5, <3>6, <3>7, LocalStep DEF CheckEntitlement
  <2> QED BY <1>17, <2>1, <2>2, <2>3 DEF CheckEntitlement
<1>18. ASSUME UNCHANGED keyVars, [EntitlementNext]_entitlementVars
      PROVE  KeysInv'
  <2>1. EntitlementInv' /\ HistoryGrows
    BY <1>18, EntitlementNextOK, HistoryKept DEF KeysInv
  <2>2. UNCHANGED <<keys, rotations, told, tokens, session>>
    BY <1>18 DEF keyVars
  <2>3. KeysAdvance
    BY <1>t, <2>2 DEF KeysAdvance, KeyRecords
  <2>4. ASSUME NEW s \in Sessions PROVE RequestOK(session[s])'
    <3>1. PICK r \in SessionRecords : r = session[s] /\ RequestOK(r)
      BY <1>t DEF KeysInv
    <3>2. RequestOK(r)'
      BY <1>t, <2>1, <2>2, <2>3, <3>1, RequestKept DEF KeysInv
    <3> QED BY <2>2, <3>1, <3>2 DEF RequestOK, IssuedAt, InterruptedSince
  <2>5. ASSUME NEW k \in KeyIds PROVE KeyOK(k)'
    <3>1. PICK a \in KeyRecords : a = keys[k]
      BY <1>t
    <3>2. a.revision \in Nat
      BY DEF KeyRecords
    <3>3. a # NoKey => a.version >= 1 /\ IssuedAt(a.epoch, a.revision)
      BY <3>1 DEF KeysInv, KeyOK
    <3>4. a # NoKey => IssuedAt(a.epoch, a.revision)'
      BY <2>1, <3>2, <3>3, IssuedKept
    <3> QED BY <2>2, <3>1, <3>3, <3>4 DEF KeyOK, IssuedAt
  <2> QED
    BY <1>t, <2>1, <2>2, <2>4, <2>5 DEF KeysInv, ReplacedBy
<1>19. CASE UNCHANGED accessVars
  BY <1>18, <1>19 DEF accessVars, keyVars, entitlementVars
<1>20. ASSUME NEW s \in Sessions, BeginRequest(s)
       PROVE  KeysInv'
  <2>1. \A k \in Rotatable : k \in KeyIds
    BY DEF Rotatable, Created
  <2>2. \A x \in tokens : x.key \in KeyIds /\ x.epoch \in Nat
    BY <1>t DEF Tokens
  <2> QED BY <1>1, <1>2, <1>3, <1>20, <2>1, <2>2 DEF BeginRequest
<1> QED
  BY <1>4, <1>5, <1>6, <1>7, <1>8, <1>9, <1>10, <1>11, <1>12, <1>13, <1>14, <1>15, <1>16, <1>17,
     <1>18, <1>19, <1>20 DEF AccessNext, KeyNext

\* A request is never authorized with a key that was revoked, or whose
\* subscription was interrupted, before the request began: the key and the
\* entitlement are read one after the other, and no order of revocations and
\* reconciliations between the two reads lets it pass.
THEOREM WithdrawnAuthorityNeverPasses == AccessSpec => []WithdrawnAuthorityIsRefused
<1>1. KeysInv => WithdrawnAuthorityIsRefused
  BY DEF KeysInv, RequestOK, WithdrawnAuthorityIsRefused
<1> QED
  BY <1>1, KeysInitOK, KeysNextOK, PTL DEF AccessSpec

\* A key has one successor, the one every caller of Rotate is told, however
\* many rotations race and whichever replies are lost.
THEOREM KeysHaveOneSuccessor == AccessSpec => []RotationsNeverFork
<1>1. KeysInv => RotationsNeverFork
  BY DEF KeysInv, ReplacedBy, RotationsNeverFork
<1> QED
  BY <1>1, KeysInitOK, KeysNextOK, PTL DEF AccessSpec
=============================================================================

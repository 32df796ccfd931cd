--------------------------- MODULE PurchaseIntent ---------------------------
(***************************************************************************)
(* The life of a purchase intent: buyers cancel it, payment requests       *)
(* resolve and claim it, and whoever first finds it past its deadline      *)
(* expires it.  All of them are conditional writes on one version number,  *)
(* made after a read, a clock reading and, for Resolve, further reads.     *)
(*                                                                         *)
(* Each actor runs Service.Cancel or PaidRouteService.Resolve, split at    *)
(* the store calls and at the clock readings between them.  Time is only   *)
(* what the code compares: late[i] says that expiresAt has been reached.   *)
(***************************************************************************)
EXTENDS Naturals

CONSTANTS
    Intents,
    ApprovalIntents,  \* intents created with RequiresApproval
    Actors,           \* concurrent requests
    None

ASSUME IntentAssumption ==
    /\ ApprovalIntents \subseteq Intents
    /\ None \notin Intents

VARIABLES
    intent,    \* the stored intents: status and version
    late,      \* the clock has reached expiresAt
    approved,  \* an approved session and its token exist for the intent
    answers,   \* what the callers have been told about the intent
    actor      \* the requests: control point and local copy

vars == <<intent, late, approved, answers, actor>>

Terminal == {"cancelled", "expired", "executed"}
Statuses == Terminal \cup {"absent", "ready", "approval_pending"}
Stored   == [status : Statuses, version : Nat]

\* "started": the challenge of the purchase is issued.  "conflict":
\* ErrIntentStateConflict, the intent can no longer be cancelled.
Answers == {"started", "cancelled", "expired", "conflict"}

PCs == {"idle", "check", "authorize", "recheck", "write", "reload"}

ActorRecords ==
    [ pc : PCs, op : {"cancel", "resolve", "none"}, intent : Intents \cup {None},
      view : Stored, stage : {"check", "recheck"}, goal : Terminal \cup {"none"} ]

Absent == [status |-> "absent", version |-> 0]

Idle == [ pc |-> "idle", op |-> "none", intent |-> None, view |-> Absent,
          stage |-> "check", goal |-> "none" ]

Init ==
    /\ intent   = [i \in Intents |-> Absent]
    /\ late     = [i \in Intents |-> FALSE]
    /\ approved = [i \in Intents |-> FALSE]
    /\ answers  = [i \in Intents |-> {}]
    /\ actor    = [a \in Actors |-> Idle]

-----------------------------------------------------------------------------
\* Creation, time, and the approval of an intent that needs one

Create(i) ==
    /\ intent[i] = Absent
    /\ intent' = [intent EXCEPT ![i] =
         [ status  |-> IF i \in ApprovalIntents THEN "approval_pending" ELSE "ready",
           version |-> 1 ]]
    /\ UNCHANGED <<late, approved, answers, actor>>

DeadlinePasses(i) ==
    /\ intent[i] # Absent /\ ~late[i]
    /\ late' = [late EXCEPT ![i] = TRUE]
    /\ UNCHANGED <<intent, approved, answers, actor>>

\* The second approval: the session ends with the intent's own deadline.
Approve(i) ==
    /\ intent[i].status = "approval_pending" /\ ~late[i] /\ ~approved[i]
    /\ approved' = [approved EXCEPT ![i] = TRUE]
    /\ UNCHANGED <<intent, late, answers, actor>>

-----------------------------------------------------------------------------
\* What one request does next

\* It answers its caller.
Answer(a, answer) ==
    /\ answers' = [answers EXCEPT ![actor[a].intent] = @ \cup {answer}]
    /\ actor'   = [actor EXCEPT ![a] = Idle]

\* It will write the status goal over the version it has seen.
Propose(a, goal) ==
    /\ actor' = [actor EXCEPT ![a] = [@ EXCEPT !.pc = "write", !.goal = goal]]
    /\ UNCHANGED answers

\* The intent can be executed: first ask the catalog, then claim it.
Proceed(a, seen) ==
    \/ /\ actor[a].stage = "check"
       /\ actor' = [actor EXCEPT ![a] = [@ EXCEPT !.pc = "authorize", !.view = seen]]
       /\ UNCHANGED answers
    \/ /\ actor[a].stage = "recheck" /\ seen.status = "ready"
       /\ Propose(a, "executed")
    \/ /\ actor[a].stage = "recheck" /\ seen.status # "ready"
       /\ Answer(a, "started")

Begin(a, op, i) ==
    /\ actor[a].pc = "idle"
    /\ intent[i] # Absent
    /\ actor' = [actor EXCEPT ![a] =
         [ pc |-> "check", op |-> op, intent |-> i, view |-> intent[i],
           stage |-> "check", goal |-> "none" ]]
    /\ UNCHANGED <<intent, late, approved, answers>>

\* A crash or a store error: the caller learns nothing.
Abort(a) ==
    /\ actor[a].pc # "idle"
    /\ actor' = [actor EXCEPT ![a] = Idle]
    /\ UNCHANGED <<intent, late, approved, answers>>

CheckCancel(a) ==
    LET seen == actor[a].view.status IN
    /\ actor[a].pc = "check" /\ actor[a].op = "cancel"
    /\ \/ /\ seen = "ready"
          /\ Propose(a, IF late[actor[a].intent] THEN "expired" ELSE "cancelled")
       \/ seen \in {"cancelled", "expired"} /\ Answer(a, seen)
       \/ seen \in {"executed", "approval_pending"} /\ Answer(a, "conflict")
    /\ UNCHANGED <<intent, late, approved>>

\* ensureIntentCanExecute, run once on the loaded copy and once more, with a
\* new clock reading but the same copy, before the claim.
CheckExecute(a) ==
    LET seen == actor[a].view
        past == late[actor[a].intent]
    IN
    /\ actor[a].pc \in {"check", "recheck"} /\ actor[a].op = "resolve"
    /\ \/ /\ \/ seen.status = "executed"
             \/ seen.status \in {"ready", "approval_pending"} /\ ~past
          /\ Proceed(a, seen)
       \/ seen.status = "ready" /\ past /\ Propose(a, "expired")
       \/ seen.status = "approval_pending" /\ past /\ Answer(a, "expired")
       \/ seen.status \in {"cancelled", "expired"} /\ Answer(a, seen.status)
    /\ UNCHANGED <<intent, late, approved>>

\* The catalog, destination and approval reads; any mismatch is an Abort.
Authorize(a) ==
    LET i == actor[a].intent IN
    /\ actor[a].pc = "authorize"
    /\ i \in ApprovalIntents => approved[i] /\ ~late[i]
    /\ actor' = [actor EXCEPT ![a] = [@ EXCEPT !.pc = "recheck", !.stage = "recheck"]]
    /\ UNCHANGED <<intent, late, approved, answers>>

-----------------------------------------------------------------------------
\* The conditional write and what follows a refused one

ToldBy(goal) == IF goal = "executed" THEN "started" ELSE goal

\* Faulty variant: last writer wins.
FaultyVersionMatches(a) == intent[actor[a].intent] # Absent

VersionMatches(a) == intent[actor[a].intent].version = actor[a].view.version

\* The client retries a write whose reply was lost; the retry then fails the
\* condition that its own first attempt has changed.
Write(a) ==
    LET i == actor[a].intent IN
    /\ actor[a].pc = "write"
    /\ IF VersionMatches(a)
         THEN /\ intent' = [intent EXCEPT ![i] =
                   [ status  |-> actor[a].goal,
                     version |-> actor[a].view.version + 1 ]]
              /\ \/ Answer(a, ToldBy(actor[a].goal))
                 \/ /\ actor' = [actor EXCEPT ![a] = [@ EXCEPT !.pc = "reload"]]
                    /\ UNCHANGED answers
         ELSE /\ actor' = [actor EXCEPT ![a] = [@ EXCEPT !.pc = "reload"]]
              /\ UNCHANGED <<intent, answers>>
    /\ UNCHANGED <<late, approved>>

ReloadCancel(a) ==
    LET current == intent[actor[a].intent].status IN
    /\ actor[a].pc = "reload" /\ actor[a].op = "cancel"
    /\ Answer(a, IF current \in {"cancelled", "expired"} THEN current
                 ELSE IF current = "ready" /\ actor[a].goal = "expired"
                   THEN "expired" ELSE "conflict")
    /\ UNCHANGED <<intent, late, approved>>

\* Faulty variant: losing the race means that the deadline won it.
FaultyReloadExecute(a) ==
    /\ actor[a].pc = "reload" /\ actor[a].op = "resolve"
    /\ Answer(a, "expired")
    /\ UNCHANGED <<intent, late, approved>>

\* A lost race against another claim is a success, also for the request that
\* wanted to expire the intent.
ReloadExecute(a) ==
    LET current == intent[actor[a].intent] IN
    /\ actor[a].pc = "reload" /\ actor[a].op = "resolve"
    /\ \/ /\ current.status = "executed"
          /\ IF actor[a].goal = "executed" THEN Answer(a, "started")
                                           ELSE Proceed(a, current)
       \/ /\ current.status # "executed"
          /\ Answer(a, IF current.status = "cancelled" THEN "cancelled"
                                                       ELSE "expired")
    /\ UNCHANGED <<intent, late, approved>>

-----------------------------------------------------------------------------

Next ==
    \/ \E i \in Intents : Create(i) \/ DeadlinePasses(i) \/ Approve(i)
    \/ \E a \in Actors :
         \/ \E op \in {"cancel", "resolve"}, i \in Intents : Begin(a, op, i)
         \/ CheckCancel(a) \/ CheckExecute(a) \/ Authorize(a)
         \/ Write(a) \/ ReloadCancel(a) \/ ReloadExecute(a) \/ Abort(a)

Spec == Init /\ [][Next]_vars
-----------------------------------------------------------------------------
\* Properties

\* Every variable holds values of its type.
TypeOK ==
    /\ intent \in [Intents -> Stored]
    /\ late \in [Intents -> BOOLEAN]
    /\ approved \in [Intents -> BOOLEAN]
    /\ answers \in [Intents -> SUBSET Answers]
    /\ actor \in [Actors -> ActorRecords]

\* The outcome an answer reports: a refused cancellation says it was executed.
Reports(answer) == IF answer \in {"started", "conflict"} THEN "executed" ELSE answer

\* The abstract state of the intents that need no approval.
Direct      == Intents \ ApprovalIntents
OutcomeOf   == [i \in Direct |-> IF intent[i].status \in Terminal
                                   THEN intent[i].status ELSE "open"]
ToldOf      == [i \in Direct |-> {Reports(x) : x \in answers[i]}]

Promise == INSTANCE OneOutcome
             WITH Subjects <- Direct, outcome <- OutcomeOf, told <- ToldOf

\* Cancellation, execution and expiry race for every intent that needs no
\* approval, and exactly one of them wins: Service.Cancel and Resolve together
\* implement OneOutcome, whatever reads and clock readings are stale.
ImplementsOneOutcome == Promise!Spec

\* No two callers are told different fates of an intent, and none is told a
\* fate the store does not hold ("One conditional intent transition
\* wins", docs/ARCHITECTURE.md).
AnswersAgree ==
    \A i \in Direct : \A x \in answers[i] : intent[i].status = Reports(x)

\* A purchase that needs an approval never starts without one, and neither
\* Cancel nor Resolve ever writes its intent.
ApprovalIntentsWaitForApproval ==
    \A i \in ApprovalIntents :
        /\ intent[i].status \in {"absent", "approval_pending"}
        /\ "started" \in answers[i] => approved[i]
=============================================================================

--------------------------- MODULE PurchaseProofs ---------------------------
(***************************************************************************)
(* What a purchase promises its buyer before it is paid, for any number of *)
(* intents, sessions, transactions, wallets and concurrent requests.       *)
(*                                                                         *)
(* Intents (PurchaseIntent): the invariant says what a copy is worth.  The *)
(* copy a request holds is either the stored intent, or the ready intent   *)
(* of version 1 that another request has decided since.  A conditional     *)
(* write therefore succeeds only on an undecided intent, and a refused one *)
(* means a decided intent.                                                 *)
(*                                                                         *)
(* Sessions (BrowserPurchase): a session is claimed for one transaction    *)
(* and keeps it.  What a recovery read of a session may be old, but it     *)
(* differs from the stored session in its grant only, so writing it back   *)
(* undoes nothing.                                                         *)
(*                                                                         *)
(* Repeated requests (Gateway): a record that a request meets when it      *)
(* arrives is never deleted, so the request ends at its check.             *)
(***************************************************************************)
EXTENDS PurchaseIntent, BrowserPurchase, Gateway, TLAPS

Ready == [status |-> "ready", version |-> 1]

StoredOK(i) ==
    \/ intent[i] = Absent
    \/ i \in ApprovalIntents /\ intent[i] = [status |-> "approval_pending", version |-> 1]
    \/ i \in Direct /\ intent[i] = Ready
    \/ /\ i \in Direct
       /\ intent[i].status \in Terminal /\ intent[i].version = 2

ActorOK(a) ==
    LET i == actor[a].intent IN
    actor[a].pc # "idle" =>
        /\ i \in Intents
        /\ intent[i] # Absent
        /\ \/ actor[a].view = intent[i]
           \/ /\ i \in Direct
              /\ actor[a].view = Ready /\ intent[i].status \in Terminal
        /\ actor[a].pc \in {"write", "reload"} => actor[a].goal \in Terminal
        /\ actor[a].pc = "write" => actor[a].view.status = "ready"
        /\ actor[a].pc = "reload" => intent[i].status \in Terminal
        /\ i \in ApprovalIntents /\ actor[a].stage = "recheck" => approved[i]

Inv ==
    /\ TypeOK
    /\ \A i \in Intents : StoredOK(i)
    /\ \A a \in Actors : ActorOK(a)
    /\ AnswersAgree
    /\ ApprovalIntentsWaitForApproval

\* A request that answers keeps the invariant if the answer is true.
LEMMA AnswerStep ==
    ASSUME NEW a \in Actors, NEW answer \in Answers, Inv, actor[a].pc # "idle",
           Answer(a, answer), UNCHANGED <<intent, late, approved>>,
           actor[a].intent \in Direct =>
               intent[actor[a].intent].status = Reports(answer),
           actor[a].intent \in ApprovalIntents /\ answer = "started" =>
               approved[actor[a].intent]
    PROVE  Inv'
<1> DEFINE i == actor[a].intent
<1>1. i \in Intents
  BY DEF Inv, ActorOK
<1>2. TypeOK'
  BY <1>1 DEF Inv, TypeOK, Answer, Idle, ActorRecords, PCs, Stored, Absent, Statuses
<1>3. \A j \in Intents : StoredOK(j)'
  BY DEF Inv, StoredOK
<1>4. \A b \in Actors : ActorOK(b)'
  BY DEF Inv, ActorOK, TypeOK, Answer, Idle
<1>5. AnswersAgree'
  BY <1>1 DEF Inv, AnswersAgree, TypeOK, Answer, Direct
<1>6. ApprovalIntentsWaitForApproval'
  BY <1>1, IntentAssumption DEF Inv, ApprovalIntentsWaitForApproval, TypeOK, Answer
<1> QED
  BY <1>2, <1>3, <1>4, <1>5, <1>6 DEF Inv

\* A step that only moves one request on keeps the invariant if the request's
\* new record is sound.
LEMMA LocalStep ==
    ASSUME NEW a \in Actors, NEW next \in ActorRecords, Inv,
           actor' = [actor EXCEPT ![a] = next],
           UNCHANGED <<intent, late, approved, answers>>,
           ActorOK(a)'
    PROVE  Inv'
<1>1. TypeOK'
  BY DEF Inv, TypeOK
<1>2. \A j \in Intents : StoredOK(j)'
  BY DEF Inv, StoredOK
<1>3. \A b \in Actors : ActorOK(b)'
  <2> TAKE b \in Actors
  <2>1. CASE b = a  BY <2>1
  <2>2. CASE b # a  BY <2>2 DEF Inv, TypeOK, ActorOK
  <2> QED  BY <2>1, <2>2
<1>4. AnswersAgree' /\ ApprovalIntentsWaitForApproval'
  BY DEF Inv, AnswersAgree, ApprovalIntentsWaitForApproval
<1> QED
  BY <1>1, <1>2, <1>3, <1>4 DEF Inv

LEMMA ProposeStep ==
    ASSUME NEW a \in Actors, NEW goal \in Terminal, Inv, actor[a].pc # "idle",
           actor[a].view.status = "ready",
           Propose(a, goal), UNCHANGED <<intent, late, approved>>
    PROVE  Inv'
<1> DEFINE next == [actor[a] EXCEPT !.pc = "write", !.goal = goal]
<1>1. actor[a] \in ActorRecords
  BY DEF Inv, TypeOK
<1>2. next \in ActorRecords
  BY <1>1 DEF ActorRecords, PCs
<1>3. actor' = [actor EXCEPT ![a] = next] /\ UNCHANGED <<intent, late, approved, answers>>
  BY DEF Propose
<1>4. /\ actor'[a].intent = actor[a].intent /\ actor'[a].view = actor[a].view
      /\ actor'[a].stage = actor[a].stage /\ actor'[a].pc = "write"
      /\ actor'[a].goal = goal
  BY <1>1, <1>3 DEF Inv, TypeOK, ActorRecords
<1>5. ActorOK(a)'
  BY <1>3, <1>4 DEF Inv, ActorOK
<1> QED
  BY <1>2, <1>3, <1>5, LocalStep

\* Moving on with a copy that is the stored intent, or that was sound before.
LEMMA ProceedStep ==
    ASSUME NEW a \in Actors, NEW seen, Inv, actor[a].pc # "idle",
           seen = actor[a].view \/ seen = intent[actor[a].intent],
           seen.status = "executed" \/ seen = actor[a].view,
           seen.status \in {"ready", "approval_pending", "executed"},
           Proceed(a, seen), UNCHANGED <<intent, late, approved>>
    PROVE  Inv'
<1> DEFINE i == actor[a].intent
<1>1. /\ actor[a] \in ActorRecords /\ i \in Intents /\ StoredOK(i) /\ ActorOK(a)
      /\ seen \in Stored
  BY DEF Inv, TypeOK, ActorOK, ActorRecords
<1>2. CASE actor[a].stage = "check" /\ UNCHANGED answers
           /\ actor' = [actor EXCEPT ![a] = [@ EXCEPT !.pc = "authorize", !.view = seen]]
  <2> DEFINE next == [actor[a] EXCEPT !.pc = "authorize", !.view = seen]
  <2>1. next = [[actor[a] EXCEPT !.pc = "authorize"] EXCEPT !.view = seen]
    BY <1>1 DEF ActorRecords
  <2>2. next \in ActorRecords
    BY <1>1, <2>1 DEF ActorRecords, PCs
  <2>3. /\ actor'[a].intent = i /\ actor'[a].view = seen
        /\ actor'[a].stage = actor[a].stage /\ actor'[a].pc = "authorize"
    BY <1>1, <1>2 DEF Inv, TypeOK, ActorRecords
  <2>4. ActorOK(a)'
    BY <1>1, <1>2, <2>3 DEF ActorOK
  <2>5. actor' = [actor EXCEPT ![a] = next]
    BY <1>2
  <2> HIDE DEF next
  <2> QED  BY <1>2, <2>2, <2>4, <2>5, LocalStep
<1>3. CASE seen.status = "ready" /\ Propose(a, "executed")
  BY <1>3, ProposeStep DEF Terminal
<1>4. CASE actor[a].stage = "recheck" /\ seen.status # "ready" /\ Answer(a, "started")
  <2>1. i \in Direct => intent[i].status = Reports("started")
    BY <1>1, <1>4, IntentAssumption
    DEF StoredOK, ActorOK, Ready, Direct, Reports, Absent, Terminal
  <2>2. i \in ApprovalIntents => approved[i]
    BY <1>1, <1>4 DEF ActorOK
  <2> QED  BY <1>4, <2>1, <2>2, AnswerStep DEF Answers
<1> QED
  BY <1>2, <1>3, <1>4 DEF Proceed

LEMMA BeginStep ==
    ASSUME NEW a \in Actors, NEW op \in {"cancel", "resolve"}, NEW i \in Intents,
           Inv, Begin(a, op, i)
    PROVE  Inv'
<1> DEFINE seen == intent[i]
           next == [ pc |-> "check", op |-> op, intent |-> i, view |-> seen,
                     stage |-> "check", goal |-> "none" ]
<1>1. seen \in Stored
  BY DEF Inv, TypeOK
<1>2. next \in ActorRecords
  BY <1>1 DEF ActorRecords, PCs
<1>3. actor' = [actor EXCEPT ![a] = next] /\ UNCHANGED <<intent, late, approved, answers>>
  BY DEF Begin, Idle
<1>4. actor'[a] = next
  BY <1>3 DEF Inv, TypeOK
<1>5. ActorOK(a)'
  BY <1>3, <1>4 DEF ActorOK, Begin
<1> HIDE DEF next
<1> QED
  BY <1>2, <1>3, <1>5, LocalStep

LEMMA AbortStep ==
    ASSUME NEW a \in Actors, Inv, Abort(a)
    PROVE  Inv'
<1>1. Idle \in ActorRecords
  BY DEF Idle, ActorRecords, PCs, Stored, Absent, Statuses
<1>2. actor' = [actor EXCEPT ![a] = Idle] /\ UNCHANGED <<intent, late, approved, answers>>
  BY DEF Abort
<1>3. ActorOK(a)'
  BY <1>2 DEF ActorOK, Idle, Inv, TypeOK
<1> QED
  BY <1>1, <1>2, <1>3, LocalStep

LEMMA AuthorizeStep ==
    ASSUME NEW a \in Actors, Inv, Authorize(a)
    PROVE  Inv'
<1> DEFINE next == [actor[a] EXCEPT !.pc = "recheck", !.stage = "recheck"]
<1>1. actor[a] \in ActorRecords /\ ActorOK(a)
  BY DEF Inv, TypeOK
<1>2. next \in ActorRecords
  BY <1>1 DEF ActorRecords, PCs
<1>3. actor' = [actor EXCEPT ![a] = next] /\ UNCHANGED <<intent, late, approved, answers>>
  BY DEF Authorize
<1>4. /\ actor'[a].intent = actor[a].intent /\ actor'[a].view = actor[a].view
      /\ actor'[a].pc = "recheck"
  BY <1>1, <1>3 DEF Inv, TypeOK, ActorRecords
<1>5. ActorOK(a)'
  BY <1>1, <1>3, <1>4 DEF ActorOK, Authorize
<1> QED
  BY <1>2, <1>3, <1>5, LocalStep

\* What the copy of a running request says about the stored intent.
LEMMA CopyIsCurrentOrReady ==
    ASSUME NEW a \in Actors, Inv, actor[a].pc # "idle"
    PROVE  LET i == actor[a].intent
               seen == actor[a].view.status
           IN  /\ i \in Intents
               /\ seen \in Terminal => intent[i].status = seen /\ i \in Direct
               /\ seen = "approval_pending" => i \in ApprovalIntents
               /\ intent[i].status \in Terminal => i \in Direct
BY IntentAssumption DEF Inv, ActorOK, StoredOK, Ready, Absent, Terminal, Direct

LEMMA CheckCancelStep ==
    ASSUME NEW a \in Actors, Inv, CheckCancel(a)
    PROVE  Inv'
<1> DEFINE i == actor[a].intent
           seen == actor[a].view.status
<1>1. actor[a].pc # "idle" /\ UNCHANGED <<intent, late, approved>>
  BY DEF CheckCancel
<1>2. CASE seen = "ready" /\ Propose(a, IF late[i] THEN "expired" ELSE "cancelled")
  BY <1>1, <1>2, ProposeStep DEF Terminal
<1>3. CASE seen \in {"cancelled", "expired"} /\ Answer(a, seen)
  <2>1. seen \in Answers /\ seen # "started" /\ Reports(seen) = seen
    BY <1>3 DEF Answers, Reports
  <2>2. intent[i].status = seen
    BY <1>1, <1>3, CopyIsCurrentOrReady DEF Terminal
  <2> QED  BY <1>1, <1>3, <2>1, <2>2, AnswerStep
<1>4. CASE seen \in {"executed", "approval_pending"} /\ Answer(a, "conflict")
  <2>1. i \in Direct => intent[i].status = Reports("conflict")
    BY <1>1, <1>4, CopyIsCurrentOrReady DEF Terminal, Reports, Direct
  <2> QED  BY <1>1, <1>4, <2>1, AnswerStep DEF Answers
<1> QED
  BY <1>2, <1>3, <1>4 DEF CheckCancel

LEMMA CheckExecuteStep ==
    ASSUME NEW a \in Actors, Inv, CheckExecute(a)
    PROVE  Inv'
<1> DEFINE i == actor[a].intent
           seen == actor[a].view
<1>1. actor[a].pc # "idle" /\ UNCHANGED <<intent, late, approved>>
  BY DEF CheckExecute
<1>2. CASE /\ seen.status \in {"ready", "approval_pending", "executed"}
           /\ Proceed(a, seen)
  BY <1>1, <1>2, ProceedStep
<1>3. CASE seen.status = "ready" /\ Propose(a, "expired")
  BY <1>1, <1>3, ProposeStep DEF Terminal
<1>4. CASE seen.status = "approval_pending" /\ Answer(a, "expired")
  <2>1. i \notin Direct
    BY <1>1, <1>4, CopyIsCurrentOrReady DEF Direct
  <2> QED  BY <1>1, <1>4, <2>1, AnswerStep DEF Answers
<1>5. CASE seen.status \in {"cancelled", "expired"} /\ Answer(a, seen.status)
  <2>1. seen.status \in Answers /\ seen.status # "started"
        /\ Reports(seen.status) = seen.status
    BY <1>5 DEF Answers, Reports
  <2>2. intent[i].status = seen.status
    BY <1>1, <1>5, CopyIsCurrentOrReady DEF Terminal
  <2> QED  BY <1>1, <1>5, <2>1, <2>2, AnswerStep
<1> QED
  BY <1>2, <1>3, <1>4, <1>5 DEF CheckExecute

LEMMA ReloadCancelStep ==
    ASSUME NEW a \in Actors, Inv, ReloadCancel(a)
    PROVE  Inv'
<1> DEFINE i == actor[a].intent
           current == intent[i].status
           answer == IF current \in {"cancelled", "expired"} THEN current ELSE "conflict"
<1>1. /\ actor[a].pc # "idle" /\ UNCHANGED <<intent, late, approved>>
      /\ current \in Terminal
  BY DEF ReloadCancel, Inv, ActorOK
<1>2. Answer(a, answer) /\ answer \in Answers /\ answer # "started"
      /\ Reports(answer) = current
  BY <1>1 DEF ReloadCancel, Terminal, Answers, Reports
<1> HIDE DEF answer
<1> QED
  BY <1>1, <1>2, AnswerStep

LEMMA ReloadExecuteStep ==
    ASSUME NEW a \in Actors, Inv, ReloadExecute(a)
    PROVE  Inv'
<1> DEFINE i == actor[a].intent
           current == intent[i]
<1>1. /\ actor[a].pc # "idle" /\ UNCHANGED <<intent, late, approved>>
      /\ current.status \in Terminal /\ i \notin ApprovalIntents
  BY CopyIsCurrentOrReady DEF ReloadExecute, Inv, ActorOK, Direct
<1>2. CASE current.status = "executed" /\ Answer(a, "started")
  BY <1>1, <1>2, AnswerStep DEF Answers, Reports
<1>3. CASE current.status = "executed" /\ Proceed(a, current)
  BY <1>1, <1>3, ProceedStep
<1>4. CASE /\ current.status # "executed"
           /\ Answer(a, IF current.status = "cancelled" THEN "cancelled" ELSE "expired")
  BY <1>1, <1>4, AnswerStep DEF Answers, Reports, Terminal
<1> QED
  BY <1>2, <1>3, <1>4 DEF ReloadExecute

\* The write succeeds on a ready intent only, and decides it.
LEMMA WriteDecides ==
    ASSUME NEW a \in Actors, Inv, Write(a), VersionMatches(a)
    PROVE  LET i == actor[a].intent IN
           /\ i \in Direct /\ intent[i] = Ready
           /\ actor[a].goal \in Terminal
           /\ intent' = [intent EXCEPT ![i] = [status |-> actor[a].goal, version |-> 2]]
BY IntentAssumption
DEF Inv, Write, VersionMatches, ActorOK, StoredOK, Ready, Terminal, Direct, Absent

LEMMA WriteStep ==
    ASSUME NEW a \in Actors, Inv, Write(a)
    PROVE  Inv'
<1> DEFINE i == actor[a].intent
           next == [actor[a] EXCEPT !.pc = "reload"]
<1>1. /\ actor[a].pc = "write" /\ UNCHANGED <<late, approved>>
      /\ actor[a] \in ActorRecords /\ ActorOK(a) /\ StoredOK(i) /\ i \in Intents
  BY DEF Write, Inv, TypeOK, ActorOK
<1>2. next \in ActorRecords
  BY <1>1 DEF ActorRecords, PCs
<1>3. CASE ~VersionMatches(a)
  <2>1. actor' = [actor EXCEPT ![a] = next] /\ UNCHANGED <<intent, answers>>
    BY <1>3 DEF Write
  <2>2. intent[i].status \in Terminal
    BY <1>1, <1>3 DEF VersionMatches, ActorOK
  <2>3. ActorOK(a)'
    BY <1>1, <2>1, <2>2 DEF ActorOK, ActorRecords, Inv, TypeOK
  <2> HIDE DEF next
  <2> QED  BY <1>1, <1>2, <2>1, <2>3, LocalStep
<1>4. CASE VersionMatches(a)
  <2> DEFINE goal == actor[a].goal
  <2>1. /\ i \in Direct /\ intent[i] = Ready /\ goal \in Terminal
        /\ intent' = [intent EXCEPT ![i] = [status |-> goal, version |-> 2]]
    BY <1>4, WriteDecides
  <2>2. \/ Answer(a, ToldBy(goal))
        \/ actor' = [actor EXCEPT ![a] = next] /\ UNCHANGED answers
    BY <1>4 DEF Write
  <2>3. ToldBy(goal) \in Answers /\ Reports(ToldBy(goal)) = goal
    BY <2>1 DEF ToldBy, Answers, Reports, Terminal
  <2>4. TypeOK'
    <3>1. intent' \in [Intents -> Stored]
      BY <2>1 DEF Inv, TypeOK, Stored, Statuses
    <3>2. answers' \in [Intents -> SUBSET Answers]
      BY <1>1, <2>2, <2>3 DEF Inv, TypeOK, Answer
    <3>3. Idle \in ActorRecords
      BY DEF Idle, ActorRecords, PCs, Stored, Absent, Statuses
    <3>4. actor' \in [Actors -> ActorRecords]
      BY <1>2, <2>2, <3>3 DEF Inv, TypeOK, Answer
    <3> QED  BY <1>1, <3>1, <3>2, <3>4 DEF Inv, TypeOK
  <2>5. \A j \in Intents : StoredOK(j)'
    BY <1>1, <2>1 DEF Inv, StoredOK, TypeOK
  <2>6. \A b \in Actors : ActorOK(b)'
    <3> SUFFICES ASSUME NEW b \in Actors, actor'[b].pc # "idle"
                 PROVE  ActorOK(b)'
      BY DEF ActorOK
    <3>1. actor[b].pc # "idle" /\ ActorOK(b) /\ actor'[b].intent = actor[b].intent
          /\ actor'[b].view = actor[b].view /\ actor'[b].goal = actor[b].goal
          /\ actor'[b].stage = actor[b].stage
          /\ actor'[b].pc = (IF b = a THEN "reload" ELSE actor[b].pc)
      BY <1>1, <2>2 DEF Inv, TypeOK, Answer, Idle, ActorRecords
    <3>2. actor[b].intent \in Intents
      BY <3>1 DEF ActorOK
    <3>3. CASE actor[b].intent = i
      <4>1. actor[b].view = Ready
        BY <2>1, <3>1, <3>3 DEF ActorOK
      <4>2. /\ intent'[i].status = goal /\ intent'[i].version = 2
        BY <1>1, <2>1 DEF Inv, TypeOK
      <4> QED  BY <1>1, <2>1, <3>1, <3>3, <4>1, <4>2 DEF ActorOK, Absent, Ready
    <3>4. CASE actor[b].intent # i
      <4>1. intent'[actor[b].intent] = intent[actor[b].intent] /\ b # a
        BY <2>1, <3>2, <3>4 DEF Inv, TypeOK
      <4> QED  BY <1>1, <3>1, <4>1 DEF ActorOK
    <3> QED  BY <3>3, <3>4
  <2>7. AnswersAgree'
    <3> SUFFICES ASSUME NEW j \in Direct, NEW x \in answers'[j]
                 PROVE  intent'[j].status = Reports(x)
      BY DEF AnswersAgree
    <3>1. j \in Intents
      BY DEF Direct
    <3>2. CASE j # i
      BY <1>1, <2>1, <2>2, <3>1, <3>2 DEF Inv, AnswersAgree, Answer, TypeOK
    <3>3. CASE j = i
      <4>1. answers[i] = {}
        <5> SUFFICES ASSUME NEW y \in answers[i] PROVE FALSE
          OBVIOUS
        <5>1. Reports(y) = "ready"
          BY <2>1 DEF Inv, AnswersAgree, Ready
        <5>2. y \in Answers
          BY <1>1 DEF Inv, TypeOK
        <5> QED  BY <5>1, <5>2 DEF Reports, Answers
      <4>2. x = ToldBy(goal)
        BY <1>1, <2>2, <3>3, <4>1 DEF Inv, TypeOK, Answer
      <4> QED  BY <1>1, <2>1, <2>3, <3>3, <4>2 DEF Inv, TypeOK
    <3> QED  BY <3>2, <3>3
  <2>8. ApprovalIntentsWaitForApproval'
    BY <1>1, <2>1, <2>2, IntentAssumption
    DEF Inv, ApprovalIntentsWaitForApproval, Direct, Answer, TypeOK
  <2> QED  BY <2>4, <2>5, <2>6, <2>7, <2>8 DEF Inv
<1> QED
  BY <1>3, <1>4

LEMMA CreateStep ==
    ASSUME NEW i \in Intents, Inv, Create(i)
    PROVE  Inv'
<1> DEFINE new == [ status |-> IF i \in ApprovalIntents THEN "approval_pending" ELSE "ready",
                    version |-> 1 ]
<1>1. /\ intent' = [intent EXCEPT ![i] = new] /\ intent[i] = Absent
      /\ UNCHANGED <<late, approved, answers, actor>>
  BY DEF Create
<1>2. intent'[i] = new /\ \A j \in Intents : j # i => intent'[j] = intent[j]
  BY <1>1 DEF Inv, TypeOK
<1>3. TypeOK'
  BY <1>1 DEF Inv, TypeOK, Stored, Statuses
<1>4. \A j \in Intents : StoredOK(j)'
  BY <1>2 DEF Inv, StoredOK, Ready, Direct
<1>5. \A b \in Actors : ActorOK(b)'
  BY <1>1, <1>2 DEF Inv, ActorOK
<1>6. AnswersAgree'
  <2> SUFFICES ASSUME NEW j \in Direct, NEW x \in answers[j]
               PROVE  intent'[j].status = Reports(x)
    BY <1>1 DEF AnswersAgree
  <2>1. intent[j].status = Reports(x) /\ x \in Answers /\ j \in Intents
    BY DEF Inv, AnswersAgree, TypeOK, Direct
  <2>2. j # i
    BY <1>1, <2>1 DEF Absent, Reports, Answers
  <2> QED  BY <1>2, <2>1, <2>2
<1>7. ApprovalIntentsWaitForApproval'
  BY <1>1, <1>2, IntentAssumption DEF Inv, ApprovalIntentsWaitForApproval
<1> QED
  BY <1>3, <1>4, <1>5, <1>6, <1>7 DEF Inv

LEMMA EnvironmentStep ==
    ASSUME NEW i \in Intents, Inv, DeadlinePasses(i) \/ Approve(i)
    PROVE  Inv'
<1>1. /\ UNCHANGED <<intent, answers, actor>>
      /\ \A j \in Intents : approved[j] => approved'[j]
  BY DEF Inv, TypeOK, DeadlinePasses, Approve
<1>2. TypeOK'
  BY DEF Inv, TypeOK, DeadlinePasses, Approve
<1>3. (\A j \in Intents : StoredOK(j)') /\ \A b \in Actors : ActorOK(b)'
  BY <1>1 DEF Inv, StoredOK, ActorOK
<1>4. AnswersAgree' /\ ApprovalIntentsWaitForApproval'
  BY <1>1, IntentAssumption DEF Inv, AnswersAgree, ApprovalIntentsWaitForApproval
<1> QED
  BY <1>2, <1>3, <1>4 DEF Inv

LEMMA InitInv == Init => Inv
<1> SUFFICES ASSUME Init PROVE Inv
  OBVIOUS
<1>1. TypeOK
  BY DEF Init, TypeOK, Idle, ActorRecords, PCs, Stored, Absent, Statuses
<1>2. (\A i \in Intents : StoredOK(i)) /\ \A a \in Actors : ActorOK(a)
  BY DEF Init, StoredOK, ActorOK, Idle
<1>3. AnswersAgree /\ ApprovalIntentsWaitForApproval
  BY IntentAssumption
  DEF Init, AnswersAgree, ApprovalIntentsWaitForApproval, Direct, Absent
<1> QED
  BY <1>1, <1>2, <1>3 DEF Inv

LEMMA NextInv == Inv /\ [Next]_vars => Inv'
<1> SUFFICES ASSUME Inv, [Next]_vars PROVE Inv'
  OBVIOUS
<1>1. CASE UNCHANGED vars
  BY <1>1 DEF vars, Inv, TypeOK, StoredOK, ActorOK, AnswersAgree,
              ApprovalIntentsWaitForApproval
<1>2. CASE \E i \in Intents : Create(i) \/ DeadlinePasses(i) \/ Approve(i)
  BY <1>2, CreateStep, EnvironmentStep
<1>3. CASE \E a \in Actors, op \in {"cancel", "resolve"}, i \in Intents : Begin(a, op, i)
  BY <1>3, BeginStep
<1>4. CASE \E a \in Actors : CheckCancel(a) \/ CheckExecute(a) \/ Authorize(a)
  BY <1>4, CheckCancelStep, CheckExecuteStep, AuthorizeStep
<1>5. CASE \E a \in Actors : Write(a) \/ ReloadCancel(a) \/ ReloadExecute(a) \/ Abort(a)
  BY <1>5, WriteStep, ReloadCancelStep, ReloadExecuteStep, AbortStep
<1> QED
  BY <1>1, <1>2, <1>3, <1>4, <1>5 DEF Next

LEMMA IntentInvariance == Spec => []Inv
BY InitInv, NextInv, PTL DEF Spec

\* The stored intents, the clock flags, the answers and the requests of
\* Cancel and Resolve always have their types.
THEOREM IntentTypeCorrect == Spec => []TypeOK
<1>1. Inv => TypeOK
  BY DEF Inv
<1> QED
  BY <1>1, IntentInvariance, PTL

\* No two callers of Cancel and Resolve are ever told different fates of an
\* intent.
THEOREM CallersAgree == Spec => []AnswersAgree
<1>1. Inv => AnswersAgree
  BY DEF Inv
<1> QED
  BY <1>1, IntentInvariance, PTL

\* An intent that requires an approval never reaches a challenge without one.
THEOREM ApprovalComesFirst == Spec => []ApprovalIntentsWaitForApproval
<1>1. Inv => ApprovalIntentsWaitForApproval
  BY DEF Inv
<1> QED
  BY <1>1, IntentInvariance, PTL

-----------------------------------------------------------------------------
\* The refinement

LEMMA ToldGrows ==
    ASSUME NEW i \in Direct, NEW answer, TypeOK,
           answers' = [answers EXCEPT ![i] = @ \cup {answer}]
    PROVE  ToldOf' = [ToldOf EXCEPT ![i] = @ \cup {Reports(answer)}]
<1> DEFINE Image(A) == {Reports(x) : x \in A}
<1>1. i \in Intents /\ Direct \subseteq Intents
  BY DEF Direct
<1>2. answers'[i] = answers[i] \cup {answer}
      /\ \A j \in Direct : j # i => answers'[j] = answers[j]
  BY <1>1 DEF TypeOK
<1>3. ASSUME NEW A PROVE Image(A \cup {answer}) = Image(A) \cup {Reports(answer)}
  OBVIOUS
<1>4. ToldOf = [j \in Direct |-> Image(answers[j])]
  BY DEF ToldOf
<1>5. ToldOf' = [j \in Direct |-> Image(answers'[j])]
  BY DEF ToldOf
<1>6. Image(answers'[i]) = Image(answers[i]) \cup {Reports(answer)}
  BY <1>2, <1>3
<1> HIDE DEF Image
<1> QED
  BY <1>2, <1>4, <1>5, <1>6

\* An answer tells an outcome that is decided, or is about an intent under
\* approval.
LEMMA AnswerTells ==
    ASSUME NEW a \in Actors, NEW answer \in Answers, Inv, Inv', actor[a].pc # "idle",
           Answer(a, answer), UNCHANGED intent
    PROVE  Promise!Next \/ UNCHANGED <<OutcomeOf, ToldOf>>
<1> DEFINE i == actor[a].intent
<1>1. i \in Intents /\ answers' = [answers EXCEPT ![i] = @ \cup {answer}]
  BY DEF Inv, ActorOK, Answer
<1>2. OutcomeOf' = OutcomeOf
  BY DEF OutcomeOf
<1>3. CASE i \notin Direct
  BY <1>1, <1>2, <1>3 DEF ToldOf, Direct, Inv, TypeOK
<1>4. CASE i \in Direct
  <2>1. answer \in answers'[i]
    BY <1>1 DEF Inv, TypeOK
  <2>2. intent[i].status = Reports(answer)
    BY <1>4, <2>1 DEF Inv, AnswersAgree
  <2>3. OutcomeOf[i] = Reports(answer) /\ Reports(answer) \in Promise!Outcomes
    BY <1>4, <2>2 DEF OutcomeOf, Promise!Outcomes, Reports, Answers, Terminal
  <2>4. ToldOf' = [ToldOf EXCEPT ![i] = @ \cup {Reports(answer)}]
    BY <1>1, <1>4, ToldGrows DEF Inv
  <2> QED
    BY <1>2, <1>4, <2>3, <2>4 DEF Promise!Next, Promise!Tell
<1> QED
  BY <1>3, <1>4

LEMMA WriteIsDecide ==
    ASSUME NEW a \in Actors, Inv, Write(a)
    PROVE  Promise!Next \/ UNCHANGED <<OutcomeOf, ToldOf>>
<1> DEFINE i == actor[a].intent
           goal == actor[a].goal
<1>1. CASE ~VersionMatches(a)
  BY <1>1 DEF Write, OutcomeOf, ToldOf
<1>2. CASE VersionMatches(a)
  <2>1. /\ i \in Direct /\ i \in Intents /\ intent[i] = Ready /\ goal \in Terminal
        /\ intent' = [intent EXCEPT ![i] = [status |-> goal, version |-> 2]]
    BY <1>2, WriteDecides DEF Direct
  <2>2. OutcomeOf[i] = "open" /\ goal \in Promise!Outcomes
    BY <2>1 DEF OutcomeOf, Ready, Terminal, Promise!Outcomes
  <2>3. OutcomeOf' = [OutcomeOf EXCEPT ![i] = goal]
    BY <2>1 DEF OutcomeOf, Direct, Inv, TypeOK
  <2>4. Reports(ToldBy(goal)) = goal
    BY <2>1 DEF ToldBy, Reports, Terminal
  <2>5. \/ UNCHANGED answers
        \/ answers' = [answers EXCEPT ![i] = @ \cup {ToldBy(goal)}]
    BY <1>2 DEF Write, Answer
  <2>6. UNCHANGED ToldOf \/ ToldOf' = [ToldOf EXCEPT ![i] = @ \cup {goal}]
    <3>1. CASE UNCHANGED answers
      BY <3>1 DEF ToldOf
    <3>2. CASE answers' = [answers EXCEPT ![i] = @ \cup {ToldBy(goal)}]
      BY <2>1, <2>4, <3>2, ToldGrows DEF Inv
    <3> QED  BY <2>5, <3>1, <3>2
  <2>7. Promise!Decide(i, goal)
    BY <2>2, <2>3, <2>6 DEF Promise!Decide
  <2> QED
    BY <2>1, <2>2, <2>7 DEF Promise!Next
<1> QED
  BY <1>1, <1>2

\* A step that writes neither the store nor an answer is invisible.
LEMMA SilentStep ==
    UNCHANGED <<intent, answers>> => UNCHANGED <<OutcomeOf, ToldOf>>
BY DEF OutcomeOf, ToldOf

LEMMA CreateIsSilent ==
    ASSUME NEW i \in Intents, Inv, Create(i)
    PROVE  UNCHANGED <<OutcomeOf, ToldOf>>
BY DEF Create, OutcomeOf, ToldOf, Direct, Inv, TypeOK, Absent, Terminal

\* What a check or a reload does to its caller.
LEMMA HandlerAnswersOrIsSilent ==
    ASSUME NEW a \in Actors, Inv,
           CheckCancel(a) \/ CheckExecute(a) \/ ReloadCancel(a) \/ ReloadExecute(a)
    PROVE  /\ UNCHANGED intent /\ actor[a].pc # "idle"
           /\ UNCHANGED answers \/ \E answer \in Answers : Answer(a, answer)
<1>1. UNCHANGED intent /\ actor[a].pc # "idle"
  BY DEF CheckCancel, CheckExecute, ReloadCancel, ReloadExecute
<1>2. \A goal : Propose(a, goal) => UNCHANGED answers
  BY DEF Propose
<1>3. \A seen : Proceed(a, seen) => UNCHANGED answers \/ Answer(a, "started")
  BY <1>2 DEF Proceed
<1>4. CASE CheckCancel(a)
  BY <1>2, <1>4 DEF CheckCancel, Answers
<1>5. CASE CheckExecute(a)
  BY <1>2, <1>3, <1>5 DEF CheckExecute, Answers
<1>6. CASE ReloadCancel(a)
  BY <1>6 DEF ReloadCancel, Answers
<1>7. CASE ReloadExecute(a)
  BY <1>3, <1>7 DEF ReloadExecute, Answers
<1> QED
  BY <1>1, <1>4, <1>5, <1>6, <1>7

LEMMA NextRefines ==
    Inv /\ Inv' /\ [Next]_vars => Promise!Next \/ UNCHANGED <<OutcomeOf, ToldOf>>
<1> SUFFICES ASSUME Inv, Inv', [Next]_vars
             PROVE  Promise!Next \/ UNCHANGED <<OutcomeOf, ToldOf>>
  OBVIOUS
<1>1. CASE UNCHANGED vars
  BY <1>1, SilentStep DEF vars
<1>2. CASE \E i \in Intents : Create(i) \/ DeadlinePasses(i) \/ Approve(i)
  BY <1>2, CreateIsSilent, SilentStep DEF DeadlinePasses, Approve
<1>3. CASE \E a \in Actors : Write(a)
  BY <1>3, WriteIsDecide
<1>4. CASE \E a \in Actors : CheckCancel(a) \/ CheckExecute(a) \/ ReloadCancel(a)
                            \/ ReloadExecute(a)
  BY <1>4, HandlerAnswersOrIsSilent, AnswerTells, SilentStep
<1>5. CASE \E a \in Actors : \/ Authorize(a) \/ Abort(a)
                            \/ \E op \in {"cancel", "resolve"}, i \in Intents :
                                  Begin(a, op, i)
  BY <1>5, SilentStep DEF Authorize, Abort, Begin
<1> QED
  BY <1>1, <1>2, <1>3, <1>4, <1>5 DEF Next

\* Service.Cancel and PaidRouteService.Resolve implement OneOutcome: for every
\* intent that needs no approval one of execution, cancellation and expiry
\* wins, for ever, and every answer reports the winner.
THEOREM OneOutcomeImplemented == Spec => ImplementsOneOutcome
<1>1. Init => Promise!Init
  BY DEF Init, Promise!Init, OutcomeOf, ToldOf, Direct, Absent, Terminal
<1>2. Inv /\ Inv' /\ [Next]_vars => [Promise!Next]_<<OutcomeOf, ToldOf>>
  BY NextRefines
<1> QED
  BY <1>1, <1>2, IntentInvariance, PTL DEF Spec, ImplementsOneOutcome, Promise!Spec

-----------------------------------------------------------------------------
\* Browser purchase sessions

\* The purchase sessions in the store.
SessionRecords ==
    [ status : {"active", "completed"}, transaction : Purchases \cup {Nothing},
      wallet : Wallets \cup {Nothing}, grant : Grant,
      commerceExpiresAt : Nat, accessExpiresAt : Nat ]

\* The recovery challenges in the store.
ChallengeRecords ==
    [ status : {"open", "used"}, session : PurchaseSessions, wallet : Wallets,
      expiresAt : Nat ]

\* Requests that buy within a session, by control point.
CheckoutRecords ==
    {NoCheckout} \cup [ pc : {"claim", "pay", "complete", "forward"},
                        session : PurchaseSessions, transaction : Purchases ]

\* Recoveries of a session, by control point.
RecoveryRecords ==
    {NoRecovery} \cup [pc : {"write"}, challenge : Challenges, read : SessionRecords]

\* Every variable has its type.
BrowserTypeOK ==
    /\ clock \in Nat
    /\ purchaseSession \in [PurchaseSessions -> {Missing} \cup SessionRecords]
    /\ grantIndex \subseteq Grant \X PurchaseSessions
    /\ challenge \in [Challenges -> {Missing} \cup ChallengeRecords]
    /\ payer \in [Purchases -> {Nothing} \cup [wallet : Wallets, at : Nat]]
    /\ checkout \in [Checkouts -> CheckoutRecords]
    /\ recovery \in [Recoveries -> RecoveryRecords]

\* A request past its claim is one for the transaction of its session, and past
\* its payment the transaction is paid.
CheckoutOK(p) ==
    /\ checkout[p] # NoCheckout =>
         /\ checkout[p].session = SessionOf[checkout[p].transaction]
         /\ purchaseSession[checkout[p].session] # Missing
    /\ checkout[p].pc \in {"pay", "complete", "forward"} =>
         purchaseSession[checkout[p].session].transaction = checkout[p].transaction
    /\ checkout[p].pc \in {"complete", "forward"} => payer[checkout[p].transaction] # Nothing

\* A paid transaction is the one its session was claimed for.
PayerOK ==
    \A t \in Purchases : payer[t] # Nothing =>
        /\ purchaseSession[SessionOf[t]] # Missing
        /\ purchaseSession[SessionOf[t]].transaction = t

\* A completed session belongs to the wallet that paid its transaction.
CompletedOK ==
    \A s \in PurchaseSessions : purchaseSession[s].status = "completed" =>
        /\ purchaseSession[s].transaction \in Purchases
        /\ payer[purchaseSession[s].transaction] # Nothing
        /\ purchaseSession[s].wallet = payer[purchaseSession[s].transaction].wallet

\* Challenges are made for completed sessions only.
ChallengeOK ==
    \A h \in Challenges : challenge[h] # Missing =>
        purchaseSession[challenge[h].session].status = "completed"

\* What a recovery read differs from the session in the grant only.
RecoveryOK(q) ==
    recovery[q].pc = "write" =>
        LET h == recovery[q].challenge
            s == challenge[h].session
            read == recovery[q].read
        IN  /\ challenge[h] # Missing
            /\ read.status = "completed"
            /\ read.transaction = purchaseSession[s].transaction
            /\ read.wallet = purchaseSession[s].wallet

\* The index holds one grant per session, the one in the session.
GrantOK ==
    \A s \in PurchaseSessions, g \in Grant :
        <<g, s>> \in grantIndex <=> purchaseSession[s] # Missing /\ purchaseSession[s].grant = g

\* The inductive invariant of BrowserPurchase.
BrowserInv ==
    /\ BrowserTypeOK
    /\ \A p \in Checkouts : CheckoutOK(p)
    /\ PayerOK
    /\ CompletedOK
    /\ ChallengeOK
    /\ \A q \in Recoveries : RecoveryOK(q)
    /\ GrantOK

\* Nothing is stored.
LEMMA BrowserInitOK == BrowserInit => BrowserInv
<1> SUFFICES ASSUME BrowserInit PROVE BrowserInv
  OBVIOUS
<1> USE BrowserAssumption DEF BrowserInit
<1>1. BrowserTypeOK
  BY DEF BrowserTypeOK, CheckoutRecords, RecoveryRecords
<1>2. /\ \A p \in Checkouts : checkout[p] = NoCheckout /\ checkout[p].pc = "idle"
      /\ \A q \in Recoveries : recovery[q].pc = "idle"
      /\ \A s \in PurchaseSessions : purchaseSession[s] = Missing /\ purchaseSession[s].status = "missing"
  BY DEF NoCheckout, NoRecovery, Missing
<1> QED
  BY <1>1, <1>2 DEF BrowserInv, CheckoutOK, PayerOK, CompletedOK, ChallengeOK, RecoveryOK, GrantOK

\* What no step undoes, in a session and in a payment.
SessionsAdvance ==
    \A s \in PurchaseSessions :
        /\ purchaseSession[s] # Missing => purchaseSession'[s] # Missing
        /\ purchaseSession[s].status = "completed" =>
             /\ purchaseSession'[s].status = "completed"
             /\ purchaseSession'[s].wallet = purchaseSession[s].wallet
        /\ purchaseSession[s] # Missing /\ purchaseSession[s].transaction # Nothing =>
             purchaseSession'[s].transaction = purchaseSession[s].transaction

\* A payment is never taken back or replaced.
PaymentsStay == \A t \in Purchases : payer[t] # Nothing => payer'[t] = payer[t]

\* A request in progress is not disturbed by what others do.
LEMMA CheckoutKept ==
    ASSUME BrowserTypeOK, SessionsAdvance, PaymentsStay,
           NEW p \in Checkouts, checkout'[p] = checkout[p], CheckoutOK(p)
    PROVE  CheckoutOK(p)'
<1>1. CASE checkout[p] = NoCheckout
  BY <1>1 DEF CheckoutOK, NoCheckout
<1>2. CASE checkout[p] # NoCheckout
  <2>1. checkout[p].session \in PurchaseSessions /\ checkout[p].transaction \in Purchases
    BY <1>2 DEF BrowserTypeOK, CheckoutRecords
  <2>2. checkout[p].transaction # Nothing
    BY <2>1, BrowserAssumption
  <2> QED
    BY <1>2, <2>1, <2>2 DEF CheckoutOK, SessionsAdvance, PaymentsStay
<1> QED BY <1>1, <1>2

\* A payment still belongs to its session after a step that pays nothing.
LEMMA PayerKept ==
    ASSUME BrowserTypeOK, SessionsAdvance, UNCHANGED payer, PayerOK
    PROVE  PayerOK'
BY BrowserAssumption DEF PayerOK, SessionsAdvance, BrowserTypeOK

\* A session that was completed before stays in order.
LEMMA CompletedKept ==
    ASSUME BrowserTypeOK, SessionsAdvance, PaymentsStay, CompletedOK,
           \A s \in PurchaseSessions :
               purchaseSession'[s].status = "completed" => purchaseSession[s].status = "completed"
    PROVE  CompletedOK'
<1> SUFFICES ASSUME NEW s \in PurchaseSessions, purchaseSession'[s].status = "completed"
             PROVE  /\ purchaseSession'[s].transaction \in Purchases
                    /\ payer'[purchaseSession'[s].transaction] # Nothing
                    /\ purchaseSession'[s].wallet = payer'[purchaseSession'[s].transaction].wallet
  BY DEF CompletedOK
<1>1. /\ purchaseSession[s].status = "completed" /\ purchaseSession[s] # Missing
      /\ purchaseSession[s].transaction \in Purchases
      /\ purchaseSession[s].transaction # Nothing
      /\ payer[purchaseSession[s].transaction] # Nothing
      /\ purchaseSession[s].wallet = payer[purchaseSession[s].transaction].wallet
  BY BrowserAssumption DEF CompletedOK, Missing
<1>2. /\ purchaseSession'[s].transaction = purchaseSession[s].transaction
      /\ purchaseSession'[s].wallet = purchaseSession[s].wallet
  BY <1>1 DEF SessionsAdvance
<1> QED
  BY <1>1, <1>2 DEF PaymentsStay

\* A challenge that was made stays one for a completed session.
LEMMA ChallengeKept ==
    ASSUME BrowserTypeOK, SessionsAdvance, UNCHANGED challenge, ChallengeOK
    PROVE  ChallengeOK'
<1>1. \A h \in Challenges : challenge[h] # Missing => challenge[h].session \in PurchaseSessions
  BY DEF BrowserTypeOK, ChallengeRecords
<1> QED
  BY <1>1 DEF ChallengeOK, SessionsAdvance

\* A challenge keeps its session.
ChallengesStay ==
    \A h \in Challenges : challenge[h] # Missing =>
        challenge'[h] # Missing /\ challenge'[h].session = challenge[h].session

\* A recovery in progress is not disturbed by what others do.
LEMMA RecoveryKept ==
    ASSUME BrowserTypeOK, SessionsAdvance, ChallengesStay, CompletedOK, ChallengeOK,
           NEW q \in Recoveries, recovery'[q] = recovery[q], RecoveryOK(q)
    PROVE  RecoveryOK(q)'
<1> SUFFICES ASSUME recovery[q].pc = "write" PROVE RecoveryOK(q)'
  BY DEF RecoveryOK
<1> DEFINE h == recovery[q].challenge
           s == challenge[h].session
<1>1. h \in Challenges
  BY DEF BrowserTypeOK, RecoveryRecords, NoRecovery
<1>2. challenge[h] # Missing
  BY DEF RecoveryOK
<1>3. s \in PurchaseSessions /\ purchaseSession[s].status = "completed"
  BY <1>1, <1>2 DEF BrowserTypeOK, ChallengeRecords, ChallengeOK
<1>4. /\ purchaseSession'[s].transaction = purchaseSession[s].transaction
      /\ purchaseSession'[s].wallet = purchaseSession[s].wallet
  BY <1>3, BrowserAssumption DEF SessionsAdvance, CompletedOK, Missing
<1>5. challenge'[h] # Missing /\ challenge'[h].session = s
  BY <1>1, <1>2 DEF ChallengesStay
<1>6. recovery'[q].challenge = h /\ recovery'[q].read = recovery[q].read
  OBVIOUS
<1> HIDE DEF h, s
<1>7. /\ recovery[q].read.status = "completed"
      /\ recovery[q].read.transaction = purchaseSession[s].transaction
      /\ recovery[q].read.wallet = purchaseSession[s].wallet
  BY DEF RecoveryOK, h, s
<1> QED
  BY <1>4, <1>5, <1>6, <1>7 DEF RecoveryOK

\* A step that leaves the sessions alone.
LEMMA SessionsUnchanged ==
    ASSUME UNCHANGED purchaseSession
    PROVE  SessionsAdvance /\ (UNCHANGED payer => PaymentsStay)
                           /\ (UNCHANGED challenge => ChallengesStay)
BY DEF SessionsAdvance, PaymentsStay, ChallengesStay

\* A session record with one field replaced.
LEMMA OneFieldReplaced ==
    ASSUME NEW r \in SessionRecords
    PROVE  /\ \A t \in Purchases :
                /\ [r EXCEPT !.transaction = t] \in SessionRecords
                /\ [r EXCEPT !.transaction = t].transaction = t
                /\ [r EXCEPT !.transaction = t].status = r.status
                /\ [r EXCEPT !.transaction = t].grant = r.grant
                /\ [r EXCEPT !.transaction = t].wallet = r.wallet
           /\ \A g \in Grant :
                /\ [r EXCEPT !.grant = g] \in SessionRecords
                /\ [r EXCEPT !.grant = g].grant = g
                /\ [r EXCEPT !.grant = g].transaction = r.transaction
                /\ [r EXCEPT !.grant = g].status = r.status
                /\ [r EXCEPT !.grant = g].wallet = r.wallet
BY DEF SessionRecords

\* A step that replaces no grant.
LEMMA GrantsKept ==
    ASSUME GrantOK, UNCHANGED grantIndex,
           \A x \in PurchaseSessions :
               \/ purchaseSession'[x] = purchaseSession[x]
               \/ /\ purchaseSession[x] # Missing /\ purchaseSession'[x] # Missing
                  /\ purchaseSession'[x].grant = purchaseSession[x].grant
    PROVE  GrantOK'
<1> SUFFICES ASSUME NEW x \in PurchaseSessions, NEW g \in Grant
             PROVE  <<g, x>> \in grantIndex <=>
                      purchaseSession'[x] # Missing /\ purchaseSession'[x].grant = g
  BY DEF GrantOK
<1>1. <<g, x>> \in grantIndex <=> purchaseSession[x] # Missing /\ purchaseSession[x].grant = g
  BY DEF GrantOK
<1> QED BY <1>1

\* Every operation of the purchase session service keeps the invariant.
LEMMA BrowserNextOK == BrowserInv /\ [BrowserNext]_browserVars => BrowserInv'
<1> SUFFICES ASSUME BrowserInv, [BrowserNext]_browserVars
             PROVE  BrowserInv'
    OBVIOUS
<1> USE BrowserAssumption DEF BrowserInv
<1>0. ASSUME UNCHANGED purchaseSession PROVE SessionsAdvance
  BY <1>0, SessionsUnchanged
<1>k. ASSUME UNCHANGED <<purchaseSession, payer>>, BrowserTypeOK',
             \A p \in Checkouts : checkout'[p] # checkout[p] => CheckoutOK(p)',
             UNCHANGED <<challenge, recovery, grantIndex>>
      PROVE  BrowserInv'
  <2>1. SessionsAdvance /\ PaymentsStay /\ ChallengesStay
    BY <1>k, SessionsUnchanged
  <2>2. \A p \in Checkouts : CheckoutOK(p)'
    BY <1>k, <2>1, CheckoutKept
  <2>3. \A q \in Recoveries : RecoveryOK(q)'
    BY <1>k, <2>1, RecoveryKept
  <2>4. PayerOK' /\ CompletedOK' /\ ChallengeOK' /\ GrantOK'
    BY <1>k, <2>1, PayerKept, ChallengeKept DEF CompletedOK, GrantOK
  <2> QED BY <1>k, <2>2, <2>3, <2>4
<1>1. CASE ClockTicks
  BY <1>1, <1>k DEF ClockTicks, BrowserTypeOK
<1>2. ASSUME NEW s \in PurchaseSessions, NEW k \in CreationKeys, CreatePurchaseSession(s, k)
      PROVE  BrowserInv'
  <2> DEFINE rec == [status |-> "active", transaction |-> Nothing, wallet |-> Nothing,
                     grant |-> "created", commerceExpiresAt |-> clock + CommerceLifetime,
                     accessExpiresAt |-> clock + CommerceLifetime]
  <2>1. /\ purchaseSession[s] = Missing
        /\ purchaseSession' = [purchaseSession EXCEPT ![s] = rec]
        /\ grantIndex' = grantIndex \cup {<<"created", s>>}
        /\ UNCHANGED <<clock, challenge, payer, forwarded, checkout, recovery>>
    BY <1>2 DEF CreatePurchaseSession, CreationIsNew
  <2>2. "created" \in Grant
    BY DEF Grant
  <2>3. rec \in SessionRecords /\ rec.status = "active" /\ rec.grant = "created" /\ rec # Missing
    BY <2>2 DEF BrowserTypeOK, SessionRecords, Missing
  <2> HIDE DEF rec
  <2>4. \A x \in PurchaseSessions : purchaseSession'[x] = IF x = s THEN rec ELSE purchaseSession[x]
    BY <2>1 DEF BrowserTypeOK
  <2>5. BrowserTypeOK'
    BY <2>1, <2>2, <2>3 DEF BrowserTypeOK
  <2>6. SessionsAdvance /\ PaymentsStay /\ ChallengesStay
    BY <2>1, <2>3, <2>4 DEF SessionsAdvance, PaymentsStay, ChallengesStay, Missing
  <2>7. \A p \in Checkouts : CheckoutOK(p)'
    BY <2>1, <2>6, CheckoutKept
  <2>8. \A q \in Recoveries : RecoveryOK(q)'
    BY <2>1, <2>6, RecoveryKept
  <2>9. PayerOK' /\ ChallengeOK'
    BY <2>1, <2>6, PayerKept, ChallengeKept
  <2>10. CompletedOK'
    BY <2>3, <2>4, <2>6, CompletedKept
  <2>11. GrantOK'
    <3>1. ASSUME NEW x \in PurchaseSessions, NEW g \in Grant
          PROVE  <<g, x>> \in grantIndex' <=>
                   purchaseSession'[x] # Missing /\ purchaseSession'[x].grant = g
      <4>1. <<g, x>> \in grantIndex <=>
              purchaseSession[x] # Missing /\ purchaseSession[x].grant = g
        BY DEF GrantOK
      <4>2. <<g, x>> \in grantIndex' <=> <<g, x>> \in grantIndex \/ (g = "created" /\ x = s)
        BY <2>1
      <4> QED BY <2>1, <2>3, <2>4, <4>1, <4>2
    <3> QED BY <3>1 DEF GrantOK
  <2> QED BY <2>5, <2>7, <2>8, <2>9, <2>10, <2>11
<1>3. ASSUME NEW s \in PurchaseSessions, NEW h \in Challenges, NEW w \in Wallets,
             CreateRecoveryChallenge(h, s, w)
      PROVE  BrowserInv'
  <2> DEFINE rec == [status |-> "open", session |-> s, wallet |-> w, expiresAt |-> clock + 1]
  <2>1. /\ challenge[h] = Missing /\ purchaseSession[s].status = "completed"
        /\ challenge' = [challenge EXCEPT ![h] = rec]
        /\ UNCHANGED <<clock, purchaseSession, grantIndex, payer, forwarded, checkout, recovery>>
    BY <1>3 DEF CreateRecoveryChallenge, CanRecover
  <2>2. rec \in ChallengeRecords /\ rec.session = s /\ rec # Missing
    BY DEF BrowserTypeOK, ChallengeRecords, Missing
  <2> HIDE DEF rec
  <2>3. \A x \in Challenges : challenge'[x] = IF x = h THEN rec ELSE challenge[x]
    BY <2>1 DEF BrowserTypeOK
  <2>4. BrowserTypeOK'
    BY <2>1, <2>2 DEF BrowserTypeOK
  <2>5. SessionsAdvance /\ PaymentsStay /\ ChallengesStay
    BY <2>1, <2>2, <2>3, SessionsUnchanged DEF ChallengesStay
  <2>6. \A p \in Checkouts : CheckoutOK(p)'
    BY <2>1, <2>5, CheckoutKept
  <2>7. \A q \in Recoveries : RecoveryOK(q)'
    BY <2>1, <2>5, RecoveryKept
  <2>8. PayerOK' /\ CompletedOK' /\ GrantOK'
    BY <2>1, <2>5, PayerKept DEF CompletedOK, GrantOK
  <2>9. ChallengeOK'
    BY <2>1, <2>2, <2>3 DEF ChallengeOK
  <2> QED BY <2>4, <2>6, <2>7, <2>8, <2>9
<1>4. ASSUME NEW p \in Checkouts, NEW t \in Purchases, BeginCheckout(p, t)
      PROVE  BrowserInv'
  <2> DEFINE rec == [pc |-> "claim", session |-> SessionOf[t], transaction |-> t]
  <2>1. /\ checkout' = [checkout EXCEPT ![p] = rec]
        /\ purchaseSession[SessionOf[t]].status = "active"
        /\ UNCHANGED <<clock, purchaseSession, creation, grantIndex, challenge, payer,
                       forwarded, recovery>>
    BY <1>4 DEF BeginCheckout, AuthorizeCommerce
  <2>2. rec \in CheckoutRecords /\ rec.session = SessionOf[rec.transaction] /\ rec.pc = "claim"
        /\ rec.session = SessionOf[t]
    BY DEF CheckoutRecords
  <2> HIDE DEF rec
  <2>3. \A x \in Checkouts : checkout'[x] = IF x = p THEN rec ELSE checkout[x]
    BY <2>1 DEF BrowserTypeOK
  <2>4. BrowserTypeOK'
    BY <2>1, <2>2 DEF BrowserTypeOK
  <2>5. CheckoutOK(p)'
    <3>1. purchaseSession'[SessionOf[t]] # Missing
      BY <2>1 DEF Missing
    <3> QED BY <2>2, <2>3, <3>1 DEF CheckoutOK
  <2> QED BY <1>k, <2>1, <2>3, <2>4, <2>5
<1>5. ASSUME NEW p \in Checkouts, StopCheckout(p)
      PROVE  BrowserInv'
  <2>1. /\ checkout' = [checkout EXCEPT ![p] = NoCheckout]
        /\ UNCHANGED <<clock, purchaseSession, creation, grantIndex, challenge, payer,
                       forwarded, recovery>>
    BY <1>5 DEF StopCheckout, EndCheckout
  <2>2. BrowserTypeOK'
    BY <2>1 DEF BrowserTypeOK, CheckoutRecords
  <2>3. \A x \in Checkouts : checkout'[x] = IF x = p THEN NoCheckout ELSE checkout[x]
    BY <2>1 DEF BrowserTypeOK
  <2>4. CheckoutOK(p)'
    BY <2>3 DEF CheckoutOK, NoCheckout
  <2> QED BY <1>k, <2>1, <2>2, <2>3, <2>4
<1>6. ASSUME NEW p \in Checkouts, Forward(p)
      PROVE  BrowserInv'
  <2>1. /\ checkout' = [checkout EXCEPT ![p] = NoCheckout]
        /\ UNCHANGED <<clock, purchaseSession, creation, grantIndex, challenge, payer, recovery>>
    BY <1>6 DEF Forward, EndCheckout
  <2>2. BrowserTypeOK'
    BY <2>1 DEF BrowserTypeOK, CheckoutRecords
  <2>3. \A x \in Checkouts : checkout'[x] = IF x = p THEN NoCheckout ELSE checkout[x]
    BY <2>1 DEF BrowserTypeOK
  <2>4. CheckoutOK(p)'
    BY <2>3 DEF CheckoutOK, NoCheckout
  <2> QED BY <1>k, <2>1, <2>2, <2>3, <2>4
\* The record of a request in progress, with its program counter replaced.
<1>m. ASSUME NEW p \in Checkouts, checkout[p] # NoCheckout,
             NEW next \in {"pay", "complete", "forward"}
      PROVE  /\ checkout[p].session \in PurchaseSessions /\ checkout[p].transaction \in Purchases
             /\ [checkout[p] EXCEPT !.pc = next] \in CheckoutRecords
             /\ [checkout[p] EXCEPT !.pc = next].pc = next
             /\ [checkout[p] EXCEPT !.pc = next].session = checkout[p].session
             /\ [checkout[p] EXCEPT !.pc = next].transaction = checkout[p].transaction
  <2> DEFINE rec == checkout[p]
  <2>1. rec \in [ pc : {"claim", "pay", "complete", "forward"},
                  session : PurchaseSessions, transaction : Purchases ]
    BY <1>m DEF BrowserTypeOK, CheckoutRecords
  <2> HIDE DEF rec
  <2>2. /\ rec.session \in PurchaseSessions /\ rec.transaction \in Purchases
        /\ [rec EXCEPT !.pc = next] \in CheckoutRecords
        /\ [rec EXCEPT !.pc = next].pc = next
        /\ [rec EXCEPT !.pc = next].session = rec.session
        /\ [rec EXCEPT !.pc = next].transaction = rec.transaction
    BY <1>m, <2>1 DEF CheckoutRecords
  <2> QED BY <2>2 DEF rec
<1>7. ASSUME NEW p \in Checkouts, PaidBefore(p)
      PROVE  BrowserInv'
  <2>1. PICK next \in {"complete", "forward"} : checkout' = [checkout EXCEPT ![p].pc = next]
    BY <1>7 DEF PaidBefore
  <2>2. /\ checkout[p].pc = "pay" /\ checkout[p] # NoCheckout
        /\ payer[checkout[p].transaction] # Nothing
        /\ UNCHANGED <<clock, purchaseSession, creation, grantIndex, challenge, payer,
                       forwarded, recovery>>
    BY <1>7 DEF PaidBefore, AtCheckout, NoCheckout
  <2> DEFINE rec == [checkout[p] EXCEPT !.pc = next]
  <2>3. /\ rec \in CheckoutRecords /\ rec.session = checkout[p].session
        /\ rec.transaction = checkout[p].transaction
    BY <1>m, <2>2
  <2>4. \A x \in Checkouts : checkout'[x] = IF x = p THEN rec ELSE checkout[x]
    BY <2>1 DEF BrowserTypeOK
  <2>5. checkout' \in [Checkouts -> CheckoutRecords]
    BY <2>1, <2>3 DEF BrowserTypeOK
  <2> HIDE DEF rec
  <2>6. BrowserTypeOK'
    BY <2>2, <2>5 DEF BrowserTypeOK
  <2>7. CheckoutOK(p)'
    BY <2>2, <2>3, <2>4 DEF CheckoutOK
  <2> QED BY <1>k, <2>2, <2>4, <2>6, <2>7
<1>8. ASSUME NEW p \in Checkouts, NEW w \in Wallets, Pay(p, w)
      PROVE  BrowserInv'
  <2> DEFINE s == checkout[p].session
             t == checkout[p].transaction
             rec == [checkout[p] EXCEPT !.pc = "complete"]
             paid == [wallet |-> w, at |-> clock]
  <2>1. /\ checkout[p].pc = "pay" /\ checkout[p] # NoCheckout /\ payer[t] = Nothing
        /\ payer' = [payer EXCEPT ![t] = paid]
        /\ checkout' = [checkout EXCEPT ![p] = rec]
        /\ UNCHANGED <<clock, purchaseSession, creation, grantIndex, challenge, forwarded, recovery>>
    BY <1>8 DEF Pay, AtCheckout, NoCheckout
  <2>2. /\ s \in PurchaseSessions /\ t \in Purchases
        /\ rec \in CheckoutRecords /\ rec.session = s /\ rec.transaction = t
    BY <1>m, <2>1
  <2>3. paid \in [wallet : Wallets, at : Nat] /\ paid # Nothing
    BY DEF BrowserTypeOK
  <2>4. s = SessionOf[t] /\ purchaseSession[s] # Missing /\ purchaseSession[s].transaction = t
    BY <2>1 DEF CheckoutOK
  <2> HIDE DEF s, t, rec, paid
  <2>5. /\ \A x \in Checkouts : checkout'[x] = IF x = p THEN rec ELSE checkout[x]
        /\ \A x \in Purchases : payer'[x] = IF x = t THEN paid ELSE payer[x]
    BY <2>1 DEF BrowserTypeOK
  <2>6. BrowserTypeOK'
    BY <2>1, <2>2, <2>3 DEF BrowserTypeOK
  <2>7. SessionsAdvance /\ PaymentsStay /\ ChallengesStay
    BY <2>1, <2>5, SessionsUnchanged DEF PaymentsStay
  <2>8. ASSUME NEW x \in Checkouts PROVE CheckoutOK(x)'
    <3>1. CASE x # p
      BY <2>5, <2>7, <3>1, CheckoutKept
    <3>2. CASE x = p
      BY <2>1, <2>2, <2>3, <2>4, <2>5, <3>2 DEF CheckoutOK
    <3> QED BY <3>1, <3>2
  <2>9. \A q \in Recoveries : RecoveryOK(q)'
    BY <2>1, <2>7, RecoveryKept
  <2>10. PayerOK'
    BY <2>1, <2>2, <2>4, <2>5 DEF PayerOK
  <2>11. CompletedOK'
    BY <2>1, <2>7, CompletedKept
  <2>12. ChallengeOK' /\ GrantOK'
    BY <2>1, <2>7, ChallengeKept DEF GrantOK
  <2> QED BY <2>6, <2>8, <2>9, <2>10, <2>11, <2>12
<1>9. ASSUME NEW p \in Checkouts, ClaimTransaction(p)
      PROVE  BrowserInv'
  <2> DEFINE s == checkout[p].session
             t == checkout[p].transaction
             rec == [checkout[p] EXCEPT !.pc = "pay"]
             session == [purchaseSession[s] EXCEPT !.transaction = t]
  <2>1. /\ checkout[p].pc = "claim" /\ checkout[p] # NoCheckout
        /\ purchaseSession[s].status = "active"
        /\ purchaseSession[s].transaction \in {Nothing, t}
        /\ purchaseSession' = [purchaseSession EXCEPT ![s] = session]
        /\ checkout' = [checkout EXCEPT ![p] = rec]
        /\ UNCHANGED <<clock, creation, grantIndex, challenge, payer, forwarded, recovery>>
    BY <1>9 DEF ClaimTransaction, AtCheckout, CanClaim, NoCheckout
  <2>2. /\ s \in PurchaseSessions /\ t \in Purchases
        /\ rec \in CheckoutRecords /\ rec.session = s /\ rec.transaction = t /\ rec.pc = "pay"
    BY <1>m, <2>1
  <2>3. s = SessionOf[t]
    BY <2>1 DEF CheckoutOK
  <2>4. purchaseSession[s] \in SessionRecords /\ purchaseSession[s] # Missing
    BY <2>1, <2>2 DEF BrowserTypeOK, Missing
  <2>5. /\ session \in SessionRecords /\ session.transaction = t
        /\ session.status = "active" /\ session.grant = purchaseSession[s].grant
    BY <2>1, <2>2, <2>4, OneFieldReplaced
  <2>n. session # Missing
    BY <2>5 DEF Missing
  <2> HIDE DEF s, t, rec, session
  <2>6. /\ \A x \in Checkouts : checkout'[x] = IF x = p THEN rec ELSE checkout[x]
        /\ \A x \in PurchaseSessions : purchaseSession'[x] = IF x = s THEN session ELSE purchaseSession[x]
    BY <2>1 DEF BrowserTypeOK
  <2>7. BrowserTypeOK'
    BY <2>1, <2>2, <2>5 DEF BrowserTypeOK
  <2>8. SessionsAdvance /\ PaymentsStay /\ ChallengesStay
    BY <2>1, <2>5, <2>n, <2>6 DEF SessionsAdvance, PaymentsStay, ChallengesStay
  <2>9. ASSUME NEW x \in Checkouts PROVE CheckoutOK(x)'
    <3>1. CASE x # p
      BY <2>6, <2>8, <3>1, CheckoutKept
    <3>2. CASE x = p
      BY <2>2, <2>3, <2>5, <2>n, <2>6, <3>2 DEF CheckoutOK
    <3> QED BY <3>1, <3>2
  <2>10. \A q \in Recoveries : RecoveryOK(q)'
    BY <2>1, <2>8, RecoveryKept
  <2>11. PayerOK' /\ ChallengeOK'
    BY <2>1, <2>8, PayerKept, ChallengeKept
  <2>12. CompletedOK'
    BY <2>5, <2>6, <2>8, CompletedKept
  <2>13. GrantOK'
    BY <2>1, <2>4, <2>5, <2>n, <2>6, GrantsKept
  <2> QED BY <2>7, <2>9, <2>10, <2>11, <2>12, <2>13
<1>10. ASSUME NEW p \in Checkouts, CompletePurchase(p)
      PROVE  BrowserInv'
  <2> DEFINE s == checkout[p].session
             t == checkout[p].transaction
             rec == [checkout[p] EXCEPT !.pc = "forward"]
  <2>1. /\ checkout[p].pc = "complete" /\ checkout[p] # NoCheckout
        /\ checkout' = [checkout EXCEPT ![p] = rec]
        /\ UNCHANGED <<clock, creation, grantIndex, challenge, payer, forwarded, recovery>>
    BY <1>10 DEF CompletePurchase, AtCheckout, NoCheckout
  <2>2. /\ s \in PurchaseSessions /\ t \in Purchases
        /\ rec \in CheckoutRecords /\ rec.session = s /\ rec.transaction = t /\ rec.pc = "forward"
    BY <1>m, <2>1
  <2>3. /\ s = SessionOf[t] /\ purchaseSession[s] # Missing /\ payer[t] # Nothing
        /\ purchaseSession[s].transaction = t
    BY <2>1 DEF CheckoutOK
  <2>4. \A x \in Checkouts : checkout'[x] = IF x = p THEN rec ELSE checkout[x]
    BY <2>1 DEF BrowserTypeOK
  <2>5. purchaseSession[s] \in SessionRecords
    BY <2>2, <2>3 DEF BrowserTypeOK
  <2>6. payer[t] \in [wallet : Wallets, at : Nat]
    BY <2>2, <2>3 DEF BrowserTypeOK
  <2>7. CASE UNCHANGED purchaseSession
    <3> HIDE DEF s, t, rec
    <3>1. BrowserTypeOK'
      BY <2>1, <2>2, <2>7 DEF BrowserTypeOK
    <3>2. CheckoutOK(p)'
      BY <2>1, <2>2, <2>3, <2>4, <2>7 DEF CheckoutOK
    <3> QED BY <1>k, <2>1, <2>4, <2>7, <3>1, <3>2
  <2>8. ASSUME CanComplete(s, t),
               purchaseSession' = [purchaseSession EXCEPT
                    ![s].status = "completed", ![s].wallet = payer[t].wallet,
                    ![s].accessExpiresAt = payer[t].at + AccessLifetime]
        PROVE  BrowserInv'
    <3> DEFINE before == purchaseSession[s]
               wallet == payer[t].wallet
               expires == payer[t].at + AccessLifetime
               session == [[[before EXCEPT !.status = "completed"] EXCEPT !.wallet = wallet]
                             EXCEPT !.accessExpiresAt = expires]
    <3>1. purchaseSession' = [purchaseSession EXCEPT ![s] = session]
      BY <2>2, <2>5, <2>8 DEF BrowserTypeOK
    <3>2. before \in SessionRecords /\ wallet \in Wallets /\ expires \in Nat
      BY <2>5, <2>6
    <3>3. before.status = "active" /\ before.transaction = t
      BY <2>3, <2>8 DEF CanComplete, CommerceOpen
    <3> HIDE DEF before, wallet, expires
    <3>4. /\ session \in SessionRecords /\ session.transaction = before.transaction
          /\ session.status = "completed" /\ session.grant = before.grant /\ session.wallet = wallet
      BY <3>2 DEF SessionRecords
    <3>n. session # Missing
      BY <3>4 DEF Missing
    <3> HIDE DEF s, t, rec, session
    <3>5. \A x \in PurchaseSessions : purchaseSession'[x] = IF x = s THEN session ELSE purchaseSession[x]
      BY <3>1 DEF BrowserTypeOK
    <3>6. BrowserTypeOK'
      BY <2>1, <2>2, <3>1, <3>4 DEF BrowserTypeOK
    <3>7. SessionsAdvance /\ PaymentsStay /\ ChallengesStay
      BY <2>1, <3>3, <3>4, <3>n, <3>5 DEF SessionsAdvance, PaymentsStay, ChallengesStay, before
    <3>8. ASSUME NEW x \in Checkouts PROVE CheckoutOK(x)'
      <4>1. CASE x # p
        BY <2>4, <3>7, <4>1, CheckoutKept
      <4>2. CASE x = p
        BY <2>1, <2>2, <2>3, <2>4, <3>3, <3>4, <3>n, <3>5, <4>2 DEF CheckoutOK
      <4> QED BY <4>1, <4>2
    <3>9. \A q \in Recoveries : RecoveryOK(q)'
      BY <2>1, <3>7, RecoveryKept
    <3>10. PayerOK' /\ ChallengeOK'
      BY <2>1, <3>7, PayerKept, ChallengeKept
    <3>11. CompletedOK'
      BY <2>1, <2>2, <2>3, <3>3, <3>4, <3>5 DEF CompletedOK, wallet
    <3>12. GrantOK'
      BY <2>1, <2>3, <3>4, <3>n, <3>5, GrantsKept DEF before
    <3> QED BY <3>6, <3>8, <3>9, <3>10, <3>11, <3>12
  <2> QED
    BY <1>10, <2>7, <2>8 DEF CompletePurchase
<1>11. ASSUME NEW q \in Recoveries, NEW h \in Challenges, NEW w \in Wallets,
              BeginRecovery(q, h, w)
      PROVE  BrowserInv'
  <2> DEFINE s == challenge[h].session
             rec == [pc |-> "write", challenge |-> h, read |-> purchaseSession[s]]
  <2>1. /\ challenge[h].status = "open" /\ purchaseSession[s].status = "completed"
        /\ recovery' = [recovery EXCEPT ![q] = rec]
        /\ UNCHANGED <<clock, purchaseSession, creation, grantIndex, challenge, payer,
                       forwarded, checkout>>
    BY <1>11 DEF BeginRecovery, CanRecover
  <2>2. challenge[h] # Missing /\ s \in PurchaseSessions
    BY <2>1 DEF BrowserTypeOK, ChallengeRecords, Missing
  <2>3. purchaseSession[s] \in SessionRecords
    BY <2>1, <2>2 DEF BrowserTypeOK, Missing
  <2>4. rec \in RecoveryRecords /\ rec.challenge = h /\ rec.read = purchaseSession[s]
    BY <2>3 DEF RecoveryRecords
  <2> HIDE DEF rec
  <2>5. \A x \in Recoveries : recovery'[x] = IF x = q THEN rec ELSE recovery[x]
    BY <2>1 DEF BrowserTypeOK
  <2>6. BrowserTypeOK'
    BY <2>1, <2>4 DEF BrowserTypeOK
  <2>7. SessionsAdvance /\ PaymentsStay /\ ChallengesStay
    BY <2>1, SessionsUnchanged
  <2>8. \A p \in Checkouts : CheckoutOK(p)'
    BY <2>1, <2>7, CheckoutKept
  <2>9. ASSUME NEW x \in Recoveries PROVE RecoveryOK(x)'
    <3>1. CASE x # q
      BY <2>5, <2>7, <3>1, RecoveryKept
    <3>2. CASE x = q
      BY <2>1, <2>2, <2>4, <2>5, <3>2 DEF RecoveryOK
    <3> QED BY <3>1, <3>2
  <2>10. PayerOK' /\ ChallengeOK' /\ CompletedOK' /\ GrantOK'
    BY <2>1, <2>7, PayerKept, ChallengeKept DEF CompletedOK, GrantOK
  <2> QED BY <2>6, <2>8, <2>9, <2>10
<1>12. ASSUME NEW q \in Recoveries, StopRecovery(q)
      PROVE  BrowserInv'
  <2>1. /\ recovery' = [recovery EXCEPT ![q] = NoRecovery]
        /\ UNCHANGED <<clock, purchaseSession, creation, grantIndex, challenge, payer,
                       forwarded, checkout>>
    BY <1>12 DEF StopRecovery
  <2>2. \A x \in Recoveries : recovery'[x] = IF x = q THEN NoRecovery ELSE recovery[x]
    BY <2>1 DEF BrowserTypeOK
  <2>3. BrowserTypeOK'
    BY <2>1 DEF BrowserTypeOK, RecoveryRecords
  <2>4. SessionsAdvance /\ PaymentsStay /\ ChallengesStay
    BY <2>1, SessionsUnchanged
  <2>5. \A p \in Checkouts : CheckoutOK(p)'
    BY <2>1, <2>4, CheckoutKept
  <2>6. ASSUME NEW x \in Recoveries PROVE RecoveryOK(x)'
    <3>1. CASE x # q
      BY <2>2, <2>4, <3>1, RecoveryKept
    <3>2. CASE x = q
      BY <2>2, <3>2 DEF RecoveryOK, NoRecovery
    <3> QED BY <3>1, <3>2
  <2>7. PayerOK' /\ ChallengeOK' /\ CompletedOK' /\ GrantOK'
    BY <2>1, <2>4, PayerKept, ChallengeKept DEF CompletedOK, GrantOK
  <2> QED BY <2>3, <2>5, <2>6, <2>7
<1>13. ASSUME NEW q \in Recoveries, FinishRecovery(q)
      PROVE  BrowserInv'
  <2> DEFINE h == recovery[q].challenge
             s == challenge[h].session
             read == recovery[q].read
             previous == read.grant
             session == [read EXCEPT !.grant = h]
             used == [challenge[h] EXCEPT !.status = "used"]
  <2>1. /\ recovery[q].pc = "write"
        /\ purchaseSession[s].status = "completed" /\ purchaseSession[s].grant = previous
        /\ challenge[h].status = "open"
        /\ purchaseSession' = [purchaseSession EXCEPT ![s] = session]
        /\ grantIndex' = (grantIndex \ {<<previous, s>>}) \cup {<<h, s>>}
        /\ challenge' = [challenge EXCEPT ![h] = used]
        /\ recovery' = [recovery EXCEPT ![q] = NoRecovery]
        /\ UNCHANGED <<clock, creation, payer, forwarded, checkout>>
    BY <1>13 DEF FinishRecovery, RecoverHolds
  <2>2. h \in Challenges /\ read \in SessionRecords
    BY <2>1 DEF BrowserTypeOK, RecoveryRecords, NoRecovery
  <2>3. challenge[h] \in ChallengeRecords /\ challenge[h] # Missing
    BY <2>1, <2>2 DEF BrowserTypeOK, Missing
  <2>4. s \in PurchaseSessions
    BY <2>3 DEF ChallengeRecords
  <2>5. /\ read.status = "completed" /\ read.transaction = purchaseSession[s].transaction
        /\ read.wallet = purchaseSession[s].wallet
    BY <2>1 DEF RecoveryOK
  <2>6. purchaseSession[s] \in SessionRecords /\ purchaseSession[s] # Missing
    BY <2>1, <2>4 DEF BrowserTypeOK, Missing
  <2>7. h \in Grant
    BY <2>2 DEF Grant
  <2>8. /\ session \in SessionRecords /\ session.grant = h /\ session.status = "completed"
        /\ session.transaction = purchaseSession[s].transaction
        /\ session.wallet = purchaseSession[s].wallet
    <3> HIDE DEF h, read
    <3> QED BY <2>2, <2>5, <2>7, OneFieldReplaced
  <2>n. session # Missing
    BY <2>8 DEF Missing
  <2>9. used \in ChallengeRecords /\ used.session = s /\ used # Missing
    <3> DEFINE rec == challenge[h]
    <3>1. rec \in ChallengeRecords
      BY <2>3
    <3> HIDE DEF rec
    <3>2. /\ [rec EXCEPT !.status = "used"] \in ChallengeRecords
          /\ [rec EXCEPT !.status = "used"].session = rec.session
          /\ [rec EXCEPT !.status = "used"].status = "used"
      BY <3>1 DEF ChallengeRecords
    <3> QED BY <3>2 DEF rec, Missing
  <2> HIDE DEF h, s, read, previous, session, used
  <2>10. /\ \A x \in PurchaseSessions : purchaseSession'[x] = IF x = s THEN session ELSE purchaseSession[x]
         /\ \A x \in Challenges : challenge'[x] = IF x = h THEN used ELSE challenge[x]
         /\ \A x \in Recoveries : recovery'[x] = IF x = q THEN NoRecovery ELSE recovery[x]
    BY <2>1 DEF BrowserTypeOK
  <2>11. BrowserTypeOK'
    <3>1. purchaseSession' \in [PurchaseSessions -> {Missing} \cup SessionRecords]
      BY <2>1, <2>8 DEF BrowserTypeOK
    <3>2. grantIndex' \subseteq Grant \X PurchaseSessions
      BY <2>1, <2>4, <2>7 DEF BrowserTypeOK
    <3>3. challenge' \in [Challenges -> {Missing} \cup ChallengeRecords]
      BY <2>1, <2>9 DEF BrowserTypeOK
    <3>4. recovery' \in [Recoveries -> RecoveryRecords]
      BY <2>1 DEF BrowserTypeOK, RecoveryRecords
    <3> QED BY <2>1, <3>1, <3>2, <3>3, <3>4 DEF BrowserTypeOK
  <2>12. SessionsAdvance /\ PaymentsStay
    BY <2>1, <2>8, <2>n, <2>10 DEF SessionsAdvance, PaymentsStay
  <2>13. ChallengesStay
    BY <2>9, <2>10 DEF ChallengesStay, s
  <2>14. \A p \in Checkouts : CheckoutOK(p)'
    BY <2>1, <2>12, CheckoutKept
  <2>15. ASSUME NEW x \in Recoveries PROVE RecoveryOK(x)'
    <3>1. CASE x # q
      BY <2>10, <2>12, <2>13, <3>1, RecoveryKept
    <3>2. CASE x = q
      BY <2>10, <3>2 DEF RecoveryOK, NoRecovery
    <3> QED BY <3>1, <3>2
  <2>16. PayerOK'
    BY <2>1, <2>12, PayerKept
  <2>17. CompletedOK'
    BY <2>1, <2>10, <2>12, CompletedKept
  <2>18. ChallengeOK'
    <3>1. ASSUME NEW x \in Challenges, challenge'[x] # Missing
          PROVE  purchaseSession'[challenge'[x].session].status = "completed"
      <4>1. challenge[x] # Missing /\ challenge'[x].session = challenge[x].session
        BY <2>3, <2>9, <2>10, <3>1 DEF s
      <4>2. challenge[x].session \in PurchaseSessions
        BY <4>1 DEF BrowserTypeOK, ChallengeRecords
      <4> QED BY <2>12, <4>1, <4>2 DEF ChallengeOK, SessionsAdvance
    <3> QED BY <3>1 DEF ChallengeOK
  <2>19. GrantOK'
    <3>1. ASSUME NEW x \in PurchaseSessions, NEW g \in Grant
          PROVE  <<g, x>> \in grantIndex' <=>
                   purchaseSession'[x] # Missing /\ purchaseSession'[x].grant = g
      <4>1. CASE x # s
        BY <2>1, <2>10, <4>1 DEF GrantOK
      <4>2. CASE x = s
        <5>1. <<g, s>> \in grantIndex => g = previous
          BY <2>1, <2>4, <2>6 DEF GrantOK
        <5>2. <<g, s>> \in grantIndex' <=> g = h
          BY <2>1, <5>1
        <5> QED BY <2>4, <2>8, <2>n, <2>10, <4>2, <5>2
      <4> QED BY <4>1, <4>2
    <3> QED BY <3>1 DEF GrantOK
  <2> QED BY <2>11, <2>14, <2>15, <2>16, <2>17, <2>18, <2>19
<1>14. CASE UNCHANGED browserVars
  BY <1>14, <1>k DEF browserVars, BrowserTypeOK
<1> QED
  BY <1>1, <1>2, <1>3, <1>4, <1>5, <1>6, <1>7, <1>8, <1>9, <1>10, <1>11, <1>12, <1>13, <1>14
  DEF BrowserNext

\* A session pays for one transaction, the one it is claimed for, and is bound
\* to the wallet that paid: two tabs, retries and recoveries never make
\* ClaimTransaction, the payment and Complete pay for another one.
THEOREM OnePurchasePerSession == BrowserSpec => []SessionPaysOnce
<1>1. BrowserInv => SessionPaysOnce
  BY DEF BrowserInv, PayerOK, CompletedOK, SessionPaysOnce
<1> QED
  BY <1>1, BrowserInitOK, BrowserNextOK, PTL DEF BrowserSpec

\* One grant opens a session at any time: the recovery by the paying wallet
\* replaces the grant in the session and in the index together.
THEOREM OneGrantPerSession == BrowserSpec => []OneGrantOpensSession
<1>1. BrowserInv => OneGrantOpensSession
  <2> SUFFICES ASSUME BrowserInv, NEW s \in PurchaseSessions, purchaseSession[s] # Missing
               PROVE  {g \in Grant : <<g, s>> \in grantIndex} = {purchaseSession[s].grant}
    BY DEF OneGrantOpensSession
  <2>1. purchaseSession[s].grant \in Grant
    BY DEF BrowserInv, BrowserTypeOK, SessionRecords
  <2> QED BY <2>1 DEF BrowserInv, GrantOK
<1> QED
  BY <1>1, BrowserInitOK, BrowserNextOK, PTL DEF BrowserSpec

-----------------------------------------------------------------------------
\* Requests and their keys

\* What a request may be told.
Replies == HTTPRequests \cup {Refusal}

\* The calls of the interface, by control point.
HTTPRecords ==
    {NoCall} \cup [pc : {"check", "execute"}, request : HTTPRequests, key : Keys, late : BOOLEAN]
             \cup [pc : {"save"}, request : HTTPRequests, key : Keys, late : BOOLEAN,
                   result : Replies]
             \cup [pc : {"answered"}, result : Replies]

\* Calls and answers have their types.
GatewayTypeOK ==
    /\ call \in [HTTPCalls -> HTTPRecords]
    /\ \A i \in records : i.result \in Replies
    /\ \A e \in effects : e.request \in HTTPRequests

\* The record that a late request met is still there, and ends it at the check.
LateOK(c) ==
    /\ call[c].pc = "check" /\ call[c].late =>
         RecordOf(call[c].request, call[c].key) # {}
    /\ call[c].pc \in {"execute", "save"} => ~call[c].late

\* The invariant of the requests.
KeyInv == GatewayTypeOK /\ \A c \in HTTPCalls : LateOK(c)

\* Records stay, and no request changes its handler.
LEMMA GatewayMoves ==
    ASSUME GatewayNext
    PROVE  /\ handler' = handler /\ records \subseteq records'
           /\ \A r, key : RecordOf(r, key) \subseteq RecordOf(r, key)'
<1>1. handler' = handler /\ records \subseteq records'
  BY DEF GatewayNext, Middleware, CheckIdempotency, Execute, SaveIdempotency, CutOff
<1> QED BY <1>1 DEF RecordOf, Scope, H

\* A request that is under way keeps its part of the invariant while others step.
LEMMA LateKept ==
    ASSUME GatewayNext, NEW d \in HTTPCalls, LateOK(d), call'[d] = call[d]
    PROVE  LateOK(d)'
BY GatewayMoves DEF LateOK

\* The step of one request, in its own slot.
LEMMA CallSet ==
    ASSUME GatewayTypeOK, NEW c \in HTTPCalls, NEW s \in HTTPRecords,
           call' = [call EXCEPT ![c] = s]
    PROVE  /\ call'[c] = s /\ \A d \in HTTPCalls \ {c} : call'[d] = call[d]
           /\ call' \in [HTTPCalls -> HTTPRecords]
BY DEF GatewayTypeOK

\* The answer to one request.
LEMMA AnswerSet ==
    ASSUME GatewayTypeOK, NEW c \in HTTPCalls, NEW x \in Replies, AnswerCall(c, x)
    PROVE  /\ call'[c] = [pc |-> "answered", result |-> x]
           /\ \A d \in HTTPCalls \ {c} : call'[d] = call[d]
           /\ call' \in [HTTPCalls -> HTTPRecords]
<1>1. [pc |-> "answered", result |-> x] \in HTTPRecords
  BY DEF HTTPRecords
<1> QED BY <1>1, CallSet DEF AnswerCall

\* One step of the request c.
LEMMA CallStep ==
    ASSUME KeyInv, GatewayNext, NEW c \in HTTPCalls,
           \/ \E r \in HTTPRequests, key \in Keys : Middleware(c, r, key)
           \/ CheckIdempotency(c) \/ Execute(c) \/ SaveIdempotency(c) \/ CutOff(c)
    PROVE  /\ KeyInv'
           /\ \A d \in HTTPCalls \ {c} : call'[d] = call[d]
           /\ call[c].pc \in {"check", "execute", "save"} /\ call[c].late =>
                /\ effects' = effects
                /\ call'[c].pc = "answered"
                /\ call'[c].result \in {Refusal} \cup
                     {i.result : i \in RecordOf(call[c].request, call[c].key)}
<1>1. GatewayTypeOK /\ LateOK(c) /\ call[c] \in HTTPRecords /\ Refusal \in Replies
  BY DEF KeyInv, GatewayTypeOK, Replies
<1>2. ASSUME \A d \in HTTPCalls \ {c} : call'[d] = call[d], GatewayTypeOK', LateOK(c)'
      PROVE  KeyInv'
  BY <1>2, LateKept DEF KeyInv
<1>3. ASSUME NEW r \in HTTPRequests, NEW key \in Keys, Middleware(c, r, key)
      PROVE  /\ KeyInv' /\ \A d \in HTTPCalls \ {c} : call'[d] = call[d]
             /\ call[c].pc \notin {"check", "execute", "save"}
  <2>1. PICK met \in BOOLEAN : met = (RecordOf(r, key) # {})
    OBVIOUS
  <2>2. PICK s : s = [pc |-> "check", request |-> r, key |-> key, late |-> met]
    OBVIOUS
  <2>3. s \in HTTPRecords
    BY <2>1, <2>2 DEF HTTPRecords
  <2>4. call' = [call EXCEPT ![c] = s] /\ call[c] = NoCall
    BY <1>3, <2>1, <2>2 DEF Middleware
  <2>5. /\ call'[c] = s /\ \A d \in HTTPCalls \ {c} : call'[d] = call[d]
        /\ call' \in [HTTPCalls -> HTTPRecords]
    BY <1>1, <2>3, <2>4, CallSet
  <2>6. RecordOf(r, key)' = RecordOf(r, key)
    BY <1>3 DEF Middleware, RecordOf, Scope, H
  <2>7. LateOK(c)'
    <3>1. /\ call'[c].pc = "check" /\ call'[c].late = met
          /\ call'[c].request = r /\ call'[c].key = key
      BY <2>2, <2>5
    <3>2. met => RecordOf(r, key)' # {}
      BY <2>1, <2>6
    <3>3. LateOK(c)' <=> (met => RecordOf(r, key)' # {})
      BY ONLY <3>1, Zenon DEF LateOK
    <3> QED BY <3>2, <3>3
  <2>8. GatewayTypeOK'
    BY <1>1, <1>3, <2>5 DEF GatewayTypeOK, Middleware
  <2> QED BY <1>2, <2>4, <2>5, <2>7, <2>8 DEF NoCall
<1>4. ASSUME NEW x \in Replies, AnswerCall(c, x), \A i \in records' : i.result \in Replies,
             \A e \in effects' : e.request \in HTTPRequests
      PROVE  /\ KeyInv' /\ \A d \in HTTPCalls \ {c} : call'[d] = call[d]
             /\ call'[c].pc = "answered" /\ call'[c].result = x
  <2>1. /\ call'[c] = [pc |-> "answered", result |-> x]
        /\ \A d \in HTTPCalls \ {c} : call'[d] = call[d]
        /\ call' \in [HTTPCalls -> HTTPRecords]
    BY <1>1, <1>4, AnswerSet
  <2> QED BY <1>2, <1>4, <2>1 DEF GatewayTypeOK, LateOK
<1>5. CASE CheckIdempotency(c)
  <2> DEFINE found == RecordOf(call[c].request, call[c].key)
  <2>1. UNCHANGED <<handler, records, effects>> /\ call[c].pc = "check"
    BY <1>5 DEF CheckIdempotency
  <2>2. CASE found = {} /\ call' = [call EXCEPT ![c].pc = "execute"]
    <3>1. PICK s : s = [call[c] EXCEPT !.pc = "execute"]
      OBVIOUS
    <3>2. s \in HTTPRecords /\ s.pc = "execute" /\ s.late = call[c].late
      BY <1>1, <2>1, <3>1 DEF HTTPRecords, NoCall
    <3>3. /\ call'[c] = s /\ \A d \in HTTPCalls \ {c} : call'[d] = call[d]
          /\ call' \in [HTTPCalls -> HTTPRecords]
      BY <1>1, <2>2, <3>1, <3>2, CallSet
    <3>4. ~call[c].late
      BY <1>1, <2>1, <2>2 DEF LateOK
    <3>5. LateOK(c)'
      BY <3>2, <3>3, <3>4 DEF LateOK
    <3>6. GatewayTypeOK'
      BY <1>1, <2>1, <3>3 DEF GatewayTypeOK
    <3> QED BY <1>2, <3>3, <3>4, <3>5, <3>6
  <2>3. ASSUME NEW i \in found, NEW x, x \in {Refusal, i.result}, AnswerCall(c, x)
        PROVE  /\ KeyInv' /\ \A d \in HTTPCalls \ {c} : call'[d] = call[d]
               /\ effects' = effects /\ call'[c].pc = "answered"
               /\ call'[c].result \in {Refusal} \cup {j.result : j \in found}
    <3>1. x \in Replies
      BY <1>1, <2>3 DEF GatewayTypeOK, RecordOf
    <3> QED BY <1>1, <1>4, <2>1, <2>3, <3>1 DEF GatewayTypeOK
  <2> QED BY <1>5, <2>2, <2>3 DEF CheckIdempotency, Refuse
<1>6. CASE Execute(c)
  <2>1. UNCHANGED records /\ call[c].pc = "execute" /\ ~call[c].late
    BY <1>1, <1>6 DEF Execute, LateOK
  <2>2. call[c].request \in HTTPRequests /\ call[c].key \in Keys /\ call[c].late \in BOOLEAN
    BY <1>1, <2>1 DEF HTTPRecords, NoCall
  <2>3. CASE Refuse(c) /\ UNCHANGED effects
    BY <1>1, <1>4, <2>1, <2>3 DEF GatewayTypeOK, Refuse
  <2>4. CASE ~(Refuse(c) /\ UNCHANGED effects)
    <3>1. PICK r, effect : r = call[c].request /\ effect = [request |-> r, by |-> c]
      OBVIOUS
    <3>2. /\ effects' = effects \/ effects' = effects \cup {effect}
          /\ \E e \in effects \cup {effect} :
               call' = [call EXCEPT ![c] = [pc |-> "save", request |-> r, key |-> @.key,
                                            late |-> @.late, result |-> e.request]]
      BY <1>6, <2>4, <3>1 DEF Execute, Made
    <3>3. PICK e \in effects \cup {effect} :
            call' = [call EXCEPT ![c] = [pc |-> "save", request |-> r, key |-> @.key,
                                         late |-> @.late, result |-> e.request]]
      BY <3>2
    <3>4. e.request \in Replies
      BY <1>1, <2>2, <3>1 DEF GatewayTypeOK, Replies
    <3>5. PICK s : s = [pc |-> "save", request |-> r, key |-> call[c].key,
                        late |-> call[c].late, result |-> e.request]
      OBVIOUS
    <3>6. s \in HTTPRecords /\ s.pc = "save" /\ s.late = call[c].late
      BY <2>2, <3>1, <3>4, <3>5 DEF HTTPRecords
    <3>7. /\ call'[c] = s /\ \A d \in HTTPCalls \ {c} : call'[d] = call[d]
          /\ call' \in [HTTPCalls -> HTTPRecords]
      BY <1>1, <3>3, <3>5, <3>6, CallSet
    <3>8. LateOK(c)'
      BY <2>1, <3>6, <3>7 DEF LateOK
    <3>9. GatewayTypeOK'
      BY <1>1, <2>1, <2>2, <3>1, <3>2, <3>7 DEF GatewayTypeOK
    <3> QED BY <1>2, <2>1, <3>7, <3>8, <3>9
  <2> QED BY <2>1, <2>3, <2>4
<1>7. CASE SaveIdempotency(c)
  <2>1. UNCHANGED effects /\ call[c].pc = "save" /\ ~call[c].late
    BY <1>1, <1>7 DEF SaveIdempotency, LateOK
  <2>2. call[c].result \in Replies
    BY <1>1, <2>1 DEF HTTPRecords, NoCall
  <2>3. AnswerCall(c, call[c].result)
    BY <1>7 DEF SaveIdempotency
  <2>4. \A i \in records' : i.result \in Replies
    BY <1>1, <1>7, <2>2 DEF SaveIdempotency, credentialIdempotencyResult, GatewayTypeOK
  <2> QED BY <1>1, <1>4, <2>1, <2>2, <2>3, <2>4 DEF GatewayTypeOK
<1>8. CASE CutOff(c)
  BY <1>1, <1>4, <1>8 DEF CutOff, Refuse, GatewayTypeOK
<1> QED BY <1>3, <1>5, <1>6, <1>7, <1>8

\* Nothing is under way at the start.
LEMMA KeyInit == GatewayInit => KeyInv
<1>1. NoCall \in HTTPRecords /\ NoCall.pc = "idle"
  BY DEF HTTPRecords, NoCall
<1> QED BY <1>1 DEF GatewayInit, KeyInv, GatewayTypeOK, LateOK

\* What a late request leaves alone, and is told.
KeyKept(c) ==
    call[c].pc \in {"check", "execute", "save"} /\ call[c].late /\ call'[c] # call[c] =>
       /\ effects' = effects
       /\ call'[c].pc = "answered" =>
            call'[c].result \in {Refusal} \cup
                {i.result : i \in RecordOf(call[c].request, call[c].key)}

\* Every step keeps the invariant, and late requests write nothing.
LEMMA KeyNext ==
    KeyInv /\ [GatewayNext]_gatewayVars =>
      KeyInv' /\ [\A c \in HTTPCalls : KeyKept(c)]_gatewayVars
<1> SUFFICES ASSUME KeyInv, [GatewayNext]_gatewayVars
             PROVE  KeyInv' /\ [\A c \in HTTPCalls : KeyKept(c)]_gatewayVars
  OBVIOUS
<1>1. CASE UNCHANGED gatewayVars
  BY <1>1 DEF gatewayVars, KeyInv, GatewayTypeOK, LateOK, RecordOf, Scope, H
<1>2. CASE GatewayNext
  <2>1. PICK c \in HTTPCalls :
          \/ \E r \in HTTPRequests, key \in Keys : Middleware(c, r, key)
          \/ CheckIdempotency(c) \/ Execute(c) \/ SaveIdempotency(c) \/ CutOff(c)
    BY <1>2 DEF GatewayNext
  <2> QED BY <1>2, <2>1, CallStep DEF KeyKept
<1> QED BY <1>1, <1>2

\* Once a request was answered and recorded, a later one with its key writes
\* nothing and is told what the record says, whatever runs beside it.
THEOREM UsedKeysAreSpent == GatewaySpec => UsedKeyWritesNothing
BY KeyInit, KeyNext, PTL DEF GatewaySpec, UsedKeyWritesNothing, KeyKept
=============================================================================

--------------------------- MODULE ConsentProofs ----------------------------
(***************************************************************************)
(* What needs somebody's consent happens only with it, for any number of   *)
(* approvers, connections, grants and concurrent calls: a purchase above   *)
(* the limit is approved by every approver (ApprovalSession), a change by  *)
(* an MCP tool is confirmed once and made as it was shown                  *)
(* (ConfirmationGrants).                                                   *)
(***************************************************************************)
EXTENDS ApprovalSession, ConfirmationGrants, FiniteSetTheorems, TLAPS

\* The final states of a session, and the decisions of its approvers.
Outcomes == {"approved", "vetoed", "expired"}
\* The decision of each approver.
Views == [Approvers -> {"none", "approve", "veto"}]
\* The stored session.
ProfileRecords == [status : {"none", "pending"} \cup Outcomes, version : Nat]

\* Calls of Decide and Get between their reads and their write.
ReadingCalls ==
    [ pc : {"query", "write"}, approver : Approvers, operation : Decisions \cup {"read"},
      profile : ProfileRecords, decisions : Views ]
\* The calls of the approval service, by control point.
CallRecords ==
    {NoDecision} \cup ReadingCalls \cup [pc : {"publish"}, status : {"pending"} \cup Outcomes]

\* The connections that watch a session.
SocketRecords ==
    {Detached} \cup [pc : {"query", "registered"}, status : {"pending"} \cup Outcomes]
               \cup [pc : {"open"}]

\* Every variable has its type.
ApprovalTypeOK ==
    /\ profile \in ProfileRecords
    /\ decisions \in Views
    /\ deadline \in BOOLEAN
    /\ deciding \in [ApproverCalls -> CallRecords]
    /\ socket \in [Sockets -> SocketRecords]
    /\ shown \subseteq Outcomes
    /\ paid \in BOOLEAN

\* What a call read is what is stored if the version is still the same: the
\* decisions change only together with the session.
ReadingOK(d) ==
    deciding[d].pc \in {"query", "write"} =>
        /\ deciding[d].profile.version <= profile.version
        /\ deciding[d].profile.version = profile.version =>
             deciding[d].profile = profile /\ deciding[d].decisions = decisions

\* An outcome that somebody holds is the stored one.
OutcomeOK(status) == status # "pending" => status = profile.status

\* The stored status is what the stored decisions say, and all that was told.
SessionOK ==
    /\ profile.version = 0 <=> profile.status = "none"
    /\ profile.status = "approved" => \A a \in Approvers : decisions[a] = "approve"
    /\ profile.status = "vetoed" => \E a \in Approvers : decisions[a] = "veto"
    /\ paid => profile.status = "approved"
    /\ shown \subseteq {profile.status}

\* What a call is about to publish, or a connection to show, is the outcome.
HeldOK ==
    /\ \A d \in ApproverCalls : deciding[d].pc = "publish" => OutcomeOK(deciding[d].status)
    /\ \A k \in Sockets : socket[k].pc \in {"query", "registered"} => OutcomeOK(socket[k].status)

\* The inductive invariant of ApprovalSession.
ApprovalInv ==
    /\ ApprovalTypeOK
    /\ \A d \in ApproverCalls : ReadingOK(d)
    /\ SessionOK
    /\ HeldOK

\* There is no session yet.
LEMMA ApprovalInitOK == ApprovalInit => ApprovalInv
<1> SUFFICES ASSUME ApprovalInit PROVE ApprovalInv
  OBVIOUS
<1> USE DEF ApprovalInit
<1>1. ApprovalTypeOK
  BY DEF ApprovalTypeOK, ProfileRecords, Views, CallRecords, SocketRecords, NotCreated
<1>2. /\ \A d \in ApproverCalls : deciding[d].pc = "idle"
      /\ \A k \in Sockets : socket[k].pc = "closed"
  BY DEF NoDecision, Detached
<1>3. SessionOK
  BY DEF SessionOK, NotCreated
<1> QED
  BY <1>1, <1>2, <1>3 DEF ApprovalInv, ReadingOK, HeldOK

\* All approve when the approvals are as many as the approvers.
LEMMA CountIsUnanimity ==
    ASSUME NEW view \in Views, ~(ApprovalCount(view) < Cardinality(Approvers))
    PROVE  \A a \in Approvers : view[a] = "approve"
<1> DEFINE approving == {a \in Approvers : view[a] = "approve"}
<1>1. approving \subseteq Approvers
  OBVIOUS
<1>2. /\ IsFiniteSet(approving) /\ Cardinality(approving) <= Cardinality(Approvers)
      /\ Cardinality(approving) = Cardinality(Approvers) => approving = Approvers
  BY <1>1, ApprovalAssumption, FS_Subset
<1>3. Cardinality(approving) \in Nat /\ Cardinality(Approvers) \in Nat
  BY <1>2, ApprovalAssumption, FS_CardinalityType
<1>4. approving = Approvers
  BY <1>2, <1>3 DEF ApprovalCount
<1> QED BY <1>4

\* A write on the version that was read makes a pending session what the call decided.
LEMMA StoreOK ==
    ASSUME ApprovalInv, NEW d \in ApproverCalls, deciding[d].pc = "write",
           deciding[d].profile.status = "pending",
           NEW status \in {"pending"} \cup Outcomes, NEW view \in Views,
           profile.version = deciding[d].profile.version,
           profile' = [status |-> status, version |-> deciding[d].profile.version + 1],
           decisions' = view,
           deciding' = [deciding EXCEPT ![d] = [pc |-> "publish", status |-> status]],
           status = "approved" => \A a \in Approvers : view[a] = "approve",
           status = "vetoed" => \E a \in Approvers : view[a] = "veto",
           UNCHANGED <<deadline, socket, shown, paid>>
    PROVE  ApprovalInv'
<1> USE DEF ApprovalInv
<1>1. /\ profile.status = "pending" /\ profile.version \in Nat
      /\ ~paid /\ shown = {}
  BY DEF ReadingOK, SessionOK, ApprovalTypeOK, ProfileRecords, Outcomes
<1>2. profile'.status = status /\ profile'.version = profile.version + 1
  OBVIOUS
<1> DEFINE rec == [pc |-> "publish", status |-> status]
<1>3. rec \in CallRecords /\ rec.pc = "publish" /\ rec.status = status
  BY DEF CallRecords
<1> HIDE DEF rec
<1>4. \A x \in ApproverCalls : deciding'[x] = IF x = d THEN rec ELSE deciding[x]
  BY DEF ApprovalTypeOK, rec
<1>5. ApprovalTypeOK'
  <2>1. profile' \in ProfileRecords
    BY <1>1 DEF ProfileRecords
  <2>2. deciding' \in [ApproverCalls -> CallRecords]
    BY <1>3 DEF ApprovalTypeOK, rec
  <2> QED BY <2>1, <2>2 DEF ApprovalTypeOK
<1>6. ASSUME NEW x \in ApproverCalls PROVE ReadingOK(x)'
  <2>1. CASE x = d
    BY <1>3, <1>4, <2>1 DEF ReadingOK
  <2>2. CASE x # d
    <3>1. deciding'[x] = deciding[x] /\ ReadingOK(x)
      BY <1>4, <2>2
    <3>2. deciding[x].pc \in {"query", "write"} => deciding[x].profile.version \in Nat
      BY DEF ApprovalTypeOK, CallRecords, ReadingCalls, ProfileRecords, NoDecision
    <3> QED BY <1>1, <1>2, <3>1, <3>2 DEF ReadingOK
  <2> QED BY <2>1, <2>2
<1>7. SessionOK'
  BY <1>1, <1>2 DEF SessionOK, Outcomes
<1>8. HeldOK'
  <2>1. ASSUME NEW x \in ApproverCalls, deciding'[x].pc = "publish"
        PROVE  OutcomeOK(deciding[x].status)'
    <3>1. CASE x = d
      BY <1>2, <1>3, <1>4, <3>1 DEF OutcomeOK
    <3>2. CASE x # d
      <4>1. deciding'[x] = deciding[x] /\ deciding[x].status \in {"pending"} \cup Outcomes
        BY <1>4, <2>1, <3>2 DEF ApprovalTypeOK, CallRecords, ReadingCalls, NoDecision
      <4>2. OutcomeOK(deciding[x].status)
        BY <2>1, <4>1 DEF HeldOK
      <4> QED BY <1>1, <4>1, <4>2 DEF OutcomeOK, Outcomes
    <3> QED BY <3>1, <3>2
  <2>2. ASSUME NEW k \in Sockets, socket'[k].pc \in {"query", "registered"}
        PROVE  OutcomeOK(socket[k].status)'
    <3>1. OutcomeOK(socket[k].status) /\ socket'[k] = socket[k]
      BY <2>2 DEF HeldOK
    <3>2. socket[k].status = "pending"
      BY <1>1, <3>1 DEF OutcomeOK
    <3> QED BY <3>1, <3>2 DEF OutcomeOK
  <2> QED BY <2>1, <2>2 DEF HeldOK
<1> QED BY <1>5, <1>6, <1>7, <1>8

\* Every operation of the approval service keeps the invariant.
LEMMA ApprovalNextOK == ApprovalInv /\ [ApprovalNext]_approvalVars => ApprovalInv'
<1> SUFFICES ASSUME ApprovalInv, [ApprovalNext]_approvalVars
             PROVE  ApprovalInv'
    OBVIOUS
<1> USE DEF ApprovalInv
\* A step that leaves the session alone.
<1>k. ASSUME UNCHANGED <<profile, decisions>>, ApprovalTypeOK',
             paid' => profile.status = "approved", shown' \subseteq {profile.status},
             \A d \in ApproverCalls : ReadingOK(d)',
             \A d \in ApproverCalls : deciding'[d].pc = "publish" => OutcomeOK(deciding'[d].status),
             \A k \in Sockets : socket'[k].pc \in {"query", "registered"} =>
                 OutcomeOK(socket'[k].status)
      PROVE  ApprovalInv'
  <2>1. SessionOK'
    BY <1>k DEF SessionOK
  <2>2. HeldOK'
    BY <1>k DEF HeldOK, OutcomeOK
  <2> QED BY <1>k, <2>1, <2>2
<1>c. ASSUME UNCHANGED <<profile, decisions, deciding>>
      PROVE  /\ \A d \in ApproverCalls : ReadingOK(d)'
             /\ \A d \in ApproverCalls : deciding'[d].pc = "publish" => OutcomeOK(deciding'[d].status)
  BY <1>c DEF ReadingOK, HeldOK
<1>d. ASSUME UNCHANGED <<profile, decisions>>, NEW d \in ApproverCalls, NEW rec,
             deciding' = [deciding EXCEPT ![d] = rec], rec.pc # "publish", ReadingOK(d)'
      PROVE  /\ \A x \in ApproverCalls : ReadingOK(x)'
             /\ \A x \in ApproverCalls : deciding'[x].pc = "publish" => OutcomeOK(deciding'[x].status)
  <2>1. \A x \in ApproverCalls : deciding'[x] = IF x = d THEN rec ELSE deciding[x]
    BY <1>d DEF ApprovalTypeOK
  <2>2. ASSUME NEW x \in ApproverCalls PROVE ReadingOK(x)'
    <3>1. CASE x = d
      BY <1>d, <3>1
    <3>2. CASE x # d
      BY <1>d, <2>1, <3>2 DEF ReadingOK
    <3> QED BY <3>1, <3>2
  <2> QED BY <1>d, <2>1, <2>2 DEF HeldOK
<1>s. ASSUME UNCHANGED <<profile, socket>>
      PROVE  \A k \in Sockets : socket'[k].pc \in {"query", "registered"} =>
                 OutcomeOK(socket'[k].status)
  BY <1>s DEF HeldOK
<1>p. ASSUME UNCHANGED <<profile, paid>> PROVE paid' => profile.status = "approved"
  BY <1>p DEF SessionOK
<1>h. shown \subseteq {profile.status}
  BY DEF SessionOK
<1>1. CASE CreateApprovalSession
  <2>1. /\ profile.status = "none" /\ profile.version = 0
        /\ profile'.status = "pending" /\ profile'.version = 1 /\ profile' \in ProfileRecords
        /\ UNCHANGED <<decisions, deadline, deciding, socket, shown, paid>>
    BY <1>1 DEF CreateApprovalSession, NotCreated, NewSession, ProfileRecords
  <2>2. shown = {} /\ ~paid
    BY <2>1 DEF SessionOK, ApprovalTypeOK, Outcomes
  <2>3. ApprovalTypeOK'
    BY <2>1 DEF ApprovalTypeOK
  <2>4. ASSUME NEW d \in ApproverCalls PROVE ReadingOK(d)'
    <3>1. deciding[d].pc \in {"query", "write"} =>
            deciding[d].profile.version \in Nat
      BY DEF ApprovalTypeOK, CallRecords, ReadingCalls, ProfileRecords, NoDecision
    <3> QED BY <2>1, <3>1 DEF ReadingOK
  <2>5. SessionOK'
    BY <2>1, <2>2 DEF SessionOK
  <2>6. HeldOK'
    <3>1. \A d \in ApproverCalls : deciding[d].pc = "publish" => deciding[d].status # "none"
      BY DEF ApprovalTypeOK, CallRecords, ReadingCalls, NoDecision, Outcomes
    <3>2. \A k \in Sockets : socket[k].pc \in {"query", "registered"} => socket[k].status # "none"
      BY DEF ApprovalTypeOK, SocketRecords, Detached, Outcomes
    <3> QED BY <2>1, <3>1, <3>2 DEF HeldOK, OutcomeOK
  <2> QED BY <2>3, <2>4, <2>5, <2>6
<1>2. CASE DeadlineReached
  <2>1. ApprovalTypeOK'
    BY <1>2 DEF DeadlineReached, ApprovalTypeOK
  <2> QED BY <1>2, <1>k, <1>c, <1>s, <1>p, <1>h, <2>1 DEF DeadlineReached
<1>3. CASE VerifyApproval
  <2>1. ApprovalTypeOK'
    BY <1>3 DEF VerifyApproval, ApprovalTypeOK
  <2> QED BY <1>3, <1>k, <1>c, <1>s, <1>h, <2>1 DEF VerifyApproval
<1>4. ASSUME NEW d \in ApproverCalls, NEW a \in Approvers, NEW o \in Decisions \cup {"read"},
             ReadProfile(d, a, o)
      PROVE  ApprovalInv'
  <2> DEFINE rec == [pc |-> "query", approver |-> a, operation |-> o,
                     profile |-> profile, decisions |-> decisions]
  <2>1. /\ deciding' = [deciding EXCEPT ![d] = rec]
        /\ UNCHANGED <<profile, decisions, deadline, socket, shown, paid>>
    BY <1>4 DEF ReadProfile
  <2>2. /\ rec \in CallRecords /\ rec.pc = "query" /\ rec.profile = profile
        /\ rec.decisions = decisions
    BY DEF ApprovalTypeOK, CallRecords, ReadingCalls
  <2>v. profile.version \in Nat
    BY DEF ApprovalTypeOK, ProfileRecords
  <2> HIDE DEF rec
  <2>3. \A x \in ApproverCalls : deciding'[x] = IF x = d THEN rec ELSE deciding[x]
    BY <2>1 DEF ApprovalTypeOK
  <2>4. ApprovalTypeOK'
    BY <2>1, <2>2 DEF ApprovalTypeOK
  <2>5. ReadingOK(d)'
    BY <2>1, <2>2, <2>v, <2>3 DEF ReadingOK
  <2> QED BY <1>k, <1>d, <1>s, <1>p, <1>h, <2>2, <2>3, <2>1, <2>4, <2>5
<1>5. ASSUME NEW d \in ApproverCalls, ReadInvitations(d)
      PROVE  ApprovalInv'
  <2> DEFINE call == deciding[d]
             rec == [[call EXCEPT !.pc = "write"] EXCEPT !.decisions = decisions]
  <2>1. /\ call.pc = "query"
        /\ deciding' = [deciding EXCEPT ![d] = rec]
        /\ UNCHANGED <<profile, decisions, deadline, socket, shown, paid>>
    BY <1>5 DEF ReadInvitations, ApprovalTypeOK
  <2>2. call \in ReadingCalls
    BY <2>1 DEF ApprovalTypeOK, CallRecords, NoDecision
  <2> HIDE DEF call
  <2>3. /\ rec \in ReadingCalls /\ rec.pc = "write" /\ rec.profile = call.profile
        /\ rec.decisions = decisions
    BY <2>2 DEF ApprovalTypeOK, ReadingCalls
  <2> HIDE DEF rec
  <2>4. \A x \in ApproverCalls : deciding'[x] = IF x = d THEN rec ELSE deciding[x]
    BY <2>1 DEF ApprovalTypeOK
  <2>5. ApprovalTypeOK'
    BY <2>1, <2>3 DEF ApprovalTypeOK, CallRecords
  <2>6. ReadingOK(d)'
    BY <2>1, <2>3, <2>4 DEF ReadingOK, call
  <2> QED BY <1>k, <1>d, <1>s, <1>p, <1>h, <2>2, <2>3, <2>1, <2>5, <2>6
<1>6. ASSUME NEW d \in ApproverCalls, DecideSession(d)
      PROVE  ApprovalInv'
  <2> DEFINE a == deciding[d].approver
             operation == deciding[d].operation
             read == deciding[d].decisions
             view == [read EXCEPT ![a] = operation]
             status == Resolution(view, operation)
  <2>1. /\ deciding[d].pc = "write" /\ operation \in Decisions
        /\ deciding[d].profile.status = "pending"
        /\ VersionIsRead(d)
        /\ profile' = [status |-> status, version |-> deciding[d].profile.version + 1]
        /\ decisions' = view
        /\ deciding' = [deciding EXCEPT ![d] = [pc |-> "publish", status |-> status]]
        /\ UNCHANGED <<deadline, socket, shown, paid>>
    BY <1>6 DEF DecideSession, StoreSession
  <2>2. deciding[d] \in ReadingCalls
    BY <2>1 DEF ApprovalTypeOK, CallRecords, NoDecision
  <2>3. a \in Approvers /\ read \in Views
    BY <2>2 DEF ReadingCalls
  <2> HIDE DEF a, operation, read
  <2>4. view \in Views /\ view[a] = operation
    BY <2>1, <2>3 DEF Views, Decisions
  <2> HIDE DEF view
  <2>5. /\ status \in {"pending"} \cup Outcomes
        /\ status = "approved" => \A x \in Approvers : view[x] = "approve"
        /\ status = "vetoed" => \E x \in Approvers : view[x] = "veto"
    BY <2>3, <2>4, CountIsUnanimity DEF Resolution, Outcomes
  <2> HIDE DEF status
  <2> QED BY <2>1, <2>4, <2>5, StoreOK DEF VersionIsRead
<1>7. ASSUME NEW d \in ApproverCalls, ExpireSession(d)
      PROVE  ApprovalInv'
  <2> DEFINE view == deciding[d].decisions
             status == "expired"
  <2>1. /\ deciding[d].pc = "write"
        /\ deciding[d].profile.status = "pending"
        /\ VersionIsRead(d)
        /\ profile' = [status |-> status, version |-> deciding[d].profile.version + 1]
        /\ decisions' = view
        /\ deciding' = [deciding EXCEPT ![d] = [pc |-> "publish", status |-> status]]
        /\ UNCHANGED <<deadline, socket, shown, paid>>
    BY <1>7 DEF ExpireSession, StoreSession
  <2>2. view \in Views
    BY <2>1 DEF ApprovalTypeOK, CallRecords, ReadingCalls, NoDecision
  <2>3. status \in {"pending"} \cup Outcomes /\ status # "approved" /\ status # "vetoed"
    BY DEF Outcomes
  <2> HIDE DEF view, status
  <2> QED BY <2>1, <2>2, <2>3, StoreOK DEF VersionIsRead
<1>8. ASSUME NEW d \in ApproverCalls, LeaveSession(d)
      PROVE  ApprovalInv'
  <2>1. /\ deciding' = [deciding EXCEPT ![d] = NoDecision]
        /\ UNCHANGED <<profile, decisions, deadline, socket, shown, paid>>
    BY <1>8 DEF LeaveSession
  <2>2. NoDecision \in CallRecords /\ NoDecision.pc = "idle"
    BY DEF NoDecision, CallRecords
  <2>3. \A x \in ApproverCalls : deciding'[x] = IF x = d THEN NoDecision ELSE deciding[x]
    BY <2>1 DEF ApprovalTypeOK
  <2>4. ApprovalTypeOK'
    BY <2>1, <2>2 DEF ApprovalTypeOK
  <2>5. ReadingOK(d)'
    BY <2>2, <2>3 DEF ReadingOK
  <2> QED BY <1>k, <1>d, <1>s, <1>p, <1>h, <2>2, <2>3, <2>1, <2>4, <2>5
<1>9. ASSUME NEW d \in ApproverCalls, PublishApprovalEvent(d)
      PROVE  ApprovalInv'
  <2>1. /\ deciding[d].pc = "publish"
        /\ deciding' = [deciding EXCEPT ![d] = NoDecision]
        /\ UNCHANGED <<profile, decisions, deadline, paid>>
        /\ shown' \subseteq shown \cup Outcome(deciding[d].status)
        /\ socket' \in [Sockets -> SocketRecords]
        /\ \A k \in Sockets : socket'[k] = socket[k] \/ socket'[k] = Detached
    BY <1>9 DEF PublishApprovalEvent, ApprovalTypeOK, SocketRecords
  <2>2. NoDecision \in CallRecords /\ NoDecision.pc = "idle" /\ Detached.pc = "closed"
    BY DEF NoDecision, CallRecords, Detached
  <2>3. \A x \in ApproverCalls : deciding'[x] = IF x = d THEN NoDecision ELSE deciding[x]
    BY <2>1 DEF ApprovalTypeOK
  <2>4. deciding[d].status \in {"pending"} \cup Outcomes /\ OutcomeOK(deciding[d].status)
    BY <2>1 DEF ApprovalTypeOK, CallRecords, ReadingCalls, NoDecision, HeldOK
  <2>5. shown' \subseteq {profile.status} /\ shown' \subseteq Outcomes
    BY <2>1, <2>4 DEF SessionOK, ApprovalTypeOK, Outcome, OutcomeOK
  <2>6. ApprovalTypeOK'
    BY <2>1, <2>2, <2>5 DEF ApprovalTypeOK
  <2>7. ReadingOK(d)'
    BY <2>2, <2>3 DEF ReadingOK
  <2>8. \A k \in Sockets : socket'[k].pc \in {"query", "registered"} => OutcomeOK(socket'[k].status)
    BY <2>1, <2>2 DEF HeldOK
  <2>9. paid' => profile.status = "approved"
    BY <2>1 DEF SessionOK
  <2> QED BY <1>k, <1>d, <2>1, <2>2, <2>5, <2>6, <2>7, <2>8, <2>9
<1>10. ASSUME NEW k \in Sockets,
              ReadSnapshot(k) \/ RegisterConnection(k) \/ SendSnapshot(k) \/ Disconnect(k)
      PROVE  ApprovalInv'
  <2>1. UNCHANGED <<profile, decisions, deadline, deciding, paid>>
    BY <1>10 DEF ReadSnapshot, RegisterConnection, SendSnapshot, Disconnect
  <2>2. ASSUME NEW rec \in SocketRecords, socket' = [socket EXCEPT ![k] = rec],
               rec.pc \in {"query", "registered"} => OutcomeOK(rec.status),
               shown' \subseteq {profile.status}, shown' \subseteq Outcomes
        PROVE  ApprovalInv'
    <3>1. \A x \in Sockets : socket'[x] = IF x = k THEN rec ELSE socket[x]
      BY <2>2 DEF ApprovalTypeOK
    <3>2. ApprovalTypeOK'
      BY <2>1, <2>2 DEF ApprovalTypeOK
    <3>3. \A x \in Sockets : socket'[x].pc \in {"query", "registered"} => OutcomeOK(socket'[x].status)
      BY <2>2, <3>1 DEF HeldOK
    <3>4. paid' => profile.status = "approved"
      BY <2>1 DEF SessionOK
    <3> QED BY <1>k, <1>c, <2>1, <2>2, <3>2, <3>3, <3>4
  <2>3. CASE ReadSnapshot(k)
    <3> DEFINE rec == [pc |-> "query", status |-> profile.status]
    <3>1. socket' = [socket EXCEPT ![k] = rec] /\ UNCHANGED shown /\ profile # NotCreated
      BY <2>3 DEF ReadSnapshot
    <3>2. profile.status # "none"
      BY <3>1 DEF SessionOK, NotCreated, ApprovalTypeOK, ProfileRecords
    <3>3. rec \in SocketRecords /\ rec.status = profile.status
      BY <3>2 DEF ApprovalTypeOK, ProfileRecords, SocketRecords
    <3> HIDE DEF rec
    <3> QED BY <2>2, <3>1, <3>3 DEF OutcomeOK, SessionOK, ApprovalTypeOK
  <2>4. CASE RegisterConnection(k)
    <3> DEFINE before == socket[k]
               rec == [before EXCEPT !.pc = "registered"]
    <3>1. socket' = [socket EXCEPT ![k] = rec] /\ UNCHANGED shown /\ before.pc = "query"
      BY <2>4 DEF RegisterConnection
    <3>2. before \in [pc : {"query", "registered"}, status : {"pending"} \cup Outcomes]
          /\ OutcomeOK(before.status)
      BY <3>1 DEF ApprovalTypeOK, SocketRecords, Detached, HeldOK
    <3> HIDE DEF before
    <3>3. rec \in SocketRecords /\ rec.status = before.status
      BY <3>2 DEF SocketRecords
    <3> HIDE DEF rec
    <3> QED BY <2>2, <3>1, <3>2, <3>3 DEF SessionOK, ApprovalTypeOK
  <2>5. CASE SendSnapshot(k)
    <3> DEFINE rec == [pc |-> "open"]
    <3>1. /\ socket' = [socket EXCEPT ![k] = rec] /\ socket[k].pc = "registered"
          /\ shown' = shown \cup Outcome(socket[k].status)
      BY <2>5 DEF SendSnapshot
    <3>2. socket[k].status \in {"pending"} \cup Outcomes /\ OutcomeOK(socket[k].status)
      BY <3>1 DEF ApprovalTypeOK, SocketRecords, Detached, HeldOK
    <3>3. rec \in SocketRecords /\ rec.pc = "open"
      BY DEF SocketRecords
    <3> HIDE DEF rec
    <3>4. shown' \subseteq {profile.status} /\ shown' \subseteq Outcomes
      BY <3>1, <3>2 DEF SessionOK, ApprovalTypeOK, Outcome, OutcomeOK
    <3> QED BY <2>2, <3>1, <3>3, <3>4
  <2>6. CASE Disconnect(k)
    <3>1. Detached \in SocketRecords /\ Detached.pc = "closed"
      BY DEF SocketRecords, Detached
    <3> QED BY <2>2, <2>6, <3>1 DEF Disconnect, SessionOK, ApprovalTypeOK
  <2> QED BY <1>10, <2>3, <2>4, <2>5, <2>6
<1>11. CASE UNCHANGED approvalVars
  <2>1. ApprovalTypeOK'
    BY <1>11 DEF approvalVars, ApprovalTypeOK
  <2> QED BY <1>11, <1>k, <1>c, <1>s, <1>p, <1>h, <2>1 DEF approvalVars
<1> QED
  BY <1>1, <1>2, <1>3, <1>4, <1>5, <1>6, <1>7, <1>8, <1>9, <1>10, <1>11 DEF ApprovalNext

\* A purchase is paid for only in a session that is approved, approved means
\* that every approver approved, and no connection is ever shown an outcome
\* other than the stored one: concurrent decisions, a veto and the deadline
\* included.
THEOREM ApprovalsAreUnanimous == ApprovalSpec => []ApprovalIsUnanimous
<1>1. ApprovalInv => ApprovalIsUnanimous
  BY DEF ApprovalInv, SessionOK, ApprovalIsUnanimous
<1> QED
  BY <1>1, ApprovalInitOK, ApprovalNextOK, PTL DEF ApprovalSpec
-----------------------------------------------------------------------------
\* The grants in the store.
GrantRecords ==
    [ mutation : Mutations, expired : BOOLEAN, consumedBy : MutationKeys \cup {Unused},
      version : {1, 2} ]

\* The calls of MCP tools, by control point.
CallPCs == {"load", "consume", "mutate", "create", "publish", "save"}
\* A call of a tool that changes something.
MutationCalls == [pc : CallPCs, grant : Grants, mutation : Mutations, key : MutationKeys]

\* The changes that tools have made, as the ghost changes keeps them.
ChangeRecords == [mutation : Mutations, grant : Grants, key : MutationKeys, found : Nat]

\* Every variable has its type.
GrantsTypeOK ==
    /\ grants \in [Grants -> {Unissued} \cup GrantRecords]
    /\ targets \in [{"seller", "paid_route"} -> Nat]
    /\ calls \in [Calls -> {Waiting} \cup MutationCalls]
    /\ changes \in Seq(ChangeRecords)

\* A grant is spent when it has its second version.
GrantOK(g) == grants[g] # Unissued => (grants[g].version = 1 <=> grants[g].consumedBy = Unused)

\* The grant is for this mutation and was spent under this key.
SpentFor(g, m, key) ==
    grants[g] # Unissued /\ grants[g].mutation = m /\ grants[g].consumedBy = key

\* A call about to consume has loaded a grant for its mutation; a call past
\* that has spent the grant under its own idempotency key.
CallOK(c) ==
    /\ calls[c].pc = "consume" =>
         grants[calls[c].grant] # Unissued /\ grants[calls[c].grant].mutation = calls[c].mutation
    /\ calls[c].pc \in {"mutate", "create", "publish", "save"} =>
         SpentFor(calls[c].grant, calls[c].mutation, calls[c].key)
    /\ calls[c].pc = "create" => calls[c].mutation.tool = "configure_route"
    /\ calls[c].pc = "publish" => calls[c].mutation.tool = "publish_route"

\* What a change leaves behind: a target past its version, or the claimed slug.
ChangeOK(change) ==
    /\ SpentFor(change.grant, change.mutation, change.key)
    /\ change.mutation.tool # "configure_route" =>
         /\ change.found = change.mutation.expected
         /\ targets[TargetOf(change.mutation.tool)] > change.mutation.expected
    /\ change.mutation.tool = "configure_route" => change.mutation.arguments \in drafts

\* Every change was confirmed, and no mutation was made twice.
ChangesOK ==
    /\ \A i \in DOMAIN changes : ChangeOK(changes[i])
    /\ \A i, j \in DOMAIN changes : changes[i].mutation = changes[j].mutation => i = j

\* The inductive invariant of ConfirmationGrants.
GrantsInv ==
    /\ GrantsTypeOK
    /\ \A g \in Grants : GrantOK(g)
    /\ \A c \in Calls : CallOK(c)
    /\ ChangesOK

\* No grant is issued and nothing was changed.
LEMMA GrantsInitOK == GrantsInit => GrantsInv
<1> SUFFICES ASSUME GrantsInit PROVE GrantsInv
  OBVIOUS
<1> USE DEF GrantsInit
<1>1. GrantsTypeOK
  BY DEF GrantsTypeOK
<1>2. \A c \in Calls : calls[c].pc = "idle"
  BY DEF Waiting
<1>3. DOMAIN changes = {}
  OBVIOUS
<1> QED
  BY <1>1, <1>2, <1>3 DEF GrantsInv, GrantOK, CallOK, ChangesOK

\* What no step undoes: an issued grant keeps its mutation, a spent one its key,
\* versions grow, and slugs stay claimed.
Advance ==
    /\ \A g \in Grants : grants[g] # Unissued =>
         /\ grants'[g] # Unissued
         /\ grants'[g].mutation = grants[g].mutation
         /\ grants[g].consumedBy # Unused => grants'[g].consumedBy = grants[g].consumedBy
    /\ \A t \in {"seller", "paid_route"} : targets'[t] >= targets[t]
    /\ drafts \subseteq drafts'

\* The target of a mutation is one of the two, and has a version.
LEMMA TargetType ==
    ASSUME GrantsTypeOK, NEW m \in Mutations
    PROVE  /\ TargetOf(m.tool) \in {"seller", "paid_route"}
           /\ targets[TargetOf(m.tool)] \in Nat
           /\ m.expected \in Nat
BY GrantsAssumption DEF GrantsTypeOK, TargetOf, Mutations

\* A spent grant stays spent for the same mutation and key.
LEMMA SpentKept ==
    ASSUME GrantsTypeOK, Advance, NEW g \in Grants, NEW m, NEW key \in MutationKeys, SpentFor(g, m, key)
    PROVE  SpentFor(g, m, key)'
BY GrantsAssumption DEF Advance, SpentFor, Unused

\* A call is not disturbed by what others do.
LEMMA CallKept ==
    ASSUME GrantsTypeOK, Advance, NEW c \in Calls, calls'[c] = calls[c], CallOK(c)
    PROVE  CallOK(c)'
<1>1. CASE calls[c] = Waiting
  BY <1>1 DEF CallOK, Waiting
<1>2. CASE calls[c] # Waiting
  <2>1. PICK call \in MutationCalls : calls[c] = call
    BY <1>2 DEF GrantsTypeOK
  <2>2. /\ call.grant \in Grants /\ call.key \in MutationKeys /\ calls'[c] = call
    BY <2>1 DEF MutationCalls
  <2>3. call.pc = "consume" => 
          grants'[call.grant] # Unissued /\ grants'[call.grant].mutation = call.mutation
    BY <2>1, <2>2 DEF Advance, CallOK
  <2>4. call.pc \in {"mutate", "create", "publish", "save"} =>
          SpentFor(call.grant, call.mutation, call.key)'
    BY <2>1, <2>2, SpentKept DEF CallOK
  <2>5. /\ call.pc = "create" => call.mutation.tool = "configure_route"
        /\ call.pc = "publish" => call.mutation.tool = "publish_route"
    BY <2>1 DEF CallOK
  <2> QED BY <2>1, <2>2, <2>3, <2>4, <2>5 DEF CallOK, SpentFor
<1> QED BY <1>1, <1>2

\* A change once made stays confirmed.
LEMMA ChangeKept ==
    ASSUME GrantsTypeOK, GrantsTypeOK', Advance, NEW change \in ChangeRecords, ChangeOK(change)
    PROVE  ChangeOK(change)'
<1> DEFINE m == change.mutation
           t == TargetOf(m.tool)
<1>1. m \in Mutations /\ change.grant \in Grants /\ change.key \in MutationKeys
  BY DEF ChangeRecords
<1>2. t \in {"seller", "paid_route"} /\ targets[t] \in Nat /\ m.expected \in Nat
  BY <1>1, TargetType
<1>3. targets'[t] \in Nat /\ targets'[t] >= targets[t]
  BY <1>2 DEF GrantsTypeOK, Advance
<1>4. m.tool # "configure_route" =>
        change.found = m.expected /\ targets'[t] > m.expected
  BY <1>2, <1>3 DEF ChangeOK
<1>5. m.tool = "configure_route" => m.arguments \in drafts'
  BY DEF ChangeOK, Advance
<1>6. SpentFor(change.grant, m, change.key)'
  BY <1>1, SpentKept DEF ChangeOK
<1> QED BY <1>4, <1>5, <1>6 DEF ChangeOK, SpentFor

\* A step that changes no target.
LEMMA ChangesKept ==
    ASSUME GrantsTypeOK, GrantsTypeOK', Advance, UNCHANGED changes, ChangesOK
    PROVE  ChangesOK'
<1>1. ASSUME NEW i \in DOMAIN changes PROVE ChangeOK(changes[i])'
  <2>1. PICK change \in ChangeRecords : change = changes[i]
    BY DEF GrantsTypeOK
  <2>2. ChangeOK(change)'
    BY <2>1, ChangeKept DEF ChangesOK
  <2> QED BY <2>1, <2>2
<1> QED BY <1>1 DEF ChangesOK

\* A step of one call that appends its change.
LEMMA ChangeAdded ==
    ASSUME GrantsTypeOK, GrantsTypeOK', Advance, ChangesOK, NEW change \in ChangeRecords,
           changes' = Append(changes, change), ChangeOK(change)',
           change.mutation.tool = "configure_route" => change.mutation.arguments \notin drafts,
           change.mutation.tool # "configure_route" =>
               targets[TargetOf(change.mutation.tool)] = change.mutation.expected
    PROVE  ChangesOK'
<1>1. /\ DOMAIN changes = 1..Len(changes) /\ Len(changes) \in Nat
      /\ DOMAIN changes' = 1..Len(changes) + 1
      /\ \A i \in 1..Len(changes) : changes'[i] = changes[i] /\ changes[i] \in ChangeRecords
      /\ changes'[Len(changes) + 1] = change
  BY DEF GrantsTypeOK
<1>2. ASSUME NEW i \in 1..Len(changes)
      PROVE  ChangeOK(changes[i])' /\ changes[i].mutation # change.mutation
  <2>1. PICK old \in ChangeRecords : old = changes[i]
    BY <1>1
  <2>2. ChangeOK(old)
    BY <1>1, <2>1 DEF ChangesOK
  <2>3. ChangeOK(old)'
    BY <2>2, ChangeKept
  <2>4. change.mutation \in Mutations
    BY DEF ChangeRecords
  <2>5. old.mutation # change.mutation
    BY <2>2, <2>4, TargetType DEF ChangeOK
  <2> QED BY <1>1, <2>1, <2>3, <2>5
<1>3. ASSUME NEW i \in DOMAIN changes' PROVE ChangeOK(changes[i])'
  <2>1. CASE i \in 1..Len(changes)
    BY <1>2, <2>1
  <2>2. CASE i = Len(changes) + 1
    BY <1>1, <2>2
  <2> QED BY <1>1, <2>1, <2>2
<1>4. ASSUME NEW i \in DOMAIN changes', NEW j \in DOMAIN changes',
             changes'[i].mutation = changes'[j].mutation
      PROVE  i = j
  BY <1>1, <1>2, <1>4 DEF ChangesOK
<1> QED BY <1>3, <1>4 DEF ChangesOK

\* Every step of a confirmed mutation keeps the invariant.
LEMMA GrantsNextOK == GrantsInv /\ [GrantsNext]_grantVars => GrantsInv'
<1> SUFFICES ASSUME GrantsInv, [GrantsNext]_grantVars
             PROVE  GrantsInv'
    OBVIOUS
<1> USE GrantsAssumption DEF GrantsInv
<1>v. ASSUME UNCHANGED <<grants, targets, drafts>> PROVE Advance
  BY <1>v DEF Advance, GrantsTypeOK
<1>g. ASSUME UNCHANGED grants PROVE \A g \in Grants : GrantOK(g)'
  BY <1>g DEF GrantOK
\* A step of one call, with its record replaced.
<1>c. ASSUME Advance, NEW c \in Calls, NEW rec, calls' = [calls EXCEPT ![c] = rec], CallOK(c)'
      PROVE  \A x \in Calls : CallOK(x)'
  <2>1. ASSUME NEW x \in Calls PROVE CallOK(x)'
    <3>1. CASE x = c
      BY <1>c, <3>1
    <3>2. CASE x # c
      <4>1. calls'[x] = calls[x]
        BY <1>c, <3>2 DEF GrantsTypeOK
      <4> QED BY <1>c, <4>1, CallKept
    <3> QED BY <3>1, <3>2
  <2> QED BY <2>1
<1>u. ASSUME Advance, UNCHANGED calls PROVE \A x \in Calls : CallOK(x)'
  BY <1>u, CallKept
\* A call in progress, with its program counter replaced.
<1>m. ASSUME NEW c \in Calls, calls[c] # Waiting, NEW pc \in CallPCs, Goto(c, pc)
      PROVE  \E rec \in MutationCalls :
               /\ calls' = [calls EXCEPT ![c] = rec] /\ calls'[c] = rec
               /\ rec.pc = pc /\ rec.grant = calls[c].grant
               /\ rec.mutation = calls[c].mutation /\ rec.key = calls[c].key
  <2> DEFINE call == calls[c]
             rec == [call EXCEPT !.pc = pc]
  <2>1. call \in MutationCalls
    BY <1>m DEF GrantsTypeOK
  <2>2. calls' = [calls EXCEPT ![c] = rec] /\ calls'[c] = rec
    BY <1>m DEF Goto, GrantsTypeOK
  <2> HIDE DEF call
  <2>3. /\ rec \in MutationCalls /\ rec.pc = pc /\ rec.grant = call.grant
        /\ rec.mutation = call.mutation /\ rec.key = call.key
    BY <2>1, <1>m DEF MutationCalls
  <2> HIDE DEF rec
  <2> QED BY <2>2, <2>3 DEF call
<1>l. ASSUME NEW c \in Calls, Leave(c)
      PROVE  CallOK(c)' /\ calls' \in [Calls -> {Waiting} \cup MutationCalls]
             /\ calls' = [calls EXCEPT ![c] = Waiting]
  <2>1. calls'[c] = Waiting /\ Waiting.pc = "idle"
    BY <1>l DEF Leave, GrantsTypeOK, Waiting
  <2> QED BY <1>l, <2>1 DEF CallOK, Leave, GrantsTypeOK
<1>w. ASSUME NEW c \in Calls, NEW pc \in CallPCs, At(c, pc)
      PROVE  calls[c] # Waiting /\ calls[c] \in MutationCalls
  <2>1. calls[c].pc # "idle"
    BY <1>w DEF At, CallPCs
  <2>2. Waiting.pc = "idle"
    BY DEF Waiting
  <2> QED BY <2>1, <2>2 DEF GrantsTypeOK
<1>1. ASSUME NEW g \in Grants, ExpireGrant(g)
      PROVE  GrantsInv'
  <2> DEFINE grant == grants[g]
             rec == [grant EXCEPT !.expired = TRUE]
  <2>1. /\ grant \in GrantRecords /\ grant # Unissued
        /\ grants' = [grants EXCEPT ![g] = rec]
        /\ UNCHANGED <<bindings, credentialValid, targets, drafts, replays, calls, changes>>
    BY <1>1 DEF ExpireGrant, GrantsTypeOK
  <2> HIDE DEF grant
  <2>2. /\ rec \in GrantRecords /\ rec.mutation = grant.mutation
        /\ rec.consumedBy = grant.consumedBy /\ rec.version = grant.version
    BY <2>1 DEF GrantRecords
  <2>3. rec # Unissued
    BY <2>2 DEF GrantRecords, Unissued
  <2> HIDE DEF rec
  <2>4. \A x \in Grants : grants'[x] = IF x = g THEN rec ELSE grants[x]
    BY <2>1 DEF GrantsTypeOK
  <2>5. GrantsTypeOK'
    BY <2>1, <2>2 DEF GrantsTypeOK
  <2>6. Advance
    BY <2>1, <2>2, <2>3, <2>4 DEF Advance, GrantsTypeOK, grant
  <2>7. \A x \in Grants : GrantOK(x)'
    BY <2>1, <2>2, <2>4 DEF GrantOK, grant
  <2> QED BY <1>u, <2>1, <2>5, <2>6, <2>7, ChangesKept
<1>2. ASSUME NEW g \in Grants, NEW m \in Mutations, CreateGrant(g, m)
      PROVE  GrantsInv'
  <2> DEFINE rec == [mutation |-> m, expired |-> FALSE, consumedBy |-> Unused, version |-> 1]
  <2>1. /\ grants[g] = Unissued
        /\ grants' = [grants EXCEPT ![g] = rec]
        /\ UNCHANGED <<targets, drafts, calls, changes>>
    BY <1>2 DEF CreateGrant, CreateReplacing
  <2>2. rec \in GrantRecords /\ rec.version = 1 /\ rec.consumedBy = Unused
    BY DEF GrantRecords
  <2> HIDE DEF rec
  <2>3. \A x \in Grants : grants'[x] = IF x = g THEN rec ELSE grants[x]
    BY <2>1 DEF GrantsTypeOK
  <2>4. GrantsTypeOK'
    BY <2>1, <2>2 DEF GrantsTypeOK
  <2>5. Advance
    BY <2>1, <2>3 DEF Advance, GrantsTypeOK
  <2>6. \A x \in Grants : GrantOK(x)'
    BY <2>2, <2>3 DEF GrantOK
  <2> QED BY <1>u, <2>1, <2>4, <2>5, <2>6, ChangesKept
<1>3. CASE WithdrawCredential
  <2>1. GrantsTypeOK'
    BY <1>3 DEF WithdrawCredential, GrantsTypeOK
  <2> QED BY <1>3, <1>v, <1>g, <1>u, <2>1, ChangesKept DEF WithdrawCredential
<1>4. ASSUME NEW c \in Calls, NEW g \in Grants, NEW m \in Mutations, NEW key \in MutationKeys,
             ServeMutation(c, g, m, key)
      PROVE  GrantsInv'
  <2> DEFINE rec == [pc |-> "load", grant |-> g, mutation |-> m, key |-> key]
  <2>1. /\ calls' = [calls EXCEPT ![c] = rec]
        /\ UNCHANGED <<grants, targets, drafts, changes>>
    BY <1>4 DEF ServeMutation
  <2>2. rec \in MutationCalls /\ rec.pc = "load"
    BY DEF MutationCalls, CallPCs
  <2> HIDE DEF rec
  <2>3. GrantsTypeOK'
    BY <2>1, <2>2 DEF GrantsTypeOK
  <2>4. calls'[c] = rec
    BY <2>1 DEF GrantsTypeOK
  <2>5. CallOK(c)'
    BY <2>2, <2>4 DEF CallOK
  <2>6. Advance
    BY <1>v, <2>1
  <2> QED BY <1>g, <1>c, <2>1, <2>3, <2>5, <2>6, ChangesKept
<1>5. ASSUME NEW c \in Calls, LoadGrant(c)
      PROVE  GrantsInv'
  <2>1. At(c, "load") /\ UNCHANGED <<grants, bindings, credentialValid, targets, drafts, replays, changes>>
    BY <1>5 DEF LoadGrant
  <2>2. calls[c] # Waiting /\ calls[c] \in MutationCalls
    BY <1>w, <2>1 DEF CallPCs
  <2>3. Advance
    BY <1>v, <2>1
  <2>4. CASE Leave(c)
    <3>1. GrantsTypeOK'
      BY <1>l, <2>1, <2>4 DEF GrantsTypeOK
    <3> QED BY <1>g, <1>c, <1>l, <2>1, <2>3, <2>4, <3>1, ChangesKept
  <2>5. ASSUME NEW pc \in {"consume", "mutate"}, Goto(c, pc),
               Confirms(grants[calls[c].grant], calls[c].mutation),
               pc = "mutate" => grants[calls[c].grant].consumedBy = calls[c].key
        PROVE  GrantsInv'
    <3>1. PICK rec \in MutationCalls :
               /\ calls' = [calls EXCEPT ![c] = rec] /\ calls'[c] = rec
               /\ rec.pc = pc /\ rec.grant = calls[c].grant
               /\ rec.mutation = calls[c].mutation /\ rec.key = calls[c].key
      BY <1>m, <2>2, <2>5 DEF CallPCs
    <3>2. GrantsTypeOK'
      BY <2>1, <3>1 DEF GrantsTypeOK
    <3>3. CallOK(c)'
      BY <2>1, <2>5, <3>1 DEF CallOK, SpentFor, Confirms
    <3> QED BY <1>g, <1>c, <2>1, <2>3, <3>1, <3>2, <3>3, ChangesKept
  <2> QED BY <1>5, <2>4, <2>5 DEF LoadGrant
<1>6. ASSUME NEW c \in Calls, ConsumeGrant(c)
      PROVE  GrantsInv'
  <2> DEFINE g == calls[c].grant
  <2>1. At(c, "consume") /\ UNCHANGED <<bindings, credentialValid, targets, drafts, replays, changes>>
    BY <1>6 DEF ConsumeGrant
  <2>2. calls[c] # Waiting /\ calls[c] \in MutationCalls
    BY <1>w, <2>1 DEF CallPCs
  <2>3. g \in Grants /\ calls[c].key \in MutationKeys
    BY <2>2 DEF MutationCalls
  <2>4. grants[g] # Unissued /\ grants[g].mutation = calls[c].mutation /\ grants[g] \in GrantRecords
    BY <2>1, <2>3 DEF CallOK, At, GrantsTypeOK
  <2>5. CASE UNCHANGED grants /\ Leave(c)
    <3>1. GrantsTypeOK'
      BY <1>l, <2>1, <2>5 DEF GrantsTypeOK
    <3>2. Advance
      BY <1>v, <2>1, <2>5
    <3> QED BY <1>g, <1>c, <1>l, <2>1, <2>5, <3>1, <3>2, ChangesKept
  <2>6. CASE UNCHANGED grants /\ Goto(c, "mutate") /\ grants[g].consumedBy = calls[c].key
    <3>1. PICK rec \in MutationCalls :
               /\ calls' = [calls EXCEPT ![c] = rec] /\ calls'[c] = rec
               /\ rec.pc = "mutate" /\ rec.grant = calls[c].grant
               /\ rec.mutation = calls[c].mutation /\ rec.key = calls[c].key
      BY <1>m, <2>2, <2>6 DEF CallPCs
    <3>2. GrantsTypeOK'
      BY <2>1, <2>6, <3>1 DEF GrantsTypeOK
    <3>3. CallOK(c)'
      BY <2>4, <2>6, <3>1 DEF CallOK, SpentFor
    <3>4. Advance
      BY <1>v, <2>1, <2>6
    <3> QED BY <1>g, <1>c, <2>1, <2>6, <3>1, <3>2, <3>3, <3>4, ChangesKept
  <2>7. ASSUME Consumable(g), Goto(c, "mutate"),
               grants' = [grants EXCEPT ![g].consumedBy = calls[c].key, ![g].version = 2]
        PROVE  GrantsInv'
    <3> DEFINE grant == grants[g]
               key == calls[c].key
               spent == [[grant EXCEPT !.consumedBy = key] EXCEPT !.version = 2]
    <3>1. grants' = [grants EXCEPT ![g] = spent]
      BY <2>3, <2>7 DEF GrantsTypeOK
    <3>2. grant \in GrantRecords /\ grant.version = 1 /\ key \in MutationKeys
      BY <2>3, <2>4, <2>7 DEF Consumable
    <3>3. grant.consumedBy = Unused
      BY <2>3, <2>4, <3>2 DEF GrantOK
    <3> HIDE DEF grant, key
    <3>4. /\ spent \in GrantRecords /\ spent.mutation = grant.mutation
          /\ spent.consumedBy = key /\ spent.version = 2
      BY <3>2 DEF GrantRecords
    <3> HIDE DEF spent, g
    <3>5. spent # Unissued /\ key # Unused
      <4>1. Unissued.version = 0
        BY DEF Unissued
      <4>2. key # Unused
        BY <3>2 DEF Unused
      <4> QED BY <3>4, <4>1, <4>2
    <3>6. \A x \in Grants : grants'[x] = IF x = g THEN spent ELSE grants[x]
      BY <3>1 DEF GrantsTypeOK
    <3>7. PICK rec \in MutationCalls :
               /\ calls' = [calls EXCEPT ![c] = rec] /\ calls'[c] = rec
               /\ rec.pc = "mutate" /\ rec.grant = calls[c].grant
               /\ rec.mutation = calls[c].mutation /\ rec.key = calls[c].key
      BY <1>m, <2>2, <2>7 DEF CallPCs
    <3>8. GrantsTypeOK'
      BY <2>1, <3>1, <3>4, <3>7 DEF GrantsTypeOK
    <3>9. Advance
      BY <2>1, <2>4, <3>3, <3>4, <3>5, <3>6 DEF Advance, GrantsTypeOK, grant
    <3>10. CallOK(c)'
      BY <2>3, <2>4, <3>4, <3>5, <3>6, <3>7 DEF CallOK, SpentFor, g, key, grant
    <3>11. \A x \in Grants : GrantOK(x)'
      BY <3>4, <3>5, <3>6 DEF GrantOK
    <3> QED BY <1>c, <2>1, <3>7, <3>8, <3>9, <3>10, <3>11, ChangesKept
  <2> QED BY <1>6, <2>5, <2>6, <2>7 DEF ConsumeGrant
\* A call past its confirmation goes on.
<1>p. ASSUME NEW c \in Calls, NEW from \in {"mutate", "create", "publish"}, At(c, from),
             NEW to \in {"create", "publish", "save"}, Goto(c, to), UNCHANGED grants,
             to = "create" => calls[c].mutation.tool = "configure_route",
             to = "publish" => calls[c].mutation.tool = "publish_route"
      PROVE  /\ CallOK(c)' /\ calls' \in [Calls -> {Waiting} \cup MutationCalls]
             /\ \E rec : calls' = [calls EXCEPT ![c] = rec]
  <2>1. calls[c] # Waiting
    BY <1>p, <1>w DEF CallPCs
  <2>2. PICK rec \in MutationCalls :
               /\ calls' = [calls EXCEPT ![c] = rec] /\ calls'[c] = rec
               /\ rec.pc = to /\ rec.grant = calls[c].grant
               /\ rec.mutation = calls[c].mutation /\ rec.key = calls[c].key
    BY <1>m, <1>p, <2>1 DEF CallPCs
  <2>3. CallOK(c)'
    BY <1>p, <2>2 DEF CallOK, SpentFor, At
  <2> QED BY <2>2, <2>3 DEF GrantsTypeOK
<1>b. ASSUME NEW t \in {"seller", "paid_route"}, Bump(t), UNCHANGED grants, drafts \subseteq drafts'
      PROVE  /\ Advance /\ targets' \in [{"seller", "paid_route"} -> Nat]
             /\ targets'[t] = targets[t] + 1
  BY <1>b DEF Bump, Advance, GrantsTypeOK
\* The change of a call whose target has the version that was confirmed.
<1>r. ASSUME NEW c \in Calls, NEW from \in {"mutate", "publish"}, At(c, from),
             calls[c].mutation.tool # "configure_route", ExpectedVersionHolds(c),
             NEW t \in {"seller", "paid_route"}, TargetOf(calls[c].mutation.tool) = t,
             Bump(t), Changed(c), Goto(c, "save"), UNCHANGED <<grants, drafts>>
      PROVE  GrantsInv'
  <2> DEFINE call == calls[c]
             m == call.mutation
             change == [mutation |-> m, grant |-> call.grant, key |-> call.key, found |-> targets[t]]
  <2>1. call \in MutationCalls
    BY <1>r, <1>w DEF CallPCs
  <2>2. m \in Mutations /\ call.grant \in Grants /\ call.key \in MutationKeys
    BY <2>1 DEF MutationCalls
  <2>3. targets[t] = m.expected /\ targets[t] \in Nat
    BY <1>r, <2>2, TargetType DEF ExpectedVersionHolds
  <2>4. SpentFor(call.grant, m, call.key)
    BY <1>r DEF CallOK, At
  <2>5. changes' = Append(changes, change)
    BY <1>r DEF Changed
  <2>6. /\ Advance /\ targets' \in [{"seller", "paid_route"} -> Nat]
        /\ targets'[t] = targets[t] + 1
    BY <1>r, <1>b
  <2>7. /\ CallOK(c)' /\ calls' \in [Calls -> {Waiting} \cup MutationCalls]
        /\ \E rec : calls' = [calls EXCEPT ![c] = rec]
    BY <1>r, <1>p
  <2>8. /\ change \in ChangeRecords /\ change.mutation = m /\ change.grant = call.grant
        /\ change.key = call.key /\ change.found = targets[t]
    BY <2>2, <2>3 DEF ChangeRecords
  <2>c. PICK made \in ChangeRecords : change = made
    BY <2>8
  <2>9. GrantsTypeOK'
    BY <1>r, <2>5, <2>6, <2>7, <2>8 DEF GrantsTypeOK
  <2>10. ChangeOK(made)'
    <3>1. made.mutation = m /\ made.grant = call.grant /\ made.key = call.key /\ made.found = targets[t]
      BY <2>8, <2>c
    <3>2. SpentFor(made.grant, made.mutation, made.key)'
      BY <1>r, <2>4, <3>1 DEF SpentFor
    <3>3. targets'[TargetOf(made.mutation.tool)] > made.mutation.expected
      BY <1>r, <2>3, <2>6, <3>1
    <3> QED BY <1>r, <2>3, <3>1, <3>2, <3>3 DEF ChangeOK, SpentFor
  <2>11. ChangesOK'
    <3>1. made.mutation = m /\ changes' = Append(changes, made)
      BY <2>5, <2>8, <2>c
    <3> HIDE DEF change, m
    <3> QED BY <1>r, <2>3, <2>6, <2>9, <2>10, <3>1, ChangeAdded DEF m
  <2> QED BY <1>c, <1>g, <1>r, <2>6, <2>7, <2>9, <2>11
<1>7. ASSUME NEW c \in Calls, ConfigureStorefront(c)
      PROVE  GrantsInv'
  <2>1. calls[c].mutation.tool = "configure_storefront"
    BY <1>7 DEF ConfigureStorefront, Mutating
  <2>2. TargetOf(calls[c].mutation.tool) = "seller"
    BY <2>1 DEF TargetOf
  <2> QED BY <1>7, <1>r, <2>1, <2>2 DEF ConfigureStorefront, Mutating
<1>8. ASSUME NEW c \in Calls, ChangeRoutePrice(c)
      PROVE  GrantsInv'
  <2>1. calls[c].mutation.tool = "change_route_price"
    BY <1>8 DEF ChangeRoutePrice, Mutating
  <2>2. TargetOf(calls[c].mutation.tool) = "paid_route"
    BY <2>1 DEF TargetOf
  <2> QED BY <1>8, <1>r, <2>1, <2>2 DEF ChangeRoutePrice, Mutating
<1>9. ASSUME NEW c \in Calls, PublishRoute(c)
      PROVE  GrantsInv'
  <2>1. calls[c].mutation.tool = "publish_route"
    BY <1>9 DEF PublishRoute, At, CallOK
  <2>2. TargetOf(calls[c].mutation.tool) = "paid_route"
    BY <2>1 DEF TargetOf
  <2> QED BY <1>9, <1>r, <2>1, <2>2 DEF PublishRoute
<1>10. ASSUME NEW c \in Calls, ConfigureRoute(c)
      PROVE  GrantsInv'
  <2>1. /\ At(c, "mutate") /\ calls[c].mutation.tool = "configure_route" /\ Goto(c, "create")
        /\ UNCHANGED <<grants, bindings, credentialValid, targets, drafts, replays, changes>>
    BY <1>10 DEF ConfigureRoute, Mutating
  <2>2. /\ CallOK(c)' /\ calls' \in [Calls -> {Waiting} \cup MutationCalls]
        /\ \E rec : calls' = [calls EXCEPT ![c] = rec]
    BY <1>p, <2>1
  <2>3. GrantsTypeOK'
    BY <2>1, <2>2 DEF GrantsTypeOK
  <2> QED BY <1>c, <1>g, <1>v, <2>1, <2>2, <2>3, ChangesKept
<1>11. ASSUME NEW c \in Calls, PublishRouteSandbox(c)
      PROVE  GrantsInv'
  <2>1. /\ At(c, "mutate") /\ calls[c].mutation.tool = "publish_route" /\ Goto(c, "publish")
        /\ Bump("seller")
        /\ UNCHANGED <<grants, bindings, credentialValid, drafts, replays, changes>>
    BY <1>11 DEF PublishRouteSandbox, Mutating
  <2>2. /\ CallOK(c)' /\ calls' \in [Calls -> {Waiting} \cup MutationCalls]
        /\ \E rec : calls' = [calls EXCEPT ![c] = rec]
    BY <1>p, <2>1
  <2>3. Advance /\ targets' \in [{"seller", "paid_route"} -> Nat]
    BY <1>b, <2>1
  <2>4. GrantsTypeOK'
    BY <2>1, <2>2, <2>3 DEF GrantsTypeOK
  <2> QED BY <1>c, <1>g, <2>1, <2>2, <2>3, <2>4, ChangesKept
<1>12. ASSUME NEW c \in Calls, CreateDraft(c)
      PROVE  GrantsInv'
  <2> DEFINE call == calls[c]
             m == call.mutation
             found == targets[TargetOf(m.tool)]
             change == [mutation |-> m, grant |-> call.grant, key |-> call.key, found |-> found]
  <2>1. /\ At(c, "create") /\ Goto(c, "save") /\ m.arguments \notin drafts
        /\ drafts' = drafts \cup {m.arguments}
        /\ changes' = Append(changes, change)
        /\ UNCHANGED <<grants, bindings, credentialValid, targets, replays>>
    BY <1>12 DEF CreateDraft, Changed
  <2>2. call \in MutationCalls
    BY <2>1, <1>w DEF CallPCs
  <2>3. m \in Mutations /\ call.grant \in Grants /\ call.key \in MutationKeys
    BY <2>2 DEF MutationCalls
  <2>4. SpentFor(call.grant, m, call.key) /\ m.tool = "configure_route"
    BY <2>1 DEF CallOK, At
  <2>5. found \in Nat
    BY <2>3, TargetType
  <2>6. Advance
    BY <2>1 DEF Advance, GrantsTypeOK
  <2>7. /\ CallOK(c)' /\ calls' \in [Calls -> {Waiting} \cup MutationCalls]
        /\ \E rec : calls' = [calls EXCEPT ![c] = rec]
    BY <1>p, <2>1
  <2> HIDE DEF found
  <2>8. /\ change \in ChangeRecords /\ change.mutation = m /\ change.grant = call.grant
        /\ change.key = call.key
    BY <2>3, <2>5 DEF ChangeRecords
  <2>c. PICK made \in ChangeRecords : change = made
    BY <2>8
  <2>9. GrantsTypeOK'
    BY <2>1, <2>7, <2>8 DEF GrantsTypeOK
  <2>10. ChangeOK(made)'
    <3>1. made.mutation = m /\ made.grant = call.grant /\ made.key = call.key
      BY <2>8, <2>c
    <3>2. SpentFor(made.grant, made.mutation, made.key)'
      BY <2>1, <2>4, <3>1 DEF SpentFor
    <3> QED BY <2>1, <2>4, <3>1, <3>2 DEF ChangeOK, SpentFor
  <2>11. ChangesOK'
    <3>1. made.mutation = m /\ changes' = Append(changes, made)
      BY <2>1, <2>8, <2>c
    <3> HIDE DEF change, m
    <3> QED BY <2>1, <2>4, <2>6, <2>9, <2>10, <3>1, ChangeAdded
  <2> QED BY <1>c, <1>g, <2>1, <2>6, <2>7, <2>9, <2>11
<1>13. ASSUME NEW c \in Calls, SaveReplay(c) \/ CutOffCall(c)
      PROVE  GrantsInv'
  <2>1. Leave(c) /\ UNCHANGED <<grants, targets, drafts, changes>>
    BY <1>13 DEF SaveReplay, CutOffCall
  <2>2. GrantsTypeOK'
    BY <1>l, <2>1 DEF GrantsTypeOK
  <2>3. Advance
    BY <1>v, <2>1
  <2> QED BY <1>c, <1>g, <1>l, <2>1, <2>2, <2>3, ChangesKept
<1>14. ASSUME NEW t \in DOMAIN targets, OtherWriter(t)
      PROVE  GrantsInv'
  <2>1. t \in {"seller", "paid_route"}
    BY DEF GrantsTypeOK
  <2>2. Bump(t) /\ UNCHANGED <<grants, drafts, calls, changes>>
    BY <1>14 DEF OtherWriter
  <2>3. Advance /\ targets' \in [{"seller", "paid_route"} -> Nat]
    BY <1>b, <2>1, <2>2
  <2>4. GrantsTypeOK'
    BY <2>2, <2>3 DEF GrantsTypeOK
  <2> QED BY <1>u, <1>g, <2>2, <2>3, <2>4, ChangesKept
<1>15. CASE UNCHANGED grantVars
  <2>1. GrantsTypeOK'
    BY <1>15 DEF grantVars, GrantsTypeOK
  <2> QED BY <1>15, <1>v, <1>g, <1>u, <2>1, ChangesKept DEF grantVars
<1> QED
  BY <1>1, <1>2, <1>3, <1>4, <1>5, <1>6, <1>7, <1>8, <1>9, <1>10, <1>11, <1>12, <1>13,
     <1>14, <1>15 DEF GrantsNext

\* An MCP tool changes a target only for a grant that was confirmed for
\* exactly this mutation and spent under this key, on the version that was
\* shown to the seller, and no mutation happens twice.
THEOREM ConfirmedChangesHappenOnce == GrantsSpec => []ConfirmedOnceAsSeen
<1>1. GrantsInv => ConfirmedOnceAsSeen
  BY DEF GrantsInv, ChangesOK, ChangeOK, SpentFor, ConfirmedOnceAsSeen
<1> QED
  BY <1>1, GrantsInitOK, GrantsNextOK, PTL DEF GrantsSpec
=============================================================================

--------------------------- MODULE ApprovalSession ---------------------------
(***************************************************************************)
(* One approval session (internal/approvals) and its live updates          *)
(* (internal/realtime).  The session is stored as a profile with a version *)
(* and one record for each invitation; they are written in one transaction *)
(* but read in two calls, so a request may see the profile of one version  *)
(* with the decisions of a later one.                                      *)
(*                                                                         *)
(* Decide and Get are the same first steps: both read, both may write on   *)
(* the version they read, both publish what they wrote.                    *)
(***************************************************************************)
EXTENDS Naturals, FiniteSets

CONSTANTS
    Approvers,      \* the invited: exactly two in the code
    ApproverCalls,  \* calls of Decide and Get in progress
    Sockets         \* WebSocket connections

ASSUME ApprovalAssumption == IsFiniteSet(Approvers)

VARIABLES
    profile,        \* status and version of the session
    decisions,      \* decisions[a]: the invitation record of a
    deadline,       \* the clock has reached expiresAt
    deciding,       \* deciding[d]: a call and what it read
    socket,         \* socket[k]: a connection and the snapshot it is to get
    shown,          \* ghost: outcomes that connections were shown
    paid            \* a payment was let through on the approval token

approvalVars == <<profile, decisions, deadline, deciding, socket, shown, paid>>
-----------------------------------------------------------------------------
Decisions == {"approve", "veto"}
NotCreated == [status |-> "none", version |-> 0]
NoDecision == [pc |-> "idle"]
Detached == [pc |-> "closed"]

ApprovalInit ==
    /\ profile = NotCreated
    /\ decisions = [a \in Approvers |-> "none"]
    /\ deadline = FALSE
    /\ deciding = [d \in ApproverCalls |-> NoDecision]
    /\ socket = [k \in Sockets |-> Detached]
    /\ shown = {}
    /\ paid = FALSE

NewSession == [status |-> "pending", version |-> 1]

CreateApprovalSession ==
    /\ profile = NotCreated
    /\ ~deadline
    /\ profile' = NewSession
    /\ UNCHANGED <<decisions, deadline, deciding, socket, shown, paid>>

DeadlineReached ==
    /\ ~deadline
    /\ deadline' = TRUE
    /\ UNCHANGED <<profile, decisions, deciding, socket, shown, paid>>
-----------------------------------------------------------------------------
(* Decide and Get *)

\* Repository.Get, first call.  The operation is the decision of an approver,
\* or "read" for Get.
ReadProfile(d, a, operation) ==
    /\ deciding[d] = NoDecision
    /\ profile # NotCreated
    /\ deciding' = [deciding EXCEPT ![d] =
          [pc |-> "query", approver |-> a, operation |-> operation,
           profile |-> profile, decisions |-> decisions]]
    /\ UNCHANGED <<profile, decisions, deadline, socket, shown, paid>>

\* Repository.Get, second call.
ReadInvitations(d) ==
    /\ deciding[d].pc = "query"
    /\ deciding' = [deciding EXCEPT ![d].pc = "write", ![d].decisions = decisions]
    /\ UNCHANGED <<profile, decisions, deadline, socket, shown, paid>>

ApprovalCount(view) == Cardinality({a \in Approvers : view[a] = "approve"})

\* Session.Decide on the view of the call, which holds a's decision already.
Resolution(view, decision) ==
    IF decision = "veto" THEN "vetoed"
    ELSE IF ApprovalCount(view) < Cardinality(Approvers) THEN "pending" ELSE "approved"

\* Faulty variant: the write is not conditional.
FaultyVersionIsRead(d) == TRUE

\* The condition of writeSession.
VersionIsRead(d) == profile.version = deciding[d].profile.version

StoreSession(d, status, view) ==
    /\ VersionIsRead(d)
    /\ profile' = [status |-> status, version |-> deciding[d].profile.version + 1]
    /\ decisions' = view
    /\ deciding' = [deciding EXCEPT ![d] =
          [pc |-> "publish", status |-> status]]

DecideSession(d) ==
    /\ deciding[d].pc = "write"
    /\ deciding[d].operation \in Decisions
    /\ deciding[d].profile.status = "pending"
    /\ ~deadline
    /\ LET a == deciding[d].approver
           view == [deciding[d].decisions EXCEPT ![a] = deciding[d].operation]
       IN  /\ deciding[d].decisions[a] = "none"
           /\ StoreSession(d, Resolution(view, deciding[d].operation), view)
    /\ UNCHANGED <<deadline, socket, shown, paid>>

\* Get stores the expiry it finds; Decide only reports it.
ExpireSession(d) ==
    /\ deciding[d].pc = "write"
    /\ deciding[d].operation = "read"
    /\ deciding[d].profile.status = "pending"
    /\ deadline
    /\ StoreSession(d, "expired", deciding[d].decisions)
    /\ UNCHANGED <<deadline, socket, shown, paid>>

\* A refused decision, a plain read, a lost race, an error or a crash.
LeaveSession(d) ==
    /\ deciding[d] # NoDecision
    /\ deciding' = [deciding EXCEPT ![d] = NoDecision]
    /\ UNCHANGED <<profile, decisions, deadline, socket, shown, paid>>
-----------------------------------------------------------------------------
(* Live updates *)

\* What a snapshot tells of the outcome; its invitations may be of a later version.
Outcome(status) == {status} \ {"pending"}

\* Register: AuthorizeInvitation and Get, torn like every read of the session.
ReadSnapshot(k) ==
    /\ socket[k] = Detached
    /\ profile # NotCreated
    /\ ~(deadline /\ profile.status = "pending")
    /\ socket' = [socket EXCEPT ![k] = [pc |-> "query", status |-> profile.status]]
    /\ UNCHANGED <<profile, decisions, deadline, deciding, shown, paid>>

RegisterConnection(k) ==
    /\ socket[k].pc = "query"
    /\ ~deadline
    /\ socket' = [socket EXCEPT ![k].pc = "registered"]
    /\ UNCHANGED <<profile, decisions, deadline, deciding, shown, paid>>

\* The snapshot is sent after the registration: events may come before it.
SendSnapshot(k) ==
    /\ socket[k].pc = "registered"
    /\ shown' = shown \cup Outcome(socket[k].status)
    /\ socket' = [socket EXCEPT ![k] = [pc |-> "open"]]
    /\ UNCHANGED <<profile, decisions, deadline, deciding, paid>>

Disconnect(k) ==
    /\ socket[k] # Detached
    /\ socket' = [socket EXCEPT ![k] = Detached]
    /\ UNCHANGED <<profile, decisions, deadline, deciding, shown, paid>>

\* PublishApprovalEvent: whoever is registered may get the event; connections
\* past the deadline, and those found gone, are deleted.
PublishApprovalEvent(d) ==
    /\ deciding[d].pc = "publish"
    /\ LET registered == {k \in Sockets : socket[k].pc \in {"registered", "open"}} IN
       \E reached \in SUBSET registered :
          /\ shown' = IF reached = {} \/ deadline THEN shown
                      ELSE shown \cup Outcome(deciding[d].status)
          /\ socket' = [k \in Sockets |->
                          IF deadline /\ k \in registered THEN Detached ELSE socket[k]]
    /\ deciding' = [deciding EXCEPT ![d] = NoDecision]
    /\ UNCHANGED <<profile, decisions, deadline, paid>>

\* PaidRouteService.verifyApproval: the token, issued with the approval, is
\* not expired and the stored session is approved.
VerifyApproval ==
    /\ ~paid
    /\ ~deadline
    /\ profile.status = "approved"
    /\ paid' = TRUE
    /\ UNCHANGED <<profile, decisions, deadline, deciding, socket, shown>>
-----------------------------------------------------------------------------
ApprovalNext ==
    \/ CreateApprovalSession \/ DeadlineReached \/ VerifyApproval
    \/ \E d \in ApproverCalls :
          \/ \E a \in Approvers, o \in Decisions \cup {"read"} : ReadProfile(d, a, o)
          \/ ReadInvitations(d) \/ DecideSession(d) \/ ExpireSession(d)
          \/ LeaveSession(d) \/ PublishApprovalEvent(d)
    \/ \E k \in Sockets :
          ReadSnapshot(k) \/ RegisterConnection(k) \/ SendSnapshot(k) \/ Disconnect(k)

ApprovalSpec == ApprovalInit /\ [][ApprovalNext]_approvalVars
-----------------------------------------------------------------------------
\* Approval is unanimous and final: a payment is let through, and an approver
\* is shown "approved", only if every invited approver has approved and none
\* has vetoed; and any outcome ever shown is the outcome that is stored,
\* although reads are torn and updates race the snapshot of a new connection.
ApprovalIsUnanimous ==
    /\ profile.status = "approved" \/ paid => \A a \in Approvers : decisions[a] = "approve"
    /\ profile.status = "vetoed" => \E a \in Approvers : decisions[a] = "veto"
    /\ shown \subseteq {profile.status}
=============================================================================

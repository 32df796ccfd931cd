----------------------------- MODULE MCRequests -----------------------------
(***************************************************************************)
(* Instances, for TLC, of the components that answer requests and keep a   *)
(* record of what they answered: purchase intents, browser sessions,       *)
(* approval sessions, confirmation grants, the idempotency records of the  *)
(* HTTP interface, and the evidence chain.  They share no state, so a      *)
(* behaviour is one of the component in focus and the others keep their    *)
(* initial state.                                                          *)
(*                                                                         *)
(* A focus is narrower where the parts of a component do not interact: one *)
(* intent, one tool.  Requests and grants that are alike are taken in      *)
(* order; of handlers with equal descriptions one is explored.             *)
(***************************************************************************)
EXTENDS PurchaseIntent, BrowserPurchase, ApprovalSession, ConfirmationGrants,
        Gateway, EvidenceChain, TLC

VARIABLE focus

requestVars == <<vars, browserVars, approvalVars, grantVars, gatewayVars, evidenceVars, focus>>

\* Every purchase is made in the one browser session.
OneSession == [t \in Purchases |-> CHOOSE s \in PurchaseSessions : TRUE]

Representative(h) == h = CHOOSE g \in Served : Handlers[g] = Handlers[h]

\* The choices that a component makes initially are made when it is in focus.
MCInit ==
    /\ Init /\ BrowserInit /\ ApprovalInit /\ GrantsInit /\ GatewayInit /\ EvidenceInit
    /\ focus \in {"browser", "approval", "gateway", "evidence"} \cup Tools \cup Intents
    /\ IF focus = "gateway" THEN Representative(handler)
       ELSE handler = CHOOSE h \in Served : TRUE
    /\ focus # "evidence" => backend = "s3"

OneIntent == \A i \in Intents \ {focus} : intent[i] = Absent
OneTool ==
    /\ \A g \in Grants : grants[g] # Unissued => grants[g].mutation.tool = focus
    /\ \A c \in Calls : calls[c] # Waiting => calls[c].mutation.tool = focus
GrantsInOrder ==
    \A g \in Grants : g > 1 /\ grants[g] # Unissued => grants[g - 1] # Unissued
FirstCaller == CHOOSE a \in Callers : TRUE
CallsInOrder ==
    /\ \A c \in HTTPCalls : c > 1 /\ call[c] # NoCall => call[c - 1] # NoCall
    /\ call[1].pc = "check" => call[1].request.caller = FirstCaller
\* Where it does not matter who owns the target, the first caller does.
OneOwner ==
    \A c \in HTTPCalls : call[c].pc = "check" /\ ~H.owned => call[c].request.target[1] = FirstCaller

FocusOnIntent ==
    /\ focus \in Intents /\ Next /\ OneIntent'
    /\ UNCHANGED <<browserVars, approvalVars, grantVars, gatewayVars, evidenceVars>>
FocusOnBrowser ==
    /\ focus = "browser" /\ BrowserNext
    /\ UNCHANGED <<vars, approvalVars, grantVars, gatewayVars, evidenceVars>>
FocusOnApproval ==
    /\ focus = "approval" /\ ApprovalNext
    /\ UNCHANGED <<vars, browserVars, grantVars, gatewayVars, evidenceVars>>
FocusOnGrants ==
    /\ focus \in Tools /\ GrantsNext /\ OneTool' /\ GrantsInOrder'
    /\ UNCHANGED <<vars, browserVars, approvalVars, gatewayVars, evidenceVars>>
FocusOnGateway ==
    /\ focus = "gateway" /\ GatewayNext /\ CallsInOrder' /\ OneOwner'
    /\ UNCHANGED <<vars, browserVars, approvalVars, grantVars, evidenceVars>>
FocusOnEvidence ==
    /\ focus = "evidence" /\ EvidenceNext
    /\ UNCHANGED <<vars, browserVars, approvalVars, grantVars, gatewayVars>>

MCNext ==
    /\ UNCHANGED focus
    /\ \/ FocusOnIntent \/ FocusOnBrowser \/ FocusOnApproval
       \/ FocusOnGrants \/ FocusOnGateway \/ FocusOnEvidence
MCSpec == MCInit /\ [][MCNext]_requestVars

\* Components that are never in focus together share model values.
RequestSymmetry == Permutations(Calls) \cup Permutations(MutationKeys)
=============================================================================

------------------------- MODULE ConfirmationGrants -------------------------
(***************************************************************************)
(* Confirmed mutations over MCP (internal/integrations/mcpserver and       *)
(* internal/authorization): a seller confirms one mutation by a grant for  *)
(* its tool, its arguments and the version of its target; a call of the    *)
(* connector spends the grant and makes the change.  One seller with one   *)
(* integration credential, and one paid route.                             *)
(*                                                                         *)
(* A call is: load the replay record, load the grant, spend it, make the   *)
(* change, save the replay record.  Each is a call to the database, and    *)
(* another call, another writer or an interruption may come between two.   *)
(***************************************************************************)
EXTENDS Naturals, Sequences, FiniteSets

CONSTANTS
    Grants,           \* confirmation grants
    Arguments,        \* what a mutation is to write, without the version
    MutationKeys,     \* idempotency keys
    Calls,            \* calls in progress
    MaxTargetVersion  \* bound: versions of the seller and of the route

ASSUME GrantsAssumption == MaxTargetVersion \in Nat \ {0} /\ "unused" \notin MutationKeys

VARIABLES
    grants,           \* grants[g]: the record, Unissued before
    bindings,         \* bindings[m]: the grant that stands for mutation m
    credentialValid,  \* the credential is not revoked and its plan is active
    targets,          \* targets[t]: current version of a target
    drafts,           \* arguments whose product slug is claimed
    replays,          \* replay records: <<tool, key, arguments, version>>
    calls,            \* calls[c]: the call and how far it is
    changes           \* ghost: the changes made, in order

grantVars == <<grants, bindings, credentialValid, targets, drafts, replays, calls, changes>>
-----------------------------------------------------------------------------
Tools == {"configure_storefront", "configure_route", "change_route_price", "publish_route"}
TargetOf(tool) ==
    IF tool \in {"configure_storefront", "configure_route"} THEN "seller" ELSE "paid_route"

\* What confirmationBindingHash covers.
Mutations == [tool : Tools, arguments : Arguments, expected : 1..MaxTargetVersion]
Unissued == [version |-> 0]
Unused == "unused"
Waiting == [pc |-> "idle"]

GrantsInit ==
    /\ grants = [g \in Grants |-> Unissued]
    /\ bindings = [m \in Mutations |-> Unissued]
    /\ credentialValid = TRUE
    /\ targets = [t \in {"seller", "paid_route"} |-> 1]
    /\ drafts = {}
    /\ replays = {}
    /\ calls = [c \in Calls |-> Waiting]
    /\ changes = <<>>
-----------------------------------------------------------------------------
(* The grant *)

\* validateTarget: the seller is read consistently, the route from an index.
ValidTarget(m) ==
    IF TargetOf(m.tool) = "seller" THEN m.expected = targets["seller"]
    ELSE m.expected <= targets["paid_route"]

\* One transaction: the grant is new, its binding replaces an earlier one.
CreateReplacing(g, m) ==
    /\ grants' = [grants EXCEPT ![g] = [mutation |-> m, expired |-> FALSE,
                                        consumedBy |-> Unused, version |-> 1]]
    /\ bindings' = [bindings EXCEPT ![m] = [grant |-> g, version |-> 1]]

CreateGrant(g, m) ==
    /\ grants[g] = Unissued
    /\ credentialValid
    /\ ValidTarget(m)
    /\ CreateReplacing(g, m)
    /\ UNCHANGED <<credentialValid, targets, drafts, replays, calls, changes>>

ExpireGrant(g) ==
    /\ grants[g] # Unissued
    /\ ~grants[g].expired
    /\ grants' = [grants EXCEPT ![g].expired = TRUE]
    /\ UNCHANGED <<bindings, credentialValid, targets, drafts, replays, calls, changes>>

WithdrawCredential ==
    /\ credentialValid
    /\ credentialValid' = FALSE
    /\ UNCHANGED <<grants, bindings, targets, drafts, replays, calls, changes>>
-----------------------------------------------------------------------------
(* One call *)

At(c, pc) == calls[c].pc = pc
Leave(c) == calls' = [calls EXCEPT ![c] = Waiting]
Goto(c, pc) == calls' = [calls EXCEPT ![c].pc = pc]

\* CheckIdempotency: a record of this tool and key is replayed, or refuses
\* other arguments; either way nothing is done.
Recorded(tool, key) == \E r \in replays : r[1] = tool /\ r[2] = key

\* ServeHTTP and the first part of execute.
ServeMutation(c, g, m, key) ==
    /\ calls[c] = Waiting
    /\ credentialValid
    /\ ~Recorded(m.tool, key)
    /\ calls' = [calls EXCEPT ![c] = [pc |-> "load", grant |-> g, mutation |-> m, key |-> key]]
    /\ UNCHANGED <<grants, bindings, credentialValid, targets, drafts, replays, changes>>

\* Faulty variant: the version of the grant is not compared.
FaultyConfirms(grant, m) ==
    grant # Unissued /\ grant.mutation.tool = m.tool /\ grant.mutation.arguments = m.arguments

\* The grant that was loaded is for exactly this mutation.
Confirms(grant, m) == grant # Unissued /\ grant.mutation = m

LoadGrant(c) ==
    /\ At(c, "load")
    /\ LET grant == grants[calls[c].grant]
           valid == Confirms(grant, calls[c].mutation) /\ ~grant.expired
       IN  CASE valid /\ grant.consumedBy = Unused -> Goto(c, "consume")
             [] valid /\ grant.consumedBy = calls[c].key -> Goto(c, "mutate")
             [] OTHER -> Leave(c)
    /\ UNCHANGED <<grants, bindings, credentialValid, targets, drafts, replays, changes>>

\* The condition of the repository's Consume; the version that was loaded is 1.
Consumable(g) ==
    /\ bindings[grants[g].mutation] = [grant |-> g, version |-> 1]
    /\ grants[g].version = 1

ConsumeGrant(c) ==
    /\ At(c, "consume")
    /\ LET g == calls[c].grant IN
       \/ /\ Consumable(g)
          /\ grants' = [grants EXCEPT ![g].consumedBy = calls[c].key, ![g].version = 2]
          /\ Goto(c, "mutate")
       \/ /\ ~Consumable(g)     \* the grant is loaded again
          /\ grants' = grants
          /\ IF grants[g].consumedBy = calls[c].key THEN Goto(c, "mutate") ELSE Leave(c)
    /\ UNCHANGED <<bindings, credentialValid, targets, drafts, replays, changes>>
-----------------------------------------------------------------------------
(* The change *)

Changed(c) ==
    changes' = Append(changes, [mutation |-> calls[c].mutation, grant |-> calls[c].grant,
                                key |-> calls[c].key,
                                found |-> targets[TargetOf(calls[c].mutation.tool)]])

\* The condition of the versioned writes of the catalog (module Catalog).
ExpectedVersionHolds(c) ==
    targets[TargetOf(calls[c].mutation.tool)] = calls[c].mutation.expected

Bump(t) ==
    /\ targets[t] < MaxTargetVersion
    /\ targets' = [targets EXCEPT ![t] = @ + 1]

Mutating(c, tool, pc) == At(c, pc) /\ calls[c].mutation.tool = tool

ConfigureStorefront(c) ==
    /\ Mutating(c, "configure_storefront", "mutate")
    /\ ExpectedVersionHolds(c)
    /\ Bump("seller")
    /\ Changed(c)
    /\ Goto(c, "save")
    /\ UNCHANGED <<grants, bindings, credentialValid, drafts, replays>>

\* configure_route compares the version of the seller, and creates the draft
\* in another call whose condition is the claim of the product slug.
ConfigureRoute(c) ==
    /\ Mutating(c, "configure_route", "mutate")
    /\ ExpectedVersionHolds(c)
    /\ Goto(c, "create")
    /\ UNCHANGED <<grants, bindings, credentialValid, targets, drafts, replays, changes>>

CreateDraft(c) ==
    /\ At(c, "create")
    /\ calls[c].mutation.arguments \notin drafts
    /\ drafts' = drafts \cup {calls[c].mutation.arguments}
    /\ Changed(c)
    /\ Goto(c, "save")
    /\ UNCHANGED <<grants, bindings, credentialValid, targets, replays>>

ChangeRoutePrice(c) ==
    /\ Mutating(c, "change_route_price", "mutate")
    /\ ExpectedVersionHolds(c)
    /\ Bump("paid_route")
    /\ Changed(c)
    /\ Goto(c, "save")
    /\ UNCHANGED <<grants, bindings, credentialValid, drafts, replays>>

\* The sandbox records its result at the seller before the route is published.
PublishRouteSandbox(c) ==
    /\ Mutating(c, "publish_route", "mutate")
    /\ Bump("seller")
    /\ Goto(c, "publish")
    /\ UNCHANGED <<grants, bindings, credentialValid, drafts, replays, changes>>

PublishRoute(c) ==
    /\ At(c, "publish")
    /\ ExpectedVersionHolds(c)
    /\ Bump("paid_route")
    /\ Changed(c)
    /\ Goto(c, "save")
    /\ UNCHANGED <<grants, bindings, credentialValid, drafts, replays>>

\* SaveIfAbsent: of two calls with one key the first saves its answer.
SaveReplay(c) ==
    /\ At(c, "save")
    /\ LET m == calls[c].mutation
       IN  replays' = IF Recorded(m.tool, calls[c].key) THEN replays
                      ELSE replays \cup {<<m.tool, calls[c].key, m>>}
    /\ Leave(c)
    /\ UNCHANGED <<grants, bindings, credentialValid, targets, drafts, changes>>

\* A refused change, a failed call or a crash: what is stored remains.
CutOffCall(c) ==
    /\ calls[c] # Waiting
    /\ Leave(c)
    /\ UNCHANGED <<grants, bindings, credentialValid, targets, drafts, replays, changes>>

\* The dashboard changes the target.
OtherWriter(t) ==
    /\ Bump(t)
    /\ UNCHANGED <<grants, bindings, credentialValid, drafts, replays, calls, changes>>
-----------------------------------------------------------------------------
GrantsNext ==
    \/ \E g \in Grants : ExpireGrant(g) \/ \E m \in Mutations : CreateGrant(g, m)
    \/ WithdrawCredential
    \/ \E c \in Calls, g \in Grants, m \in Mutations, key \in MutationKeys :
          ServeMutation(c, g, m, key)
    \/ \E c \in Calls :
          \/ LoadGrant(c) \/ ConsumeGrant(c) \/ ConfigureStorefront(c)
          \/ ConfigureRoute(c) \/ CreateDraft(c) \/ ChangeRoutePrice(c)
          \/ PublishRouteSandbox(c) \/ PublishRoute(c) \/ SaveReplay(c) \/ CutOffCall(c)
    \/ \E t \in DOMAIN targets : OtherWriter(t)

GrantsSpec == GrantsInit /\ [][GrantsNext]_grantVars
-----------------------------------------------------------------------------
\* What a seller confirmed happens at most once and as confirmed: whatever is
\* retried, repeated with another key or another grant, or cut off between
\* spending the grant and saving the answer, one mutation (tool, arguments,
\* version) changes its target at most once, the call that did held a grant for
\* exactly this mutation that was spent under its own key, and the target had
\* the version the seller saw.  (configure_route compares the version in an
\* earlier call, so there the version may have moved on.)
ConfirmedOnceAsSeen ==
    /\ \A i, j \in DOMAIN changes : changes[i].mutation = changes[j].mutation => i = j
    /\ \A i \in DOMAIN changes :
          LET change == changes[i] IN
          /\ grants[change.grant].mutation = change.mutation
          /\ grants[change.grant].consumedBy = change.key
          /\ change.mutation.tool # "configure_route"
                => change.found = change.mutation.expected
=============================================================================

------------------------------ MODULE Workspace ------------------------------
(***************************************************************************)
(* The seller workspace (internal/sellerworkspace) and the sandbox         *)
(* validation (internal/integrations/sandbox).  One record per seller      *)
(* holds the settings and the progress that is not derived from other      *)
(* records: that the connector was seen, that the storefront was           *)
(* previewed, and the latest result of a sandbox validation.  Settings,    *)
(* connector, preview and validator all read it and put it back whole.     *)
(* The record and what is derived decide whether the seller may publish    *)
(* and whether anything of his is on sale.                                 *)
(***************************************************************************)
EXTENDS Naturals, Sequences

CONSTANTS
    Products,        \* paid routes of the seller
    Prerequisites,   \* derived steps: service, subscription, destination, project key
    Works,           \* requests in progress
    MaxSettings,     \* bound: settings written
    MaxProductVersion,      \* bound: version of a product
    MaxWorkspace     \* bound: version of the workspace

ASSUME WorkspaceAssumption == {MaxSettings, MaxProductVersion, MaxWorkspace} \subseteq Nat

VARIABLES
    product,     \* product[p]: version and status of a route
    met,         \* the prerequisites that hold at present
    workspace,   \* the stored WorkspaceState
    acked,       \* ghost: what the writers were told is stored
    work         \* work[w]: a request and what it has read

workspaceVars == <<product, met, workspace, acked, work>>
-----------------------------------------------------------------------------
NoProduct == [version |-> 0, status |-> "none"]
NoResult == [product |-> "none", version |-> 0, valid |-> FALSE]
NoWorkspace == [version |-> 0, connector |-> FALSE, previewed |-> FALSE,
                result |-> NoResult, settings |-> 0, settingsVersion |-> 0]
NoWork == [pc |-> "resting"]

WorkspaceInit ==
    /\ product = [p \in Products |-> NoProduct]
    /\ met = {}
    /\ workspace = NoWorkspace
    /\ acked = NoWorkspace
    /\ work = [w \in Works |-> NoWork]

\* A valid result counts while its product has the version it was obtained for,
\* or the one that publishing gave it.
integrationVerificationCurrent(result) ==
    /\ result.valid
    /\ result.product \in Products
    /\ LET p == product[result.product]
       IN  \/ p.version = result.version
           \/ p.status = "published" /\ p.version = result.version + 1

\* buildOnboardingView, as far as publication looks at it; the preview does not
\* block.
Allowed(state) ==
    /\ state.version # 0
    /\ met = Prerequisites
    /\ state.connector
    /\ \E p \in Products : product[p] # NoProduct
    /\ integrationVerificationCurrent(state.result)
-----------------------------------------------------------------------------
\* The environment: records that other components own.
serviceConnectionReady(s) ==
    /\ met' = IF s \in met THEN met \ {s} ELSE met \cup {s}
    /\ UNCHANGED <<product, workspace, acked, work>>

ConfigureProduct(p) ==
    /\ product[p] = NoProduct
    /\ product' = [product EXCEPT ![p] = [version |-> 1, status |-> "draft"]]
    /\ UNCHANGED <<met, workspace, acked, work>>

\* An edit of a product that is offline, or a new price of a published one.
EditProduct(p) ==
    /\ product[p].version \in 1..MaxProductVersion - 1
    /\ product' = [product EXCEPT ![p].version = @ + 1]
    /\ UNCHANGED <<met, workspace, acked, work>>

PauseProduct(p) ==
    /\ product[p].status = "published" /\ product[p].version < MaxProductVersion
    /\ product' = [product EXCEPT ![p] = [version |-> @.version + 1, status |-> "paused"]]
    /\ UNCHANGED <<met, workspace, acked, work>>
-----------------------------------------------------------------------------
\* Faulty variant: the put does not look at the version.
FaultyUnchangedSince(version) == TRUE

\* The condition of Put.
UnchangedSince(version) == workspace.version = version

\* Every writer raises the version and gives it to the settings.
Stamped(state) == [state EXCEPT !.version = @ + 1, !.settingsVersion = state.version + 1]

StartWork(w, next) ==
    /\ work[w] = NoWork
    /\ work' = [work EXCEPT ![w] = next]
    /\ UNCHANGED <<product, met, workspace, acked>>
Done(w) == work' = [work EXCEPT ![w] = NoWork]

\* loadOrCreateState, for the owner; the workspace is created on first sight.
LoadState(w, purpose) ==
    /\ workspace # NoWorkspace
    /\ StartWork(w, [pc |-> purpose, state |-> workspace])
LoadNothing(w) ==
    /\ workspace = NoWorkspace
    /\ StartWork(w, [pc |-> "create"])
CreateState(w) ==
    /\ work[w].pc = "create"
    /\ UnchangedSince(0)
    /\ workspace' = Stamped(NoWorkspace)
    /\ acked' = workspace'
    /\ Done(w)
    /\ UNCHANGED <<product, met>>

\* The put that ends each writer, and the answer to its caller.
PutState(w, state) ==
    /\ UnchangedSince(work[w].state.version)
    /\ work[w].state.version < MaxWorkspace
    /\ workspace' = Stamped(state)
    /\ Done(w)
    /\ UNCHANGED <<product, met>>

\* The expected version of UpdateSettings is the one that was read: a request
\* with another one is refused.
UpdateSettings(w) ==
    /\ work[w].pc = "settings"
    /\ acked.settings < MaxSettings
    /\ PutState(w, [work[w].state EXCEPT !.settings = acked.settings + 1])
    /\ acked' = [acked EXCEPT !.settings = @ + 1]

\* recordProgress with the preview
RecordStorefrontPreview(w) ==
    /\ work[w].pc = "preview"
    /\ PutState(w, [work[w].state EXCEPT !.previewed = TRUE])
    /\ acked' = [acked EXCEPT !.previewed = TRUE]

\* A lost race is no failure when the other request recorded the same.
RecordAuthenticatedConnectorVerification(w) ==
    /\ work[w].pc = "connector"
    /\ ~work[w].state.connector
    /\ \/ /\ PutState(w, [work[w].state EXCEPT !.connector = TRUE])
          /\ acked' = [acked EXCEPT !.connector = TRUE]
       \/ /\ ~UnchangedSince(work[w].state.version)
          /\ workspace.connector
          /\ Done(w)
          /\ UNCHANGED <<product, met, workspace, acked>>

\* Every refusal, lost race and cut-off, and what needs no writing.
LeaveWork(w) ==
    /\ work[w] # NoWork
    /\ Done(w)
    /\ UNCHANGED <<product, met, workspace, acked>>
-----------------------------------------------------------------------------
\* The sandbox: no request for a published product.  Five probes, in order.
Probes == <<"unsigned", "invalid", "tampered", "signed", "replayed">>

Validate(w, p) ==
    /\ product[p] # NoProduct /\ product[p].status # "published"
    /\ StartWork(w, [pc |-> "probe", product |-> p, version |-> product[p].version,
                 next |-> 1, passed |-> TRUE])

\* A probe is answered as the contract requires, or differently, or not at all;
\* without an answer the validation ends at once.
Probe(w, reply) ==
    /\ work[w].pc = "probe"
    /\ LET passed == work[w].passed /\ reply = "required"
           result == [product |-> work[w].product, version |-> work[w].version,
                      valid |-> passed]
       IN  work' = [work EXCEPT ![w] =
                      IF reply = "none" \/ work[w].next = Len(Probes)
                      THEN [pc |-> "match", result |-> result]
                      ELSE [pc |-> "probe", product |-> @.product, version |-> @.version,
                            next |-> @.next + 1, passed |-> passed]]
    /\ UNCHANGED <<product, met, workspace, acked>>

\* finish, whose note on the endpoint is an action of Catalog, and the start of
\* RecordIntegrationVerification: the result must still be about the
\* current version of its product, then the workspace is read.
MatchResult(w) ==
    /\ work[w].pc = "match"
    /\ product[work[w].result.product].version = work[w].result.version
    /\ work' = [work EXCEPT ![w] = [pc |-> "load", result |-> @.result]]
    /\ UNCHANGED <<product, met, workspace, acked>>

LoadForResult(w) ==
    /\ work[w].pc = "load"
    /\ workspace # NoWorkspace
    /\ work' = [work EXCEPT ![w] = [pc |-> "record", result |-> @.result, state |-> workspace]]
    /\ UNCHANGED <<product, met, workspace, acked>>

RecordIntegrationVerification(w) ==
    /\ work[w].pc = "record"
    /\ PutState(w, [work[w].state EXCEPT !.result = work[w].result])
    /\ acked' = [acked EXCEPT !.result = work[w].result]
-----------------------------------------------------------------------------
\* AuthorizePublication: the workspace first, then everything else.
LoadForGate(w, p) ==
    /\ product[p] # NoProduct /\ product[p].status # "published"
    /\ workspace # NoWorkspace
    /\ StartWork(w, [pc |-> "gate", product |-> p, state |-> workspace])

Gate(w) ==
    /\ work[w].pc = "gate"
    /\ Allowed(work[w].state)
    /\ work' = [work EXCEPT ![w] = [pc |-> "publish", product |-> @.product,
                                    version |-> product[@.product].version]]
    /\ UNCHANGED <<product, met, workspace, acked>>

\* The conditional write of the product.
Publish(w) ==
    /\ work[w].pc = "publish"
    /\ LET p == work[w].product
       IN  /\ product[p].version = work[w].version /\ product[p].version < MaxProductVersion
           /\ product[p].status # "published"
           /\ product' = [product EXCEPT ![p] = [version |-> @.version + 1,
                                                 status |-> "published"]]
    /\ Done(w)
    /\ UNCHANGED <<met, workspace, acked>>
-----------------------------------------------------------------------------
WorkspaceNext ==
    \/ \E s \in Prerequisites : serviceConnectionReady(s)
    \/ \E p \in Products : ConfigureProduct(p) \/ EditProduct(p) \/ PauseProduct(p)
    \/ \E w \in Works :
          \/ \E purpose \in {"settings", "preview", "connector"} : LoadState(w, purpose)
          \/ LoadNothing(w) \/ CreateState(w)
          \/ UpdateSettings(w) \/ RecordStorefrontPreview(w)
          \/ RecordAuthenticatedConnectorVerification(w)
          \/ \E p \in Products : Validate(w, p) \/ LoadForGate(w, p)
          \/ \E reply \in {"required", "other", "none"} : Probe(w, reply)
          \/ MatchResult(w) \/ LoadForResult(w) \/ RecordIntegrationVerification(w)
          \/ Gate(w) \/ Publish(w) \/ LeaveWork(w)

WorkspaceSpec == WorkspaceInit /\ [][WorkspaceNext]_workspaceVars
-----------------------------------------------------------------------------
\* Nothing that a writer was told is stored is ever lost to another writer: the
\* stored settings, connector, preview and result are the ones acknowledged last,
\* and the version that UpdateSettings compares is the version of the record.
AcknowledgedProgressIsKept ==
    /\ [workspace EXCEPT !.version = 0, !.settingsVersion = 0]
          = [acked EXCEPT !.version = 0, !.settingsVersion = 0]
    /\ workspace.settingsVersion = workspace.version
=============================================================================

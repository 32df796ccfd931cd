------------------------------ MODULE MCSeller ------------------------------
(***************************************************************************)
(* Instances, for TLC, of the records that a seller keeps: catalog and     *)
(* public storefront, audit trail, payment destinations, webhooks, usage,  *)
(* lists, workspace, sessions, and the seeded development store.  A        *)
(* behaviour is one of the component in focus, and the components that     *)
(* share no state with it keep their initial state.                        *)
(*                                                                         *)
(* The catalog is in focus three times.  "audit": two names, no readers,   *)
(* and requests that record what they changed.  "storefront": readers      *)
(* while a route of one name is published twice, by a seller that keeps    *)
(* its standing.  "seller": one reader at a time while seller and          *)
(* entitlement change around a route of at most SellerFocusVersions        *)
(* versions.  Webhooks twice: "billing", two subscriptions of which        *)
(* nothing is sent yet, and "attempts", one delivery of one.               *)
(***************************************************************************)
EXTENDS Storefront, AuditTrail, Settlement, Webhooks, Usage, Listing, Workspace,
        SellerSessions, DevSeed, TLC

CONSTANT SellerFocusVersions

VARIABLE focus

CatalogFocus == {"audit", "storefront", "seller"}
Foci == CatalogFocus \cup {"settlement", "billing", "attempts", "usage", "listing", "workspace",
                           "sessions", "seed"}

\* All destinations of the instance compete for one pair.
OnePair == [d \in Destinations |-> CHOOSE p \in Pairs : TRUE]

First(S) == CHOOSE x \in S : TRUE

\* The choices that a component makes initially are made when it is in focus, and
\* values that are alike are chosen once.
FirstSeller ==
    /\ focus \in CatalogFocus \ {"seller"} => SellerExists
    /\ focus \notin CatalogFocus => ~SellerExists
    /\ SellerExists => GetSeller.origin = First(Origins)

\* Only the directory reads batches that are longer than a page.
ShortLists == kind # "directory" => LastKey \notin entries

MCInit ==
    /\ focus \in Foci
    /\ PublicationInit /\ FirstSeller /\ AuditInit
    /\ SettlementInit /\ WebhooksInit
    /\ UsageInit /\ plan = First(UsagePlans)
    /\ ListingInit /\ ShortLists /\ (focus # "listing" => kind = "audit" /\ entries = {})
    /\ WorkspaceInit
    /\ SessionsInit /\ published = {First(SigningKeys)}
    /\ focus # "sessions" => verifier = "local"
    /\ DevSeedInit /\ (focus # "seed" => config = First(Configs))
-----------------------------------------------------------------------------
OtherThanCatalog == <<settlementVars, webhookVars, usageVars, listingVars, workspaceVars,
                      sessionVars, seedVars>>
KeepsStanding == UNCHANGED <<sellers, entitlement, sandbox>>

FirstName(r) == \A route \in Seen(r) : route.name = First(Names)
FirstTerms(r) == FirstName(r) /\ \A route \in Seen(r) : route.price = First(Prices)
\* The first draft of a route has the first name and the first price.
FirstDraft ==
    \A r \in Routes : routes[r] = <<>> => FirstTerms(r)'

FocusOnAudit ==
    /\ focus = "audit" /\ AuditNext /\ FirstDraft
    /\ UNCHANGED <<storefrontVars, OtherThanCatalog>>

\* Without the audit log in focus, every request is cut off before its event.
Unaudited ==
    /\ unrecorded' = UNION {{<<r, v>> : v \in DOMAIN routes'[r]} : r \in Routes}
    /\ UNCHANGED <<request, trail>>

FocusOnStorefront ==
    /\ focus = "storefront" /\ PublicationNext /\ KeepsStanding /\ FirstDraft
    /\ \A r \in Routes : FirstName(r)'
    /\ \A j \in Jobs : job'[j] # Resting => job'[j].event = NoEvent
    /\ Unaudited /\ UNCHANGED OtherThanCatalog

FocusOnSeller ==
    /\ focus = "seller" /\ PublicationNext
    /\ \A r \in Routes : Len(routes'[r]) <= SellerFocusVersions /\ FirstTerms(r)'
    /\ Cardinality({j \in Jobs : job'[j] # Resting}) <= 1
    /\ \A j \in Jobs : job'[j] # Resting => job'[j].event.type # "route.changed"
    /\ Unaudited /\ UNCHANGED OtherThanCatalog

DestinationsInOrder ==
    \A d \in Destinations :
        d > 1 /\ destination[d] # Absent => destination[d - 1] # Absent

FocusOnSettlement ==
    /\ focus = "settlement" /\ SettlementNext /\ DestinationsInOrder'
    /\ UNCHANGED <<publicationVars, auditVars, webhookVars, usageVars, listingVars,
                   workspaceVars, sessionVars, seedVars>>

NothingSent == \A w \in Workers : worker[w].pc # "send"
OneDelivery ==
    /\ \A s \in Subscriptions \ {First(Subscriptions)} : subscription[s] = "absent"
    /\ \A w \in Workers :
          worker[w].pc = "consume" => worker[w].event = First(WebhookEvents)

FocusOnWebhooks ==
    /\ WebhooksNext
    /\ \/ focus = "billing" /\ NothingSent'
       \/ focus = "attempts" /\ OneDelivery' /\ UNCHANGED month
    /\ UNCHANGED <<publicationVars, auditVars, settlementVars, usageVars, listingVars,
                   workspaceVars, sessionVars, seedVars>>

FocusOnUsage ==
    /\ focus = "usage" /\ UsageNext
    /\ UNCHANGED <<publicationVars, auditVars, settlementVars, webhookVars, listingVars,
                   workspaceVars, sessionVars, seedVars>>

FocusOnListing ==
    /\ focus = "listing" /\ ListingNext /\ ShortLists'
    /\ UNCHANGED <<publicationVars, auditVars, settlementVars, webhookVars, usageVars,
                   workspaceVars, sessionVars, seedVars>>

FocusOnWorkspace ==
    /\ focus = "workspace" /\ WorkspaceNext
    /\ UNCHANGED <<publicationVars, auditVars, settlementVars, webhookVars, usageVars,
                   listingVars, sessionVars, seedVars>>

FocusOnSessions ==
    /\ focus = "sessions" /\ SessionsNext
    /\ UNCHANGED <<publicationVars, auditVars, settlementVars, webhookVars, usageVars,
                   listingVars, workspaceVars, seedVars>>

FocusOnSeed ==
    /\ focus = "seed" /\ DevSeedNext
    /\ UNCHANGED <<publicationVars, auditVars, settlementVars, webhookVars, usageVars,
                   listingVars, workspaceVars, sessionVars>>

MCNext ==
    /\ UNCHANGED focus
    /\ \/ FocusOnAudit \/ FocusOnStorefront \/ FocusOnSeller
       \/ FocusOnSettlement \/ FocusOnWebhooks \/ FocusOnUsage \/ FocusOnListing
       \/ FocusOnWorkspace \/ FocusOnSessions \/ FocusOnSeed
MCSpec == MCInit /\ [][MCNext]_<<publicationVars, auditVars, OtherThanCatalog, focus>>

\* Components that are never in focus together share model values.
SellerSymmetry == Permutations(Jobs)
=============================================================================

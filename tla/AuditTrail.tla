------------------------------ MODULE AuditTrail ------------------------------
(***************************************************************************)
(* The audit events of the seller's requests on routes (internal/audit     *)
(* with internal/catalog): each request commits its change and then        *)
(* records one immutable event, which must name an action, a target and    *)
(* changed fields of a fixed vocabulary.  An event outside the vocabulary  *)
(* is refused, although its change is stored.  A request may be cut off    *)
(* between the two writes.                                                 *)
(***************************************************************************)
EXTENDS Catalog

CONSTANT Requests    \* requests of the seller

VARIABLES
    request,    \* request[q]: the event that a request has yet to record
    trail,      \* the stored audit events
    unrecorded  \* ghost: versions whose request was cut off before its event

auditVars == <<request, trail, unrecorded>>
-----------------------------------------------------------------------------
NoRequest == [pc |-> "idle"]

\* What a route shows to the audit log; the other contract fields of a route
\* stand with the name.
Lifecycle == {"lifecycleStatus", "enabled"}
Contract == {"displayName", "amount"}

\* actionDefinitions, for the actions on paid routes.
ActionDefinitions ==
    [route_draft_created      |-> Contract \cup Lifecycle,
     route_draft_updated      |-> Contract,
     route_price_changed      |-> {"amount"},
     route_published          |-> Contract \cup Lifecycle,
     route_paused             |-> Lifecycle,
     route_archived           |-> Lifecycle,
     route_emergency_disabled |-> Lifecycle]

AuditInit ==
    /\ request = [q \in Requests |-> NoRequest]
    /\ trail = {}
    /\ unrecorded = {}

\* validateAction: the action is known, one to sixteen fields, all allowed.
ValidAction(event) ==
    /\ event.action \in DOMAIN ActionDefinitions
    /\ event.fields # {}
    /\ event.fields \subseteq ActionDefinitions[event.action]

\* An event about the versions since..version of route r, the last of which is
\* the one that is stored now.
AuditEvent(r, since, version, action, fields) ==
    [route |-> r, since |-> since, version |-> version,
     action |-> action, fields |-> fields]

Goes(q, step, event) ==
    /\ request' = [request EXCEPT ![q] = [pc |-> step, event |-> event]]
    /\ UNCHANGED <<trail, unrecorded>>

\* The change of route r is committed; its audit event is next.
Committed(q, r, action, fields) ==
    /\ request[q] = NoRequest
    /\ Goes(q, "record", AuditEvent(r, Len(routes'[r]), Len(routes'[r]), action, fields))

\* Faulty variant: the pause that a new price brings is not among the fields.
FaultyPriceChangeFields(wasPublished, route) == {"amount"}

\* priceChangeFields: a published route is paused by a new price.
PriceChangeFields(wasPublished, route) ==
    {"amount"} \cup (IF wasPublished /\ route.status = "paused" THEN Lifecycle ELSE {})

\* CreateRoute with publishImmediately = false.
AuditedCreateRoute(q, r, slug, name, price) ==
    /\ CreateRoute(r, slug, name, price)
    /\ Committed(q, r, "route_draft_created", Contract \cup Lifecycle)

\* CreateRoute otherwise: the draft is stored, and published before the one
\* event for both is recorded.
CreateToPublish(q, r, slug, name, price) ==
    /\ CreateRoute(r, slug, name, price)
    /\ request[q] = NoRequest
    /\ Goes(q, "publish", AuditEvent(r, 1, 1, "route_published", Contract \cup Lifecycle))

\* The draft is published with the version and the hash it was created with.
PublishCreated(q, c) ==
    /\ request[q].pc = "publish"
    /\ publish[c] = request[q].event.route
    /\ Len(routes[publish[c]]) = 1
    /\ PublishRouteForIntegration(c)
    /\ Goes(q, "record", AuditEvent(publish[c], 1, 2, "route_published", Contract \cup Lifecycle))

\* The fields are those of the copy that the request read, of any age.
AuditedUpdateRoutePrice(q, r, price, expectedVersion) ==
    \E route \in Seen(r) :
        LET next == ChangePrice(route, price) IN
        /\ UpdateRoute(r, next, expectedVersion)
        /\ UNCHANGED <<claims, sellers, entitlement, publish, sandbox, approvals>>
        /\ Committed(q, r, "route_price_changed", PriceChangeFields(Listed(route), next))

AuditedUpdateRouteDraft(q, r, name, price, expectedVersion) ==
    /\ UpdateRouteDraft(r, name, price, expectedVersion)
    /\ Committed(q, r, "route_draft_updated", Contract)

ActionOf(status) ==
    CASE status = "paused" -> "route_paused"
      [] status = "archived" -> "route_archived"
      [] OTHER -> "route_emergency_disabled"

AuditedMutateLifecycle(q, r, status, expectedVersion) ==
    /\ MutateLifecycle(r, status, expectedVersion)
    /\ Committed(q, r, ActionOf(status), Lifecycle)

\* PublishSellerRoute
AuditedPublishRoute(q, c) ==
    /\ PublishRouteForIntegration(c)
    /\ Committed(q, publish[c], "route_published", Lifecycle)

\* Appender.Record: an event that is not valid is refused, and the request ends
\* with an error although its change is stored.
Record(q) ==
    /\ request[q].pc = "record"
    /\ trail' = IF ValidAction(request[q].event) THEN trail \cup {request[q].event} ELSE trail
    /\ request' = [request EXCEPT ![q] = NoRequest]
    /\ UNCHANGED <<catalogVars, unrecorded>>

Versions(event) == {event.route} \X (event.since .. event.version)

\* A crash or a failing call before the event was stored, or a refusal to
\* publish the draft that was created.
CutOff(q) ==
    /\ request[q] # NoRequest
    /\ request' = [request EXCEPT ![q] = NoRequest]
    /\ unrecorded' = unrecorded \cup Versions(request[q].event)
    /\ UNCHANGED <<catalogVars, trail>>
-----------------------------------------------------------------------------
AuditNext ==
    \/ \E q \in Requests : Record(q) \/ CutOff(q)
    \/ \E q \in Requests, r \in Routes, v \in 1..MaxVersion :
          \/ \E p \in Prices : AuditedUpdateRoutePrice(q, r, p, v)
          \/ \E n \in Names, p \in Prices : AuditedUpdateRouteDraft(q, r, n, p, v)
          \/ \E s \in RouteStatuses : AuditedMutateLifecycle(q, r, s, v)
    \/ \E q \in Requests, r \in Routes, s \in Slugs, n \in Names, p \in Prices :
          AuditedCreateRoute(q, r, s, n, p) \/ CreateToPublish(q, r, s, n, p)
    \/ \E q \in Requests, c \in Publishers : AuditedPublishRoute(q, c) \/ PublishCreated(q, c)
    \/ /\ \E c \in Publishers, r \in Routes : AuthorizeRequest(c, r)
       /\ UNCHANGED auditVars

AuditSpec == CatalogInit /\ AuditInit /\ [][AuditNext]_<<catalogVars, auditVars>>
-----------------------------------------------------------------------------
\* The fields in which two versions of a route differ.
Difference(old, new) ==
    {f \in Contract \cup Lifecycle :
        \/ f = "displayName" /\ old.name # new.name
        \/ f = "amount" /\ old.price # new.price
        \/ f = "lifecycleStatus" /\ old.status # new.status
        \/ f = "enabled" /\ Listed(old) # Listed(new)}

\* An event names what changed: a creation every field, any other event all
\* fields in which the version before it and its own differ.
NamesItsChange(e) ==
    IF e.since = 1 THEN e.fields = Contract \cup Lifecycle
    ELSE Difference(routes[e.route][e.since - 1], routes[e.route][e.version]) \subseteq e.fields

\* The event of a version is stored, or a request has yet to record it, or was
\* cut off before it did.
Accounted(r, v) ==
    \/ \E e \in trail : <<r, v>> \in Versions(e)
    \/ \E q \in Requests : request[q] # NoRequest /\ <<r, v>> \in Versions(request[q].event)
    \/ <<r, v>> \in unrecorded

\* The one change whose event the vocabulary refuses: a new price takes a
\* published route off sale.
TakenOffSaleByPrice(r, v) ==
    LET old == routes[r][v - 1]
        new == routes[r][v]
    IN  v > 1 /\ Listed(old) /\ new.status = "paused" /\ new.price # old.price

\* The trail and the history of the routes match, whatever old copies requests
\* worked from and whoever wrote meanwhile: each event names what its change
\* was, no version has two events, and every stored version has its event
\* unless the request was cut off before it.  "Audit events are immutable
\* seller-scoped records of committed control-plane changes", with the one
\* exception stated here: of a new price that takes a published route off sale
\* no event is ever stored, because priceChangeFields names more fields than
\* the vocabulary allows for route_price_changed.
TrailMatchesHistory ==
    /\ \A e \in trail : NamesItsChange(e)
    /\ \A e, f \in trail : Versions(e) \cap Versions(f) # {} => e = f
    /\ \A r \in Routes : \A v \in DOMAIN routes[r] :
          IF TakenOffSaleByPrice(r, v)
            THEN \A e \in trail : <<r, v>> \notin Versions(e)
            ELSE Accounted(r, v)
=============================================================================

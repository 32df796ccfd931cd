------------------------------- MODULE Catalog -------------------------------
(***************************************************************************)
(* The catalog of one seller (internal/catalog): the seller record, the    *)
(* paid routes with their lifecycle, the product directory and the         *)
(* publication outbox, over the DynamoDB repository.                       *)
(*                                                                         *)
(* GetRoute reads a global secondary index and ListRoutesBySeller is not a *)
(* consistent read either: both may return any version that was ever       *)
(* stored.  The model therefore keeps every stored version, and a handler  *)
(* that reads one is a choice among them.  What the handler read earlier   *)
(* and what it could read at its write are then the same set, so a handler *)
(* with one conditional write is one action.  Only the publication of a    *)
(* route is split: it depends on consistent reads of seller and            *)
(* entitlement that may be out of date at the write.                       *)
(***************************************************************************)
EXTENDS Naturals, Sequences, FiniteSets, SequencesExt

CONSTANTS
    Routes,          \* route identifiers
    Slugs,           \* product slugs
    Names,           \* display names, which order the directory
    Prices,          \* exact prices
    Origins,         \* upstream origins of the seller
    Publishers,      \* requests that publish a route
    PublishedLimit,  \* published routes the plan allows
    MaxVersion,      \* bound: stored versions of a route
    MaxSellerVersion,\* bound: stored versions of the seller
    MaxEntitlement,  \* bound: stored versions of the entitlement
    Nobody           \* no route, no origin

ASSUME CatalogAssumption ==
    /\ Nobody \notin Routes \cup Origins
    /\ MaxVersion \in Nat /\ MaxSellerVersion \in Nat /\ MaxEntitlement \in Nat
    /\ PublishedLimit \in Nat

VARIABLES
    routes,       \* routes[r]: the versions of the route, oldest first
    claims,       \* claims[s]: the route that owns the product slug
    directory,    \* directory[r, n]: version under this route and name, 0 if none
    sellers,      \* the versions of the seller record, oldest first
    entitlement,  \* the entitlement as the catalog sees it
    outbox,       \* publication events, written with the change they announce
    publish,      \* publish[c]: the route an authorized request publishes
    sandbox,      \* the origin whose sandbox checks have passed, not yet recorded
    approvals     \* ghost: contracts approved by the publication that used them

catalogVars == <<routes, claims, directory, sellers, entitlement, outbox,
                 publish, sandbox, approvals>>
-----------------------------------------------------------------------------
RouteStatuses == {"draft", "published", "paused", "archived", "emergency_disabled"}
Event(type, id, version) == [type |-> type, id |-> id, version |-> version]

\* What PublishedContractHash covers: the terms of a route and its version.
PublishedContractHash(route) ==
    [name |-> route.name, price |-> route.price, slug |-> route.slug,
     version |-> route.version]

\* A seller that sells already; its versions are counted from here.
Established(origin) ==
    [status |-> "active", origin |-> origin, verified |-> origin, version |-> 1]

\* A new account, or an established seller without routes.
CatalogInit ==
    /\ routes = [r \in Routes |-> <<>>]
    /\ claims = [s \in Slugs |-> Nobody]
    /\ directory = [k \in Routes \X Names |-> 0]
    /\ sellers \in {<<>>} \cup {<<Established(o)>> : o \in Origins}
    /\ entitlement = [active |-> TRUE, version |-> 1]
    /\ outbox = {}
    /\ publish = [c \in Publishers |-> Nobody]
    /\ sandbox = Nobody
    /\ approvals = {}
-----------------------------------------------------------------------------
(* The repository *)

Seen(r) == Range(routes[r])            \* GetRoute, ListRoutesBySeller
GetSeller == Last(sellers)             \* a consistent read
SellerExists == sellers # <<>>

\* NewPublicDirectoryProjection: only a published route has one.
Listed(route) == route.status = "published"

\* obsoleteDirectoryProjectionDeletes and directoryProjectionPuts: the entries
\* of the version that was read go, unless the new version writes the same key.
Projected(r, previous, next) ==
    [k \in Routes \X Names |->
        CASE Listed(next) /\ k = <<r, next.name>> -> next.version
          [] Listed(previous) /\ k = <<r, previous.name>>
                /\ ~(Listed(next) /\ k = <<r, next.name>>) -> 0
          [] OTHER -> directory[k]]

\* publicationOutboxPut: each version of an aggregate is announced once.
Unannounced(type, id, version) == Event(type, id, version) \notin outbox

\* Faulty variant: the version the client named is not compared.
FaultyIsCurrent(r, expectedVersion) == TRUE

IsCurrent(r, expectedVersion) == Last(routes[r]).version = expectedVersion

\* UpdateRoute: one transaction over the version, the outbox and the directory.
UpdateRoute(r, next, expectedVersion) ==
    /\ Len(routes[r]) < MaxVersion
    /\ IsCurrent(r, expectedVersion)
    /\ Unannounced("route.changed", r, next.version)
    /\ \E previous \in Seen(r) :
          /\ previous.slug = next.slug
          /\ directory' = Projected(r, previous, next)
    /\ routes' = [routes EXCEPT ![r] = Append(@, next)]
    /\ outbox' = outbox \cup {Event("route.changed", r, next.version)}

\* putWithExpectedVersion
UpdateSeller(next, expectedVersion) ==
    /\ Len(sellers) < MaxSellerVersion
    /\ GetSeller.version = expectedVersion
    /\ sellers' = Append(sellers, next)
-----------------------------------------------------------------------------
(* The seller record *)

\* The conditions of the repository's CreateSeller: neither the seller nor the
\* claim of its owner exists.
OwnerIsUnclaimed == ~SellerExists

CreateSeller(origin) ==
    /\ OwnerIsUnclaimed
    /\ sellers' = <<[status |-> "draft", origin |-> origin, verified |-> Nobody,
                     version |-> 1]>>
    /\ UNCHANGED <<routes, claims, directory, entitlement, outbox, publish, sandbox, approvals>>

\* An earlier verification is dropped.
ActivateForExecutionCapabilities(seller) ==
    [seller EXCEPT !.status = "active", !.verified = Nobody, !.version = @ + 1]

ActivateSellerService ==
    /\ SellerExists
    /\ GetSeller.status = "draft"
    /\ UpdateSeller(ActivateForExecutionCapabilities(GetSeller), GetSeller.version)
    /\ UNCHANGED <<routes, claims, directory, entitlement, outbox, publish, sandbox, approvals>>

\* Another origin must be verified again.
Configure(seller, origin) ==
    [seller EXCEPT !.origin = origin,
                   !.verified = IF origin = seller.origin THEN @ ELSE Nobody,
                   !.version = @ + 1]

ConfigureStorefrontForIntegration(origin) ==
    /\ SellerExists
    /\ UpdateSeller(Configure(GetSeller, origin), GetSeller.version)
    /\ UNCHANGED <<routes, claims, directory, entitlement, outbox, publish, sandbox, approvals>>

VerifyServiceEndpoint(seller) ==
    [seller EXCEPT !.verified = seller.origin, !.version = @ + 1]

\* The sandbox calls the origin of the seller it read, for a route that is not
\* published, and all checks pass.
SandboxValidate(r) ==
    /\ SellerExists
    /\ sandbox = Nobody
    /\ \E route \in Seen(r) : ~Listed(route)
    /\ sandbox' = GetSeller.origin
    /\ UNCHANGED <<routes, claims, directory, sellers, entitlement, outbox, publish, approvals>>

\* The seller is read again, and its origin of now is recorded as verified.
RecordServiceEndpointVerification ==
    /\ sandbox # Nobody
    /\ GetSeller.status = "active"
    /\ UpdateSeller(VerifyServiceEndpoint(GetSeller), GetSeller.version)
    /\ sandbox' = Nobody
    /\ UNCHANGED <<routes, claims, directory, entitlement, outbox, publish, approvals>>

AbandonSandbox ==
    /\ sandbox # Nobody
    /\ sandbox' = Nobody
    /\ UNCHANGED <<routes, claims, directory, sellers, entitlement, outbox, publish, approvals>>

HasCurrentServiceEndpointVerification(seller) == seller.verified = seller.origin

\* The entitlement ends or resumes (module Entitlement); its write announces it.
EntitlementChanges ==
    /\ entitlement.version < MaxEntitlement
    /\ LET next == [active |-> ~entitlement.active,
                    version |-> entitlement.version + 1]
       IN  /\ entitlement' = next
           /\ outbox' = outbox \cup {Event("entitlement.changed", "entitlement",
                                           next.version)}
    /\ UNCHANGED <<routes, claims, directory, sellers, publish, sandbox, approvals>>
-----------------------------------------------------------------------------
(* Offline changes of a route *)

Moved(route, status) == [route EXCEPT !.status = status, !.version = @ + 1]

\* PaidRoute.ChangePrice: the same price leaves the version as it is.
ChangePrice(route, price) ==
    IF price = route.price THEN route
    ELSE [route EXCEPT !.price = price, !.version = @ + 1,
             !.status = IF @ = "published" THEN "paused" ELSE @]

UpdateRoutePriceForIntegration(r, price, expectedVersion) ==
    /\ \E route \in Seen(r) :
          UpdateRoute(r, ChangePrice(route, price), expectedVersion)
    /\ UNCHANGED <<claims, sellers, entitlement, publish, sandbox, approvals>>

\* The request of the seller itself also records an audit event (AuditTrail).
UpdateRoutePrice(r, price, expectedVersion) ==
    UpdateRoutePriceForIntegration(r, price, expectedVersion)

UpdateDraft(route, name, price) ==
    [route EXCEPT !.name = name, !.price = price, !.version = @ + 1]

UpdateRouteDraft(r, name, price, expectedVersion) ==
    /\ \E route \in Seen(r) :
          /\ route.status \notin {"published", "archived"}
          /\ UpdateRoute(r, UpdateDraft(route, name, price), expectedVersion)
    /\ UNCHANGED <<claims, sellers, entitlement, publish, sandbox, approvals>>

\* mutateSellerRouteLifecycle with Pause, EmergencyDisable or Archive.
LifecycleMoves ==
    {<<"published", "paused">>, <<"published", "emergency_disabled">>,
     <<"draft", "archived">>, <<"paused", "archived">>,
     <<"emergency_disabled", "archived">>}

MutateLifecycle(r, status, expectedVersion) ==
    /\ \E route \in Seen(r) :
          /\ <<route.status, status>> \in LifecycleMoves
          /\ UpdateRoute(r, Moved(route, status), expectedVersion)
    /\ UNCHANGED <<claims, sellers, entitlement, publish, sandbox, approvals>>
-----------------------------------------------------------------------------
(* Publication *)

Ready(seller) ==
    /\ seller.status = "active"
    /\ HasCurrentServiceEndpointVerification(seller)
    /\ entitlement.active

\* Storefront Service.authorizeRoute without the demand to be published.
AuthorizePublication(r) ==
    /\ SellerExists
    /\ Ready(GetSeller)
    /\ \E route \in Seen(r) : route.status \notin {"archived", "emergency_disabled"}

\* The conditions of the repository's CreateRoute.
RouteIsNew(r, slug) == routes[r] = <<>> /\ claims[slug] = Nobody

CreateDraftRouteForIntegration(r, slug, name, price) ==
    /\ SellerExists
    /\ RouteIsNew(r, slug)
    /\ routes' = [routes EXCEPT ![r] = <<[status |-> "draft", name |-> name,
                                          price |-> price, slug |-> slug, version |-> 1]>>]
    /\ outbox' = outbox \cup {Event("route.changed", r, 1)}
    /\ claims' = [claims EXCEPT ![slug] = r]
    /\ UNCHANGED <<directory, sellers, entitlement, publish, sandbox, approvals>>

\* With the publication authorizer in place a route of the seller starts as a
\* draft too; a request to publish it at once goes on with AuthorizeRequest.
CreateRoute(r, slug, name, price) == CreateDraftRouteForIntegration(r, slug, name, price)

AuthorizeRequest(c, r) ==
    /\ publish[c] = Nobody
    /\ AuthorizePublication(r)
    /\ publish' = [publish EXCEPT ![c] = r]
    /\ UNCHANGED <<routes, claims, directory, sellers, entitlement, outbox, sandbox, approvals>>

\* AllowPublishedRoute over the routes that were listed.
WithinPlan ==
    \E seen \in [Routes -> UNION {Seen(r) : r \in Routes} \cup {Nobody}] :
        /\ \A r \in Routes : seen[r] \in Seen(r) \cup
                                {x \in {Nobody} : routes[r] = <<>>}
        /\ Cardinality({r \in Routes : seen[r] # Nobody /\ Listed(seen[r])})
             < PublishedLimit

\* PaidRoute.Publish
Publishable(route) == route.status \in {"draft", "paused", "emergency_disabled"}

ValidateRouteForIntegration(seller, route) ==
    seller.status = "active" /\ route.status # "archived"

\* PublishRouteForIntegration after the authorization: the route and, to
\* validate it, seller and route again; the limit; the write.  The request
\* names the version and the hash of the read that ValidateSellerRoute showed
\* to the seller (shown).
PublishRouteForIntegration(c) ==
    /\ publish[c] # Nobody
    /\ entitlement.active /\ WithinPlan
    /\ LET r == publish[c] IN
       \E shown, route, validated \in Seen(r) :
          /\ Publishable(route)
          /\ ValidateRouteForIntegration(GetSeller, validated)
          /\ PublishedContractHash(validated) = PublishedContractHash(shown)
          /\ UpdateRoute(r, Moved(route, "published"), shown.version)
          /\ approvals' = approvals \cup
                {[route |-> r, published |-> route.version + 1,
                  hash |-> PublishedContractHash(shown)]}
    /\ publish' = [publish EXCEPT ![c] = Nobody]
    /\ UNCHANGED <<claims, sellers, entitlement, sandbox>>

\* A refused or interrupted publication leaves the route as it is.
AbandonPublication(c) ==
    /\ publish[c] # Nobody
    /\ publish' = [publish EXCEPT ![c] = Nobody]
    /\ UNCHANGED <<routes, claims, directory, sellers, entitlement, outbox, sandbox, approvals>>
-----------------------------------------------------------------------------
CatalogNext ==
    \/ \E o \in Origins : CreateSeller(o) \/ ConfigureStorefrontForIntegration(o)
    \/ ActivateSellerService
    \/ \E r \in Routes : SandboxValidate(r)
    \/ RecordServiceEndpointVerification \/ AbandonSandbox
    \/ EntitlementChanges
    \/ \E r \in Routes, v \in 1..MaxVersion :
          \/ \E p \in Prices : UpdateRoutePrice(r, p, v)
          \/ \E n \in Names, p \in Prices : UpdateRouteDraft(r, n, p, v)
          \/ \E s \in RouteStatuses : MutateLifecycle(r, s, v)
    \/ \E r \in Routes, s \in Slugs, n \in Names, p \in Prices : CreateRoute(r, s, n, p)
    \/ \E c \in Publishers, r \in Routes : AuthorizeRequest(c, r)
    \/ \E c \in Publishers : PublishRouteForIntegration(c) \/ AbandonPublication(c)

CatalogSpec == CatalogInit /\ [][CatalogNext]_catalogVars
-----------------------------------------------------------------------------
\* What is on sale now is what the seller approved, and is found: whatever was
\* edited between validation, authorization and the write, and whatever
\* projections stale reads leave behind in the directory, a published route has
\* exactly the terms whose hash the seller sent for this version, and the
\* directory lists it under its name with this version.
PublishedIsFoundAsApproved ==
    \A r \in Routes : routes[r] # <<>> /\ Listed(Last(routes[r])) =>
        LET route == Last(routes[r])
        IN  /\ directory[<<r, route.name>>] = route.version
            /\ \E a \in approvals : /\ a.route = r /\ a.published = route.version
                                     /\ a.hash.name = route.name
                                     /\ a.hash.price = route.price
=============================================================================

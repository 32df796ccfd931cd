-------------------------- MODULE CatalogProofs --------------------------
(***************************************************************************)
(* What the catalog of a seller promises, for any number of routes, names, *)
(* prices, requests and servers: what is on sale is what was approved and  *)
(* is found (Catalog), a publication revision names one catalog and a      *)
(* served document has approved terms (Storefront), and the audit trail    *)
(* names every change (AuditTrail).                                        *)
(*                                                                         *)
(* The handlers read routes through an index that may return any version   *)
(* ever stored.  What makes them safe is the outbox: a write announces the *)
(* version it stores, once, so the successor of an old version is          *)
(* announced already and only what was made from the current version is    *)
(* stored (WriteIsFromCurrent).  Versions are then numbered without gaps,  *)
(* and a version number stands for one set of terms: this is why a         *)
(* fingerprint of version numbers names a catalog.                         *)
(***************************************************************************)
EXTENDS Storefront, AuditTrail, TLAPS

\* A stored version of a route.
RouteRecords ==
    [ status : RouteStatuses, name : Names, price : Prices, slug : Slugs, version : Nat ]

\* The versions of a route are numbered in the order they were stored, and
\* every one of them was announced.
VersionsOK(r) ==
    \A n \in 1 .. Len(routes[r]) :
        routes[r][n].version = n /\ Event("route.changed", r, n) \in outbox

\* The seller has approved the terms of version n of route r.
Approved(r, n) ==
    \E a \in approvals : /\ a.route = r /\ a.published = n
                         /\ a.hash.name = routes[r][n].name
                         /\ a.hash.price = routes[r][n].price

\* A published version, also a former one, has terms the seller approved.
ApprovedOK(r) ==
    \A n \in 1 .. Len(routes[r]) : Listed(routes[r][n]) => Approved(r, n)

\* The directory has the current version of a published route.
FoundOK(r) ==
    LET n == Len(routes[r]) IN
    n > 0 /\ Listed(routes[r][n]) => directory[<<r, routes[r][n].name>>] = n

\* Every variable has its type, and every route is as above.
CatalogInv ==
    /\ routes \in [Routes -> Seq(RouteRecords)]
    /\ directory \in [Routes \X Names -> Nat]
    /\ publish \in [Publishers -> Routes \cup {Nobody}]
    /\ \A r \in Routes : VersionsOK(r) /\ ApprovedOK(r) /\ FoundOK(r)

\* The versions that are stored stay.
RoutesGrow ==
    \A r \in Routes : \A n \in 1 .. Len(routes[r]) :
        n \in 1 .. Len(routes'[r]) /\ routes'[r][n] = routes[r][n]

\* There is no route.
LEMMA CatalogInitOK == CatalogInit => CatalogInv
<1> SUFFICES ASSUME CatalogInit PROVE CatalogInv
  OBVIOUS
<1>1. /\ routes \in [Routes -> Seq(RouteRecords)]
      /\ \A r \in Routes : Len(routes[r]) = 0
  BY DEF CatalogInit
<1>2. directory \in [Routes \X Names -> Nat] /\ publish \in [Publishers -> Routes \cup {Nobody}]
  BY DEF CatalogInit
<1> QED BY <1>1, <1>2 DEF CatalogInv, VersionsOK, ApprovedOK, FoundOK

\* A step that writes no route keeps the invariant.
LEMMA CatalogKept ==
    ASSUME CatalogInv, UNCHANGED <<routes, directory, approvals>>, outbox \subseteq outbox',
           publish' \in [Publishers -> Routes \cup {Nobody}]
    PROVE  CatalogInv' /\ RoutesGrow
<1>1. ASSUME NEW r \in Routes PROVE VersionsOK(r)' /\ ApprovedOK(r)' /\ FoundOK(r)'
  BY DEF CatalogInv, VersionsOK, ApprovedOK, FoundOK, Approved
<1> QED BY <1>1 DEF CatalogInv, RoutesGrow

\* The versions of route r and the version numbers are right, one by one.
LEMMA SeenVersion ==
    ASSUME CatalogInv, NEW r \in Routes, NEW x \in Seen(r)
    PROVE  /\ x \in RouteRecords
           /\ x.version \in 1 .. Len(routes[r])
           /\ x = routes[r][x.version]
           /\ Len(routes[r]) \in Nat
<1>1. routes[r] \in Seq(RouteRecords)
  BY DEF CatalogInv
<1>2. PICK n \in DOMAIN routes[r] : x = routes[r][n]
  BY DEF Seen, Range
<1>3. n \in 1 .. Len(routes[r]) /\ routes[r][n] \in RouteRecords /\ Len(routes[r]) \in Nat
  BY <1>1, <1>2
<1>4. routes[r][n].version = n
  BY <1>3 DEF CatalogInv, VersionsOK
<1> QED BY <1>2, <1>3, <1>4

\* The version next is stored after the versions of route r, and announced.
Wrote(r, next) ==
    /\ routes[r] # << >>
    /\ next \in RouteRecords
    /\ next.version = Len(routes[r]) + 1
    /\ routes' = [routes EXCEPT ![r] = Append(@, next)]
    /\ outbox' = outbox \cup {Event("route.changed", r, next.version)}
    /\ \E previous \in Seen(r) : directory' = Projected(r, previous, next)

\* UpdateRoute stores only what was made from the current version: of every
\* earlier one the successor is announced already.  It is the version the
\* caller expects.
LEMMA WriteIsFromCurrent ==
    ASSUME CatalogInv, NEW r \in Routes, NEW x \in Seen(r), NEW next \in RouteRecords,
           next.version \in {x.version, x.version + 1}, NEW v, UpdateRoute(r, next, v)
    PROVE  /\ Wrote(r, next)
           /\ x = Last(routes[r])
           /\ next.version = x.version + 1
           /\ v = x.version
<1>1. /\ x.version \in 1 .. Len(routes[r])
      /\ x = routes[r][x.version]
      /\ Len(routes[r]) \in Nat
  BY SeenVersion
<1>2. Event("route.changed", r, next.version) \notin outbox
  BY DEF UpdateRoute, Unannounced
<1>3. next.version \notin 1 .. Len(routes[r])
  BY <1>2 DEF CatalogInv, VersionsOK
<1>4. x.version = Len(routes[r]) /\ next.version = Len(routes[r]) + 1
  BY <1>1, <1>3
<1>5. routes[r] # << >>
  BY <1>1
<1>6. x = Last(routes[r])
  BY <1>1, <1>4 DEF Last
<1>7. Wrote(r, next)
  BY <1>4, <1>5 DEF UpdateRoute, Wrote
<1>8. v = x.version
  BY <1>6 DEF UpdateRoute, IsCurrent
<1> QED BY <1>4, <1>6, <1>7, <1>8

\* What Wrote does to the versions.
LEMMA WroteVersions ==
    ASSUME CatalogInv, NEW r \in Routes, NEW next, Wrote(r, next)
    PROVE  /\ routes' \in [Routes -> Seq(RouteRecords)]
           /\ Len(routes[r]) \in Nat \ {0}
           /\ Len(routes'[r]) = Len(routes[r]) + 1
           /\ routes'[r][Len(routes[r]) + 1] = next
           /\ \A n \in 1 .. Len(routes[r]) : routes'[r][n] = routes[r][n]
           /\ \A q \in Routes \ {r} : routes'[q] = routes[q]
           /\ RoutesGrow
<1>1. routes[r] \in Seq(RouteRecords) /\ next \in RouteRecords
  BY DEF CatalogInv, Wrote
<1>2. routes' = [routes EXCEPT ![r] = Append(routes[r], next)]
  BY DEF Wrote
<1>3. Append(routes[r], next) \in Seq(RouteRecords)
  BY <1>1
<1>4. routes' \in [Routes -> Seq(RouteRecords)] /\ routes'[r] = Append(routes[r], next)
  BY <1>2, <1>3 DEF CatalogInv
<1>5. Len(routes[r]) \in Nat \ {0}
  BY <1>1 DEF Wrote
<1>6. /\ Len(routes'[r]) = Len(routes[r]) + 1
      /\ routes'[r][Len(routes[r]) + 1] = next
      /\ \A n \in 1 .. Len(routes[r]) : routes'[r][n] = routes[r][n]
  BY <1>1, <1>4
<1>7. \A q \in Routes \ {r} : routes'[q] = routes[q]
  BY <1>2 DEF CatalogInv
<1>8. RoutesGrow
  BY <1>5, <1>6, <1>7 DEF RoutesGrow
<1> QED BY <1>4, <1>5, <1>6, <1>7, <1>8

\* A new version keeps the invariant if it is offline or approved.
LEMMA WroteOK ==
    ASSUME CatalogInv, NEW r \in Routes, NEW next, Wrote(r, next),
           approvals \subseteq approvals',
           publish' \in [Publishers -> Routes \cup {Nobody}],
           Listed(next) =>
               \E a \in approvals' : /\ a.route = r /\ a.published = next.version
                                     /\ a.hash.name = next.name /\ a.hash.price = next.price
    PROVE  CatalogInv' /\ RoutesGrow
<1> DEFINE N == Len(routes[r])
<1>1. /\ routes' \in [Routes -> Seq(RouteRecords)]
      /\ N \in Nat \ {0}
      /\ Len(routes'[r]) = N + 1
      /\ routes'[r][N + 1] = next
      /\ \A n \in 1 .. N : routes'[r][n] = routes[r][n]
      /\ \A q \in Routes \ {r} : routes'[q] = routes[q]
      /\ RoutesGrow
  BY WroteVersions
<1>2. next \in RouteRecords /\ next.version = N + 1
  BY DEF Wrote
<1>3. outbox \subseteq outbox' /\ Event("route.changed", r, N + 1) \in outbox'
  BY <1>2 DEF Wrote
<1>4. PICK previous \in Seen(r) : directory' = Projected(r, previous, next)
  BY DEF Wrote
<1>5. directory' \in [Routes \X Names -> Nat]
  BY <1>2, <1>4 DEF CatalogInv, Projected, RouteRecords
<1>6. VersionsOK(r)'
  <2>1. ASSUME NEW n \in 1 .. N + 1 PROVE routes'[r][n].version = n /\ Event("route.changed", r, n) \in outbox'
    <3>1. CASE n = N + 1
      BY <1>1, <1>2, <1>3, <3>1
    <3>2. CASE n \in 1 .. N
      BY <1>1, <1>3, <3>2 DEF CatalogInv, VersionsOK
    <3> QED BY <1>1, <2>1, <3>1, <3>2
  <2> HIDE DEF N
  <2> QED BY <1>1, <2>1 DEF VersionsOK
<1>7. ApprovedOK(r)'
  <2>1. ASSUME NEW n \in 1 .. N + 1, Listed(routes'[r][n]) PROVE Approved(r, n)'
    <3>1. CASE n = N + 1
      BY <1>1, <1>2, <2>1, <3>1 DEF Approved
    <3>2. CASE n \in 1 .. N
      BY <1>1, <2>1, <3>2 DEF CatalogInv, ApprovedOK, Approved
    <3> QED BY <1>1, <2>1, <3>1, <3>2
  <2>2. Listed(routes[r][1])' <=> Listed(routes'[r][1])
    BY DEF Listed
  <2> HIDE DEF N
  <2> QED BY <1>1, <2>1 DEF ApprovedOK, Listed
<1>8. FoundOK(r)'
  <2>1. Listed(next) => directory'[<<r, next.name>>] = next.version
    BY <1>2, <1>4 DEF Projected, RouteRecords
  <2> HIDE DEF N
  <2> QED BY <1>1, <1>2, <2>1 DEF FoundOK, Listed
<1>9. ASSUME NEW q \in Routes \ {r} PROVE VersionsOK(q)' /\ ApprovedOK(q)' /\ FoundOK(q)'
  <2>1. routes'[q] = routes[q]
    BY <1>1
  <2>2. VersionsOK(q)' /\ ApprovedOK(q)'
    BY <1>3, <2>1 DEF CatalogInv, VersionsOK, ApprovedOK, Approved, Listed
  <2>3. ASSUME NEW m \in Names PROVE directory'[<<q, m>>] = directory[<<q, m>>]
    BY <1>4 DEF Projected
  <2>4. ASSUME Len(routes[q]) > 0 PROVE routes[q][Len(routes[q])].name \in Names
    <3>1. routes[q] \in Seq(RouteRecords)
      BY DEF CatalogInv
    <3>2. routes[q][Len(routes[q])] \in RouteRecords
      BY <2>4, <3>1
    <3> QED BY <3>2 DEF RouteRecords
  <2>5. FoundOK(q)'
    BY <2>1, <2>3, <2>4 DEF CatalogInv, FoundOK, Listed
  <2> QED BY <2>2, <2>5
<1> QED BY <1>1, <1>5, <1>6, <1>7, <1>8, <1>9 DEF CatalogInv

\* What the changes of a route do to it.
LEMMA MovedType ==
    ASSUME NEW x \in RouteRecords, NEW status \in RouteStatuses
    PROVE  LET y == Moved(x, status) IN
           /\ y \in RouteRecords /\ y.version = x.version + 1 /\ y.status = status
           /\ y.name = x.name /\ y.price = x.price
<1>1. PICK v \in Nat : v = x.version + 1
  BY DEF RouteRecords
<1>2. Moved(x, status) = [[x EXCEPT !.status = status] EXCEPT !.version = v]
  BY <1>1 DEF Moved, RouteRecords
<1> QED BY <1>1, <1>2 DEF RouteRecords

\* A new draft keeps the status; UpdateRouteDraft refuses a published route.
LEMMA DraftType ==
    ASSUME NEW x \in RouteRecords, NEW n \in Names, NEW p \in Prices
    PROVE  LET y == UpdateDraft(x, n, p) IN
           /\ y \in RouteRecords /\ y.version = x.version + 1 /\ y.status = x.status
<1>1. PICK v \in Nat : v = x.version + 1
  BY DEF RouteRecords
<1>2. UpdateDraft(x, n, p) = [[[x EXCEPT !.name = n] EXCEPT !.price = p] EXCEPT !.version = v]
  BY <1>1 DEF UpdateDraft, RouteRecords
<1> QED BY <1>1, <1>2 DEF RouteRecords

\* A new price takes a published route off sale.
LEMMA PriceType ==
    ASSUME NEW x \in RouteRecords, NEW p \in Prices
    PROVE  LET y == ChangePrice(x, p) IN
           /\ y \in RouteRecords
           /\ y.version \in {x.version, x.version + 1}
           /\ y.name = x.name
           /\ y.version # x.version =>
                /\ y.status = IF x.status = "published" THEN "paused" ELSE x.status
                /\ y.price # x.price
<1>1. PICK v \in Nat : v = x.version + 1
  BY DEF RouteRecords
<1>2. PICK s \in RouteStatuses : s = IF x.status = "published" THEN "paused" ELSE x.status
  BY DEF RouteRecords, RouteStatuses
<1>3. CASE p = x.price
  BY <1>3 DEF ChangePrice
<1>4. CASE p # x.price
  <2>1. ChangePrice(x, p) = [[[x EXCEPT !.price = p] EXCEPT !.version = v] EXCEPT !.status = s]
    BY <1>1, <1>2, <1>4 DEF ChangePrice, RouteRecords
  <2> QED BY <1>1, <1>2, <1>4, <2>1 DEF RouteRecords
<1> QED BY <1>3, <1>4

\* Each operation on a route writes the successor of its current version.
LEMMA PriceWrite ==
    ASSUME CatalogInv, NEW r \in Routes, NEW p \in Prices, NEW v,
           UpdateRoutePriceForIntegration(r, p, v)
    PROVE  /\ Wrote(r, ChangePrice(Last(routes[r]), p))
           /\ ChangePrice(Last(routes[r]), p).status # "published"
           /\ UNCHANGED <<publish, approvals>>
<1>1. PICK x \in Seen(r) : UpdateRoute(r, ChangePrice(x, p), v)
  BY DEF UpdateRoutePriceForIntegration
<1>2. x \in RouteRecords
  BY SeenVersion
<1>3. ChangePrice(x, p) \in RouteRecords
  BY <1>2, PriceType
<1>4. ChangePrice(x, p).version \in {x.version, x.version + 1}
  BY <1>2, PriceType
<1>5. /\ Wrote(r, ChangePrice(x, p)) /\ x = Last(routes[r])
      /\ ChangePrice(x, p).version = x.version + 1
  BY <1>1, <1>3, <1>4, WriteIsFromCurrent
<1>6. ChangePrice(x, p).status # "published"
  <2>1. x.version \in Nat
    BY <1>2 DEF RouteRecords
  <2>2. ChangePrice(x, p).version # x.version
    BY <1>5, <2>1
  <2> QED BY <1>2, <2>2, PriceType
<1> QED BY <1>5, <1>6 DEF UpdateRoutePriceForIntegration

\* The draft of a route that is not on sale.
LEMMA DraftWrite ==
    ASSUME CatalogInv, NEW r \in Routes, NEW n \in Names, NEW p \in Prices, NEW v,
           UpdateRouteDraft(r, n, p, v)
    PROVE  /\ Wrote(r, UpdateDraft(Last(routes[r]), n, p))
           /\ UpdateDraft(Last(routes[r]), n, p).status # "published"
           /\ UNCHANGED <<publish, approvals>>
<1>1. PICK x \in Seen(r) : /\ x.status \notin {"published", "archived"}
                           /\ UpdateRoute(r, UpdateDraft(x, n, p), v)
  BY DEF UpdateRouteDraft
<1>2. x \in RouteRecords
  BY SeenVersion
<1>3. UpdateDraft(x, n, p) \in RouteRecords /\ UpdateDraft(x, n, p).version = x.version + 1
  BY <1>2, DraftType
<1>4. Wrote(r, UpdateDraft(x, n, p)) /\ x = Last(routes[r])
  BY <1>1, <1>3, WriteIsFromCurrent
<1>5. UpdateDraft(x, n, p).status # "published"
  BY <1>1, <1>2, DraftType
<1> QED BY <1>4, <1>5 DEF UpdateRouteDraft

\* Pausing, disabling and archiving do not put a route on sale.
LEMMA MoveWrite ==
    ASSUME CatalogInv, NEW r \in Routes, NEW status \in RouteStatuses, NEW v,
           MutateLifecycle(r, status, v)
    PROVE  /\ Wrote(r, Moved(Last(routes[r]), status))
           /\ Moved(Last(routes[r]), status).status # "published"
           /\ UNCHANGED <<publish, approvals>>
<1>1. PICK x \in Seen(r) : /\ <<x.status, status>> \in LifecycleMoves
                           /\ UpdateRoute(r, Moved(x, status), v)
  BY DEF MutateLifecycle
<1>2. x \in RouteRecords
  BY SeenVersion
<1>3. Moved(x, status) \in RouteRecords /\ Moved(x, status).version = x.version + 1
  BY <1>2, MovedType
<1>4. Wrote(r, Moved(x, status)) /\ x = Last(routes[r])
  BY <1>1, <1>3, WriteIsFromCurrent
<1>5. status # "published"
  BY <1>1 DEF LifecycleMoves
<1>6. Moved(x, status).status # "published"
  BY <1>2, <1>5, MovedType
<1> QED BY <1>4, <1>6 DEF MutateLifecycle

\* A publication has the terms the seller was shown: the version it names is
\* the current one, and so is the version it was made from.
LEMMA PublishWrite ==
    ASSUME CatalogInv, NEW c \in Publishers, PublishRouteForIntegration(c)
    PROVE  LET r == publish[c]  next == Moved(Last(routes[r]), "published") IN
           /\ r \in Routes
           /\ Wrote(r, next)
           /\ approvals \subseteq approvals'
           /\ \E a \in approvals' : /\ a.route = r /\ a.published = next.version
                                    /\ a.hash.name = next.name /\ a.hash.price = next.price
           /\ publish' \in [Publishers -> Routes \cup {Nobody}]
<1> DEFINE r == publish[c]
<1>1. r \in Routes
  BY DEF CatalogInv, PublishRouteForIntegration
<1>2. PICK shown \in Seen(r), x \in Seen(r) :
        /\ UpdateRoute(r, Moved(x, "published"), shown.version)
        /\ approvals' = approvals \cup
              {[route |-> r, published |-> x.version + 1,
                hash |-> PublishedContractHash(shown)]}
  BY DEF PublishRouteForIntegration
<1> HIDE DEF r
<1>3. x \in RouteRecords
  BY <1>1, SeenVersion
<1>4. Moved(x, "published") \in RouteRecords /\ Moved(x, "published").version = x.version + 1
  BY <1>3, MovedType DEF RouteStatuses
<1>5. Wrote(r, Moved(x, "published")) /\ x = Last(routes[r]) /\ shown.version = x.version
  BY <1>1, <1>2, <1>4, WriteIsFromCurrent
<1>6. shown = x
  BY <1>1, <1>5, SeenVersion
<1>7. Moved(x, "published").name = x.name /\ Moved(x, "published").price = x.price
  BY <1>3, MovedType DEF RouteStatuses
<1>8. \E a \in approvals' : /\ a.route = r /\ a.published = Moved(x, "published").version
                            /\ a.hash.name = Moved(x, "published").name
                            /\ a.hash.price = Moved(x, "published").price
  <2> DEFINE a == [route |-> r, published |-> x.version + 1, hash |-> PublishedContractHash(shown)]
  <2>1. a \in approvals' /\ a.route = r /\ a.published = x.version + 1
    BY <1>2
  <2>2. a.hash.name = x.name /\ a.hash.price = x.price
    BY <1>6 DEF PublishedContractHash
  <2> QED BY <1>4, <1>7, <2>1, <2>2
<1>9. publish' \in [Publishers -> Routes \cup {Nobody}]
  BY DEF CatalogInv, PublishRouteForIntegration
<1> QED BY <1>1, <1>2, <1>5, <1>8, <1>9 DEF r

\* CreateRoute stores version 1 of a route that is new.
LEMMA CreateWrite ==
    ASSUME CatalogInv, NEW r \in Routes, NEW s \in Slugs, NEW n \in Names, NEW p \in Prices,
           CreateRoute(r, s, n, p)
    PROVE  /\ CatalogInv' /\ RoutesGrow
           /\ Len(routes[r]) = 0 /\ Len(routes'[r]) = 1
           /\ \A q \in Routes \ {r} : routes'[q] = routes[q]
           /\ UNCHANGED approvals
<1> DEFINE new == [status |-> "draft", name |-> n, price |-> p, slug |-> s, version |-> 1]
<1>1. /\ routes[r] = << >>
      /\ routes' = [routes EXCEPT ![r] = <<new>>]
      /\ outbox' = outbox \cup {Event("route.changed", r, 1)}
      /\ UNCHANGED <<directory, publish, approvals>>
  BY DEF CreateRoute, CreateDraftRouteForIntegration, RouteIsNew
<1>2. new \in RouteRecords /\ ~Listed(new) /\ new.version = 1
  BY DEF RouteRecords, RouteStatuses, Listed
<1> HIDE DEF new
<1>3. <<new>> \in Seq(RouteRecords) /\ Len(<<new>>) = 1 /\ <<new>>[1] = new
  BY <1>2
<1>4. routes' \in [Routes -> Seq(RouteRecords)] /\ routes'[r] = <<new>>
  BY <1>1, <1>3 DEF CatalogInv
<1>5. VersionsOK(r)' /\ ApprovedOK(r)' /\ FoundOK(r)'
  BY <1>1, <1>2, <1>3, <1>4 DEF VersionsOK, ApprovedOK, FoundOK, Listed
<1>6. ASSUME NEW q \in Routes \ {r} PROVE VersionsOK(q)' /\ ApprovedOK(q)' /\ FoundOK(q)'
  <2>1. routes'[q] = routes[q]
    BY <1>1 DEF CatalogInv
  <2>2. outbox \subseteq outbox' /\ UNCHANGED <<directory, approvals>>
    BY <1>1
  <2>3. VersionsOK(q)'
    BY <2>1, <2>2 DEF CatalogInv, VersionsOK
  <2>4. ApprovedOK(q)'
    BY <2>1, <2>2 DEF CatalogInv, ApprovedOK, Approved, Listed
  <2>5. FoundOK(q)'
    BY <2>1, <2>2 DEF CatalogInv, FoundOK, Listed
  <2> QED BY <2>3, <2>4, <2>5
<1>7. Len(routes[r]) = 0 /\ \A q \in Routes \ {r} : routes'[q] = routes[q]
  BY <1>1 DEF CatalogInv
<1>8. RoutesGrow
  BY <1>7 DEF RoutesGrow
<1> QED BY <1>1, <1>3, <1>4, <1>5, <1>6, <1>7, <1>8 DEF CatalogInv

\* Every operation of the catalog keeps the invariant, the versions that are
\* stored, and the approvals.
LEMMA CatalogNextOK ==
    ASSUME CatalogInv, [CatalogNext]_catalogVars
    PROVE  CatalogInv' /\ RoutesGrow /\ approvals \subseteq approvals'
<1>1. ASSUME UNCHANGED <<routes, directory, approvals, publish>>, outbox \subseteq outbox'
      PROVE  CatalogInv' /\ RoutesGrow /\ approvals \subseteq approvals'
  <2>1. publish' \in [Publishers -> Routes \cup {Nobody}]
    BY <1>1 DEF CatalogInv
  <2> QED BY <1>1, <2>1, CatalogKept
<1>2. ASSUME NEW c \in Publishers, NEW x \in Routes \cup {Nobody},
             publish' = [publish EXCEPT ![c] = x],
             UNCHANGED <<routes, directory, approvals, outbox>>
      PROVE  CatalogInv' /\ RoutesGrow /\ approvals \subseteq approvals'
  <2>1. publish' \in [Publishers -> Routes \cup {Nobody}]
    BY <1>2 DEF CatalogInv
  <2> QED BY <1>2, <2>1, CatalogKept
<1>3. ASSUME NEW r \in Routes, NEW next, Wrote(r, next), next.status # "published",
             UNCHANGED <<publish, approvals>>
      PROVE  CatalogInv' /\ RoutesGrow /\ approvals \subseteq approvals'
  <2>1. publish' \in [Publishers -> Routes \cup {Nobody}] /\ approvals \subseteq approvals'
    BY <1>3 DEF CatalogInv
  <2> QED BY <1>3, <2>1, WroteOK DEF Listed
<1>4. CASE UNCHANGED catalogVars
  BY <1>1, <1>4 DEF catalogVars
<1>5. ASSUME NEW o \in Origins, CreateSeller(o) \/ ConfigureStorefrontForIntegration(o)
      PROVE  CatalogInv' /\ RoutesGrow /\ approvals \subseteq approvals'
  BY <1>1, <1>5 DEF CreateSeller, ConfigureStorefrontForIntegration
<1>6. CASE ActivateSellerService \/ RecordServiceEndpointVerification \/ AbandonSandbox
  BY <1>1, <1>6 DEF ActivateSellerService, RecordServiceEndpointVerification, AbandonSandbox
<1>7. ASSUME NEW r \in Routes, SandboxValidate(r)
      PROVE  CatalogInv' /\ RoutesGrow /\ approvals \subseteq approvals'
  BY <1>1, <1>7 DEF SandboxValidate
<1>8. CASE EntitlementChanges
  BY <1>1, <1>8 DEF EntitlementChanges
<1>9. ASSUME NEW r \in Routes, NEW v \in 1 .. MaxVersion, NEW p \in Prices, UpdateRoutePrice(r, p, v)
      PROVE  CatalogInv' /\ RoutesGrow /\ approvals \subseteq approvals'
  BY <1>3, <1>9, PriceWrite DEF UpdateRoutePrice
<1>10. ASSUME NEW r \in Routes, NEW v \in 1 .. MaxVersion, NEW n \in Names, NEW p \in Prices,
              UpdateRouteDraft(r, n, p, v)
      PROVE  CatalogInv' /\ RoutesGrow /\ approvals \subseteq approvals'
  BY <1>3, <1>10, DraftWrite
<1>11. ASSUME NEW r \in Routes, NEW v \in 1 .. MaxVersion, NEW s \in RouteStatuses,
              MutateLifecycle(r, s, v)
      PROVE  CatalogInv' /\ RoutesGrow /\ approvals \subseteq approvals'
  BY <1>3, <1>11, MoveWrite
<1>12. ASSUME NEW r \in Routes, NEW s \in Slugs, NEW n \in Names, NEW p \in Prices,
              CreateRoute(r, s, n, p)
      PROVE  CatalogInv' /\ RoutesGrow /\ approvals \subseteq approvals'
  BY <1>12, CreateWrite
<1>13. ASSUME NEW c \in Publishers, NEW r \in Routes, AuthorizeRequest(c, r)
      PROVE  CatalogInv' /\ RoutesGrow /\ approvals \subseteq approvals'
  BY <1>2, <1>13 DEF AuthorizeRequest
<1>14. ASSUME NEW c \in Publishers, PublishRouteForIntegration(c)
      PROVE  CatalogInv' /\ RoutesGrow /\ approvals \subseteq approvals'
  BY <1>14, PublishWrite, WroteOK
<1>15. ASSUME NEW c \in Publishers, AbandonPublication(c)
      PROVE  CatalogInv' /\ RoutesGrow /\ approvals \subseteq approvals'
  BY <1>2, <1>15 DEF AbandonPublication
<1> QED BY <1>4, <1>5, <1>6, <1>7, <1>8, <1>9, <1>10, <1>11, <1>12, <1>13, <1>14, <1>15
  DEF CatalogNext

\* What is on sale is what the seller approved for this version, and the
\* directory finds it, whatever old versions the handlers have read.
THEOREM OnSaleAsApproved == CatalogSpec => []PublishedIsFoundAsApproved
<1>1. CatalogInv /\ [CatalogNext]_catalogVars => CatalogInv'
  BY CatalogNextOK
<1>2. CatalogInv => PublishedIsFoundAsApproved
  <2> SUFFICES ASSUME CatalogInv, NEW r \in Routes, routes[r] # << >>, Listed(Last(routes[r]))
               PROVE  LET route == Last(routes[r]) IN
                      /\ directory[<<r, route.name>>] = route.version
                      /\ \E a \in approvals : /\ a.route = r /\ a.published = route.version
                                              /\ a.hash.name = route.name
                                              /\ a.hash.price = route.price
    BY DEF PublishedIsFoundAsApproved
  <2> DEFINE n == Len(routes[r])
  <2>1. routes[r] \in Seq(RouteRecords)
    BY DEF CatalogInv
  <2>2. n \in Nat \ {0} /\ n \in 1 .. n
    BY <2>1
  <2>3. Last(routes[r]) = routes[r][n] /\ routes[r][n].version = n
    BY <2>2 DEF Last, CatalogInv, VersionsOK
  <2>4. directory[<<r, routes[r][n].name>>] = n
    BY <2>2, <2>3 DEF CatalogInv, FoundOK
  <2>5. Approved(r, n)
    BY <2>2, <2>3 DEF CatalogInv, ApprovedOK
  <2> QED BY <2>3, <2>4, <2>5 DEF Approved
<1> QED BY <1>1, <1>2, CatalogInitOK, PTL DEF CatalogSpec

-----------------------------------------------------------------------------
\* The storefront

\* A product of a catalog has the terms of a published version of its route.
ProductOK(p) ==
    \E r \in Routes : \E n \in 1 .. Len(routes[r]) :
        /\ Listed(routes[r][n])
        /\ p = [route |-> r, terms |-> PublishedContractHash(routes[r][n])]

\* A catalog that resolvePublication may have computed.
ComputedOK(c) ==
    /\ c = [seller |-> c.seller, entitlement |-> c.entitlement, products |-> c.products]
    /\ \A p \in c.products : ProductOK(p)

\* A call rests or holds a computed catalog.
JobOK(j) ==
    job[j] # Resting =>
        /\ job[j] = [ pc |-> job[j].pc, attempt |-> job[j].attempt, event |-> job[j].event,
                      found |-> job[j].found, catalog |-> job[j].catalog ]
        /\ job[j].found \in Nat
        /\ ComputedOK(job[j].catalog)

\* A document was signed with a revision that is stored or was, and one with
\* the stored revision has the stored fingerprint.
DocumentOK(d) ==
    /\ ComputedOK(d.catalog)
    /\ d.revision \in 1 .. publication.revision
    /\ d.revision = publication.revision =>
         publication.fingerprint = {Fingerprint(d.catalog)}

\* Versions and revisions of the publication go up together; calls, documents
\* and any two documents with one revision are as above.
PublicationInv ==
    /\ CatalogInv
    /\ publication.revision \in Nat
    /\ publication.version = publication.revision
    /\ DOMAIN job = Jobs
    /\ job = [j \in Jobs |-> job[j]]
    /\ \A j \in Jobs : JobOK(j)
    /\ \A d \in served : DocumentOK(d)
    /\ \A d, e \in served :
         d.revision = e.revision => Fingerprint(d.catalog) = Fingerprint(e.catalog)

\* Nothing is published and every call rests.
LEMMA PublicationInitOK == PublicationInit => PublicationInv
<1> SUFFICES ASSUME PublicationInit PROVE PublicationInv
  OBVIOUS
<1>1. CatalogInv
  BY CatalogInitOK DEF PublicationInit
<1>2. publication.revision = 0 /\ publication.version = 0
  BY DEF PublicationInit, StorefrontInit, NoPublication
<1>3. /\ DOMAIN job = Jobs /\ job = [j \in Jobs |-> job[j]]
      /\ \A j \in Jobs : job[j] = Resting
      /\ served = {}
  BY DEF PublicationInit, StorefrontInit
<1> QED BY <1>1, <1>2, <1>3 DEF PublicationInv, JobOK

\* A computed catalog stays one while versions are added.
LEMMA ComputedKept ==
    ASSUME RoutesGrow, NEW c, ComputedOK(c)
    PROVE  ComputedOK(c)'
<1>1. ASSUME NEW p \in c.products PROVE ProductOK(p)'
  <2>10. PICK r \in Routes : \E n \in 1 .. Len(routes[r]) :
          /\ Listed(routes[r][n])
          /\ p = [route |-> r, terms |-> PublishedContractHash(routes[r][n])]
    BY DEF ComputedOK, ProductOK
  <2>1. PICK n \in 1 .. Len(routes[r]) :
          /\ Listed(routes[r][n])
          /\ p = [route |-> r, terms |-> PublishedContractHash(routes[r][n])]
    BY <2>10
  <2>2. n \in 1 .. Len(routes'[r]) /\ routes'[r][n] = routes[r][n]
    BY DEF RoutesGrow
  <2> QED BY <2>1, <2>2 DEF ProductOK, Listed, PublishedContractHash
<1> QED BY <1>1 DEF ComputedOK

\* The fingerprint has the versions of the products only, but a version of a
\* route has one set of terms: catalogs with one fingerprint are equal.
LEMMA FingerprintNamesCatalog ==
    ASSUME CatalogInv, NEW c, NEW d, ComputedOK(c), ComputedOK(d),
           Fingerprint(c) = Fingerprint(d)
    PROVE  c = d
<1>1. ASSUME NEW x, NEW y, ComputedOK(x), ComputedOK(y), Fingerprint(x) = Fingerprint(y),
             NEW p \in x.products
      PROVE  p \in y.products
  <2>10. PICK r \in Routes : \E n \in 1 .. Len(routes[r]) :
          p = [route |-> r, terms |-> PublishedContractHash(routes[r][n])]
    BY <1>1 DEF ComputedOK, ProductOK
  <2>1. PICK n \in 1 .. Len(routes[r]) :
          p = [route |-> r, terms |-> PublishedContractHash(routes[r][n])]
    BY <2>10
  <2>2. p.route = r /\ p.terms = PublishedContractHash(routes[r][n])
    BY <2>1
  <2>3. p.terms.version = n
    BY <2>2 DEF PublishedContractHash, CatalogInv, VersionsOK
  <2>4. {<<q.route, q.terms.version>> : q \in x.products}
          = {<<q.route, q.terms.version>> : q \in y.products}
    BY <1>1 DEF Fingerprint
  <2>41. <<p.route, p.terms.version>> \in {<<q.route, q.terms.version>> : q \in x.products}
    OBVIOUS
  <2>42. <<p.route, p.terms.version>> \in {<<q.route, q.terms.version>> : q \in y.products}
    BY <2>4, <2>41
  <2>5. PICK q \in y.products : <<q.route, q.terms.version>> = <<p.route, p.terms.version>>
    BY <2>42
  <2>60. PICK s \in Routes : \E m \in 1 .. Len(routes[s]) :
          q = [route |-> s, terms |-> PublishedContractHash(routes[s][m])]
    BY <1>1, <2>5 DEF ComputedOK, ProductOK
  <2>6. PICK m \in 1 .. Len(routes[s]) :
          q = [route |-> s, terms |-> PublishedContractHash(routes[s][m])]
    BY <2>60
  <2>7. q.route = s /\ q.terms = PublishedContractHash(routes[s][m])
    BY <2>6
  <2>8. q.terms.version = m
    BY <2>7 DEF PublishedContractHash, CatalogInv, VersionsOK
  <2>9. s = r /\ m = n
    BY <2>2, <2>3, <2>5, <2>7, <2>8
  <2> QED BY <2>1, <2>5, <2>6, <2>9
<1>2. c.products = d.products
  BY <1>1
<1>3. c.seller = d.seller /\ c.entitlement = d.entitlement
  BY DEF Fingerprint
<1> QED BY <1>2, <1>3 DEF ComputedOK

\* What the reads of one call amount to is a computed catalog.
LEMMA CurrentComputed ==
    ASSUME CatalogInv, NEW seller, NEW list \in Lists, NEW matched \in SUBSET Routes
    PROVE  ComputedOK(CurrentPublishedCatalog(seller, list, matched))
<1> DEFINE c == CurrentPublishedCatalog(seller, list, matched)
<1>1. c = [seller |-> c.seller, entitlement |-> c.entitlement, products |-> c.products]
  BY DEF CurrentPublishedCatalog
<1>2. ASSUME NEW p \in c.products PROVE ProductOK(p)
  <2>1. PICK r \in Routes : /\ list[r] # Nobody /\ Listed(list[r])
                            /\ p = [route |-> r, terms |-> PublishedContractHash(list[r])]
    BY <1>2 DEF CurrentPublishedCatalog
  <2>2. list[r] \in Seen(r)
    BY <2>1 DEF Lists
  <2>3. list[r].version \in 1 .. Len(routes[r]) /\ list[r] = routes[r][list[r].version]
    BY <2>2, SeenVersion
  <2> QED BY <2>1, <2>3 DEF ProductOK
<1> HIDE DEF c
<1> QED BY <1>1, <1>2 DEF ComputedOK, c

\* A change of the catalog leaves documents and calls as they are.
LEMMA PublicationKept ==
    ASSUME PublicationInv, CatalogInv', RoutesGrow, UNCHANGED storefrontVars
    PROVE  PublicationInv'
<1>1. UNCHANGED <<publication, job, served>>
  BY DEF storefrontVars
<1>2. ASSUME NEW j \in Jobs PROVE JobOK(j)'
  BY <1>1, ComputedKept DEF PublicationInv, JobOK
<1>3. ASSUME NEW d \in served PROVE DocumentOK(d)'
  BY <1>1, ComputedKept DEF PublicationInv, DocumentOK
<1>4. \A d, e \in served' :
        d.revision = e.revision => (Fingerprint(d.catalog) = Fingerprint(e.catalog))'
  BY <1>1 DEF PublicationInv, Fingerprint
<1> QED BY <1>1, <1>2, <1>3, <1>4 DEF PublicationInv

\* Nothing of the catalog changes, so computed catalogs stay as they are.
LEMMA ComputedUnchanged ==
    ASSUME UNCHANGED catalogVars, PublicationInv
    PROVE  CatalogInv' /\ RoutesGrow
BY CatalogNextOK DEF PublicationInv

\* A step in which call j goes on, to x, and no document is signed.
LEMMA JobStep ==
    ASSUME PublicationInv, NEW j \in Jobs, NEW x, job' = [job EXCEPT ![j] = x],
           UNCHANGED <<catalogVars, publication, served>>,
           x # Resting =>
             /\ x = [ pc |-> x.pc, attempt |-> x.attempt, event |-> x.event,
                      found |-> x.found, catalog |-> x.catalog ]
             /\ x.found \in Nat
             /\ ComputedOK(x.catalog)
    PROVE  PublicationInv'
<1>1. CatalogInv' /\ RoutesGrow
  BY ComputedUnchanged
<1>2. /\ DOMAIN job' = Jobs /\ job'[j] = x /\ \A k \in Jobs \ {j} : job'[k] = job[k]
      /\ job' = [k \in Jobs |-> job'[k]]
  BY DEF PublicationInv
<1>3. ASSUME NEW k \in Jobs PROVE JobOK(k)'
  <2>1. CASE k = j
    BY <1>1, <1>2, <2>1, ComputedKept DEF JobOK
  <2>2. CASE k # j
    BY <1>1, <1>2, <2>2, ComputedKept DEF PublicationInv, JobOK
  <2> QED BY <2>1, <2>2
<1>4. ASSUME NEW d \in served PROVE DocumentOK(d)'
  BY <1>1, ComputedKept DEF PublicationInv, DocumentOK
<1>5. \A d, e \in served' :
        d.revision = e.revision => (Fingerprint(d.catalog) = Fingerprint(e.catalog))'
  BY DEF PublicationInv
<1> QED BY <1>1, <1>2, <1>3, <1>4, <1>5 DEF PublicationInv

\* A call starts with the catalog it has just computed.
LEMMA StartOK ==
    ASSUME PublicationInv, NEW j \in Jobs, NEW seller, NEW event, Start(j, seller, event)
    PROVE  PublicationInv'
<1>1. PICK list \in Lists, matched \in SUBSET Routes :
        job' = [job EXCEPT ![j] =
                  [pc |-> "load", attempt |-> 1, event |-> event, found |-> 0,
                   catalog |-> CurrentPublishedCatalog(seller, list, matched)]]
  BY DEF Start
<1>2. ComputedOK(CurrentPublishedCatalog(seller, list, matched))
  BY CurrentComputed DEF PublicationInv
<1> QED BY <1>1, <1>2, JobStep DEF Start

\* A call of resolvePublication.
Call(pc, t, e, f, c) ==
    [pc |-> pc, attempt |-> t, event |-> e, found |-> f, catalog |-> c]

\* How a call goes on to write, and back to load.
LEMMA CallPc ==
    ASSUME NEW a, NEW b, NEW e, NEW m, NEW c, NEW x
    PROVE  [Call(a, b, e, m, c) EXCEPT !.pc = x] = Call(x, b, e, m, c)
BY DEF Call

\* Another publication is found.
LEMMA CallFound ==
    ASSUME NEW a, NEW b, NEW e, NEW m, NEW c, NEW x
    PROVE  [Call(a, b, e, m, c) EXCEPT !.found = x] = Call(a, b, e, x, c)
BY DEF Call

\* Another attempt is counted.
LEMMA CallAttempt ==
    ASSUME NEW a, NEW b, NEW e, NEW m, NEW c, NEW x
    PROVE  [Call(a, b, e, m, c) EXCEPT !.attempt = x] = Call(a, x, e, m, c)
BY DEF Call

\* A call that found another publication and is about to replace it.
Found(call, g) == [[call EXCEPT !.pc = "put"] EXCEPT !.found = g]

\* A call keeps its catalog when it goes on to put and when it starts over.
LEMMA CallMoves ==
    ASSUME NEW pc, NEW t, NEW e, NEW f, NEW c, NEW g
    PROVE  /\ Found(Call(pc, t, e, f, c), g) = Call("put", t, e, g, c)
           /\ \E n : NextAttempt(Call(pc, t, e, f, c)) = Call("load", n, e, 0, c)
<1>1. Found(Call(pc, t, e, f, c), g) = Call("put", t, e, g, c)
  <2>1. [Call(pc, t, e, f, c) EXCEPT !.pc = "put"] = Call("put", t, e, f, c)
    BY CallPc
  <2>2. [Call("put", t, e, f, c) EXCEPT !.found = g] = Call("put", t, e, g, c)
    BY CallFound
  <2> QED BY <2>1, <2>2, Zenon DEF Found
<1>2. \E n : NextAttempt(Call(pc, t, e, f, c)) = Call("load", n, e, 0, c)
  <2>1. PICK n : n = t + 1
    OBVIOUS
  <2>2. [Call(pc, t, e, f, c) EXCEPT !.pc = "load"] = Call("load", t, e, f, c)
    BY CallPc
  <2>3. [Call("load", t, e, f, c) EXCEPT !.attempt = n] = Call("load", n, e, f, c)
    BY CallAttempt
  <2>4. [Call("load", n, e, f, c) EXCEPT !.found = 0] = Call("load", n, e, 0, c)
    BY CallFound
  <2>5. Call(pc, t, e, f, c).attempt = t
    BY DEF Call
  <2>6. NextAttempt(Call(pc, t, e, f, c))
          = [[[Call(pc, t, e, f, c) EXCEPT !.pc = "load"] EXCEPT !.attempt = n] EXCEPT !.found = 0]
    BY <2>1, <2>5, Zenon DEF NextAttempt
  <2>7. [[Call(pc, t, e, f, c) EXCEPT !.pc = "load"] EXCEPT !.attempt = n] = Call("load", n, e, f, c)
    BY <2>2, <2>3, Zenon
  <2>8. NextAttempt(Call(pc, t, e, f, c)) = Call("load", n, e, 0, c)
    BY <2>4, <2>6, <2>7, Zenon
  <2> QED BY <2>8
<1> QED BY <1>1, <1>2, Zenon

\* A call that does not rest, in its parts.
LEMMA CallParts ==
    ASSUME PublicationInv, NEW j \in Jobs, job[j] # Resting
    PROVE  \E pc, t, e, c : \E f \in Nat : job[j] = Call(pc, t, e, f, c) /\ ComputedOK(c)
<1>1. /\ job[j] = Call(job[j].pc, job[j].attempt, job[j].event, job[j].found, job[j].catalog)
      /\ job[j].found \in Nat /\ ComputedOK(job[j].catalog)
  BY DEF PublicationInv, JobOK, Call
<1> QED BY <1>1, Zenon

\* The call that found another fingerprint remembers the revision it found.
LEMMA LoadChangedOK ==
    ASSUME PublicationInv, NEW j \in Jobs, LoadChanged(j)
    PROVE  PublicationInv'
<1>1. job[j] # Resting
  BY DEF LoadChanged, Resting
<1>2. PICK pc, t, e, c : \E f \in Nat : job[j] = Call(pc, t, e, f, c) /\ ComputedOK(c)
  BY <1>1, CallParts
<1>3. PICK g \in Nat : g = publication.version
  BY DEF PublicationInv
<1>4. job' = [job EXCEPT ![j] = Found(job[j], g)]
  BY <1>3 DEF LoadChanged, Found
<1>5. Found(job[j], g) = Call("put", t, e, g, c)
  BY <1>2, CallMoves
<1>6. job' = [job EXCEPT ![j] = Call("put", t, e, g, c)]
  BY <1>4, <1>5
<1> QED BY <1>2, <1>6, JobStep DEF LoadChanged, Call

\* The call that lost the conditional write starts over or gives up.
LEMMA PutConflictOK ==
    ASSUME PublicationInv, NEW j \in Jobs, PutConflict(j)
    PROVE  PublicationInv'
<1>1. job[j] # Resting
  BY DEF PutConflict, Resting
<1>2. PICK pc, t, e, c : \E f \in Nat : job[j] = Call(pc, t, e, f, c) /\ ComputedOK(c)
  BY <1>1, CallParts
<1>3. CASE job[j].attempt < MaxAttempts
  <2>1. job' = [job EXCEPT ![j] = NextAttempt(job[j])]
    BY <1>3 DEF PutConflict
  <2>2. PICK n : NextAttempt(job[j]) = Call("load", n, e, 0, c)
    BY <1>2, CallMoves
  <2>3. job' = [job EXCEPT ![j] = Call("load", n, e, 0, c)]
    BY <2>1, <2>2
  <2> QED BY <1>2, <2>3, JobStep DEF PutConflict, Call
<1>4. CASE ~(job[j].attempt < MaxAttempts)
  <2>1. job' = [job EXCEPT ![j] = Resting]
    BY <1>4 DEF PutConflict
  <2> QED BY <2>1, JobStep DEF PutConflict
<1> QED BY <1>3, <1>4

\* A call that fails signs nothing.
LEMMA FailJobOK ==
    ASSUME PublicationInv, NEW j \in Jobs, FailJob(j)
    PROVE  PublicationInv'
BY JobStep DEF FailJob

\* A document of a computed catalog is signed with a revision that no document
\* with another fingerprint has.
LEMMA SignedOK ==
    ASSUME PublicationInv, NEW j \in Jobs, NEW n \in Nat \ {0}, job[j] # Resting,
           NEW c, c = job[j].catalog,
           Return(j, n), UNCHANGED catalogVars,
           publication'.revision = n, publication'.version = n,
           publication'.fingerprint = {Fingerprint(c)},
           n > publication.revision \/ publication' = publication
    PROVE  PublicationInv'
<1> DEFINE new == [revision |-> n, catalog |-> c]
<1>1. CatalogInv' /\ RoutesGrow
  BY ComputedUnchanged
<1>2. ComputedOK(c)'
  BY <1>1, ComputedKept DEF PublicationInv, JobOK
<1>3. job' = [job EXCEPT ![j] = Resting] /\ served' = served \cup {new}
  BY DEF Return
<1>4. /\ DOMAIN job' = Jobs /\ job' = [k \in Jobs |-> job'[k]]
      /\ job'[j] = Resting /\ \A k \in Jobs \ {j} : job'[k] = job[k]
  BY <1>3 DEF PublicationInv
<1>5. ASSUME NEW k \in Jobs PROVE JobOK(k)'
  BY <1>1, <1>4, ComputedKept DEF PublicationInv, JobOK
<1>6. ASSUME NEW d \in served PROVE DocumentOK(d)'
  <2>1. ComputedOK(d.catalog)'
    BY <1>1, ComputedKept DEF PublicationInv, DocumentOK
  <2>2. d.revision \in 1 .. n
    BY DEF PublicationInv, DocumentOK
  <2>3. ASSUME d.revision = n PROVE publication'.fingerprint = {Fingerprint(d.catalog)}
    BY <2>3 DEF PublicationInv, DocumentOK
  <2> QED BY <2>1, <2>2, <2>3 DEF DocumentOK, Fingerprint
<1>7. DocumentOK(new)'
  BY <1>2 DEF DocumentOK, Fingerprint
<1>8. ASSUME NEW d \in served', NEW e \in served', d.revision = e.revision
      PROVE  Fingerprint(d.catalog) = Fingerprint(e.catalog)
  <2>1. ASSUME NEW x \in served, x.revision = n PROVE Fingerprint(x.catalog) = Fingerprint(c)
    <3>1. publication'.fingerprint = {Fingerprint(x.catalog)}
      BY <2>1 DEF PublicationInv, DocumentOK
    <3> QED BY <3>1
  <2>2. new.revision = n /\ new.catalog = c
    OBVIOUS
  <2>3. d \in served \/ d = new
    BY <1>3
  <2>4. e \in served \/ e = new
    BY <1>3
  <2> HIDE DEF new
  <2>5. CASE d \in served /\ e \in served
    BY <1>8, <2>5 DEF PublicationInv
  <2>6. CASE ~(d \in served /\ e \in served)
    BY <1>8, <2>1, <2>2, <2>3, <2>4, <2>6
  <2> QED BY <2>5, <2>6
<1> HIDE DEF new
<1> QED BY <1>1, <1>3, <1>4, <1>5, <1>6, <1>7, <1>8 DEF PublicationInv, Fingerprint

\* The stored fingerprint is the fingerprint of the document that is signed.
LEMMA LoadUnchangedOK ==
    ASSUME PublicationInv, NEW j \in Jobs, LoadUnchanged(j)
    PROVE  PublicationInv'
<1>1. job[j] # Resting
  BY DEF LoadUnchanged, Resting
<1>2. PICK c : c = job[j].catalog
  OBVIOUS
<1>3. /\ publication.revision \in Nat \ {0}
      /\ publication.version = publication.revision
      /\ publication.fingerprint = {Fingerprint(c)}
  BY <1>2 DEF LoadUnchanged, SameFingerprint, PublicationInv
<1>4. PICK n \in Nat \ {0} : n = publication.revision
  BY <1>3
<1> QED BY <1>1, <1>2, <1>3, <1>4, SignedOK DEF LoadUnchanged

\* The stored version is the one that was loaded, so the next revision is new.
LEMMA PutOK ==
    ASSUME PublicationInv, NEW j \in Jobs, Put(j)
    PROVE  PublicationInv'
<1>1. job[j] # Resting
  BY DEF Put, Resting
<1>2. PICK c : c = job[j].catalog
  OBVIOUS
<1>3. PICK n : n = job[j].found + 1
  OBVIOUS
<1>4. n \in Nat \ {0} /\ publication.version = n - 1 /\ publication.revision = n - 1
  BY <1>1, <1>3 DEF Put, CanPut, PublicationInv, JobOK
<1>5. publication' = [revision |-> n, version |-> n, fingerprint |-> {Fingerprint(c)}]
  BY <1>2, <1>3 DEF Put, NextPublication
<1>6. Return(j, n) /\ UNCHANGED catalogVars
  BY <1>3 DEF Put, NextPublication
<1> QED BY <1>1, <1>2, <1>4, <1>5, <1>6, SignedOK

\* Every step of the catalog and of the storefront keeps the invariant.
LEMMA PublicationNextOK ==
    ASSUME PublicationInv, [PublicationNext]_publicationVars
    PROVE  PublicationInv' /\ approvals \subseteq approvals'
<1>1. CASE UNCHANGED publicationVars
  BY <1>1, CatalogNextOK, PublicationKept DEF PublicationInv, publicationVars
<1>2. CASE CatalogNext /\ UNCHANGED storefrontVars
  BY <1>2, CatalogNextOK, PublicationKept DEF PublicationInv
<1>3. ASSUME NEW j \in Jobs, GetManifest(j) \/ RefreshPublishedCatalog(j) \/ Process(j)
      PROVE  PublicationInv' /\ approvals \subseteq approvals'
  <2>1. PICK seller, event : Start(j, seller, event)
    BY <1>3 DEF GetManifest, RefreshPublishedCatalog, Process
  <2> QED BY <2>1, StartOK DEF Start, catalogVars
<1>4. ASSUME NEW j \in Jobs, LoadUnchanged(j) \/ LoadChanged(j) \/ Put(j) \/ PutConflict(j)
                               \/ FailJob(j)
      PROVE  PublicationInv' /\ approvals \subseteq approvals'
  <2>1. approvals' = approvals
    BY <1>4 DEF LoadUnchanged, LoadChanged, Put, PutConflict, FailJob, catalogVars
  <2> QED BY <1>4, <2>1, LoadUnchangedOK, LoadChangedOK, PutOK, PutConflictOK, FailJobOK
<1> QED BY <1>1, <1>2, <1>3, <1>4 DEF PublicationNext

\* Two signed documents with one revision have the same products, terms and
\* seller, however many servers computed them and from however old reads.
THEOREM OneCatalogPerRevision == PublicationSpec => []RevisionNamesOneCatalog
<1>1. PublicationInv /\ [PublicationNext]_publicationVars => PublicationInv'
  BY PublicationNextOK
<1>2. PublicationInv => RevisionNamesOneCatalog
  BY FingerprintNamesCatalog DEF PublicationInv, DocumentOK, RevisionNamesOneCatalog
<1> QED BY <1>1, <1>2, PublicationInitOK, PTL DEF PublicationSpec

\* A signed document names only terms the seller approved for the version in
\* it, although the lists it was computed from may be of any age.
THEOREM ServedAsApproved == PublicationSpec => []ServedTermsWerePublished
<1>1. PublicationInv /\ [PublicationNext]_publicationVars => PublicationInv'
  BY PublicationNextOK
<1>2. PublicationInv => ServedTermsWerePublished
  <2> SUFFICES ASSUME PublicationInv, NEW d \in served, NEW p \in d.catalog.products
               PROVE  \E a \in approvals : /\ a.route = p.route
                                           /\ a.published = p.terms.version
                                           /\ a.hash.price = p.terms.price
                                           /\ a.hash.name = p.terms.name
    BY DEF ServedTermsWerePublished
  <2>10. PICK r \in Routes : \E n \in 1 .. Len(routes[r]) :
          /\ Listed(routes[r][n])
          /\ p = [route |-> r, terms |-> PublishedContractHash(routes[r][n])]
    BY DEF PublicationInv, DocumentOK, ComputedOK, ProductOK
  <2>1. PICK n \in 1 .. Len(routes[r]) :
          /\ Listed(routes[r][n])
          /\ p = [route |-> r, terms |-> PublishedContractHash(routes[r][n])]
    BY <2>10
  <2>2. /\ p.route = r /\ p.terms.version = routes[r][n].version
        /\ p.terms.price = routes[r][n].price /\ p.terms.name = routes[r][n].name
    BY <2>1 DEF PublishedContractHash
  <2>3. routes[r][n].version = n /\ Approved(r, n)
    BY <2>1 DEF PublicationInv, CatalogInv, VersionsOK, ApprovedOK
  <2> QED BY <2>2, <2>3 DEF Approved
<1> QED BY <1>1, <1>2, PublicationInitOK, PTL DEF PublicationSpec

-----------------------------------------------------------------------------
\* The audit trail

\* The event e is about versions that are stored, the last of which is the one
\* it names, and it names what changed.
EventTrue(e) ==
    /\ e.route \in Routes
    /\ e.version \in 1 .. Len(routes[e.route])
    /\ e.since \in 1 .. e.version
    /\ NamesItsChange(e)

\* A new price has taken the route off sale.
PausedByPrice(old, new) == Listed(old) /\ new.status = "paused" /\ new.price # old.price

\* No new price took the route off sale in the versions that e is about.
KeptOnSale(e) ==
    \A v \in e.since .. e.version :
        v > 1 => ~PausedByPrice(routes[e.route][v - 1], routes[e.route][v])

\* The vocabulary refuses e exactly if a new price took the route off sale.
Recordable(e) ==
    \/ ValidAction(e) /\ KeptOnSale(e)
    \/ /\ ~ValidAction(e)
       /\ e.since = e.version /\ e.version > 1
       /\ PausedByPrice(routes[e.route][e.version - 1], routes[e.route][e.version])

\* The request q has the event e in hand.
Holds(q, e) == \E pc \in {"record", "publish"} : request[q] = [pc |-> pc, event |-> e]

\* A request holds no event, or a true one; a draft that it is to publish has
\* its first version only.
HandOK(q) ==
    \/ request[q] = NoRequest
    \/ \E e : /\ Holds(q, e) /\ EventTrue(e) /\ Recordable(e)
              /\ request[q].pc = "publish" => e.version = 1

\* No version is of both events.
Apart(e, f) == Versions(e) \cap Versions(f) = {}

\* Version v of route r has its event, now or soon, or cannot have one.
Explained(r, v) ==
    \/ Accounted(r, v)
    \/ v > 1 /\ PausedByPrice(routes[r][v - 1], routes[r][v])

\* Events are true and no two are about one version, whether they are recorded
\* or in hand, and every version is explained.
AuditInv ==
    /\ CatalogInv
    /\ DOMAIN request = Requests
    /\ \A q \in Requests : HandOK(q)
    /\ \A e \in trail : EventTrue(e) /\ KeptOnSale(e)
    /\ \A e, f \in trail : e # f => Apart(e, f)
    /\ \A q \in Requests : request[q] # NoRequest =>
          /\ \A f \in trail : Apart(request[q].event, f)
          /\ \A p \in Requests \ {q} : request[p] # NoRequest =>
                Apart(request[q].event, request[p].event)
    /\ \A r \in Routes : \A v \in 1 .. Len(routes[r]) : Explained(r, v)

\* Nothing is stored and nothing recorded.
LEMMA AuditInitOK == CatalogInit /\ AuditInit => AuditInv
<1> SUFFICES ASSUME CatalogInit, AuditInit PROVE AuditInv
  OBVIOUS
<1>1. \A r \in Routes : Len(routes[r]) = 0
  BY DEF CatalogInit
<1>2. \A q \in Requests : request[q] = NoRequest
  BY DEF AuditInit
<1> QED BY <1>1, <1>2, CatalogInitOK DEF AuditInit, AuditInv, HandOK

\* A request that holds an event, and which one.
LEMMA InHand ==
    ASSUME AuditInv, NEW q \in Requests, request[q] # NoRequest
    PROVE  /\ Holds(q, request[q].event)
           /\ EventTrue(request[q].event)
           /\ Recordable(request[q].event)
           /\ request[q].pc = "publish" => request[q].event.version = 1
<1>1. PICK e : /\ Holds(q, e) /\ EventTrue(e) /\ Recordable(e)
               /\ request[q].pc = "publish" => e.version = 1
  BY DEF AuditInv, HandOK
<1>2. request[q].event = e
  BY <1>1 DEF Holds
<1> QED BY <1>1, <1>2

\* The versions of a true event are stored.
LEMMA StoredVersions ==
    ASSUME CatalogInv, NEW e, EventTrue(e), NEW r, NEW v, <<r, v>> \in Versions(e)
    PROVE  r \in Routes /\ r = e.route /\ v \in 1 .. Len(routes[r])
<1>1. r = e.route /\ v \in e.since .. e.version
  BY DEF Versions
<1>2. PICK x \in Routes : x = e.route
  BY DEF EventTrue
<1>3. routes[x] \in Seq(RouteRecords)
  BY DEF CatalogInv
<1>4. Len(routes[x]) \in Nat
  BY <1>3
<1>5. e.version \in 1 .. Len(routes[x]) /\ e.since \in 1 .. e.version
  BY <1>2 DEF EventTrue
<1> QED BY <1>1, <1>2, <1>4, <1>5

\* Versions stay, so what an event says of them stays true.
LEMMA EventKept ==
    ASSUME CatalogInv, CatalogInv', RoutesGrow, NEW e, EventTrue(e)
    PROVE  EventTrue(e)' /\ (KeptOnSale(e) => KeptOnSale(e)') /\ (Recordable(e) => Recordable(e)')
<1>1. PICK r \in Routes : r = e.route
  BY DEF EventTrue
<1>2. routes[r] \in Seq(RouteRecords) /\ routes'[r] \in Seq(RouteRecords)
  BY DEF CatalogInv
<1>3. Len(routes[r]) \in Nat /\ Len(routes'[r]) \in Nat
  BY <1>2
<1>4. PICK v \in 1 .. Len(routes[r]) : v = e.version
  BY <1>1 DEF EventTrue
<1>5. PICK s \in 1 .. v : s = e.since
  BY <1>1, <1>4 DEF EventTrue
<1>6. v \in 1 .. Len(routes'[r]) /\ routes'[r][v] = routes[r][v]
  BY DEF RoutesGrow
<1>7. \A n \in 1 .. v : n > 1 => routes'[r][n - 1] = routes[r][n - 1]
  <2> TAKE n \in 1 .. v
  <2> HAVE n > 1
  <2>1. n - 1 \in 1 .. Len(routes[r])
    BY <1>3
  <2> QED BY <2>1 DEF RoutesGrow
<1>8. NamesItsChange(e)'
  <2>1. CASE s = 1
    BY <1>5, <2>1 DEF EventTrue, NamesItsChange
  <2>2. CASE s # 1
    <3>1. routes'[r][s - 1] = routes[r][s - 1]
      BY <1>3, <1>7, <2>2
    <3> QED BY <1>1, <1>4, <1>5, <1>6, <2>2, <3>1 DEF EventTrue, NamesItsChange, Difference, Listed
  <2> QED BY <2>1, <2>2
<1>10. ASSUME KeptOnSale(e) PROVE KeptOnSale(e)'
  <2>1. ASSUME NEW n \in s .. v, n > 1
        PROVE  ~PausedByPrice(routes'[r][n - 1], routes'[r][n])
    <3>1. n \in 1 .. v /\ n \in 1 .. Len(routes[r])
      BY <1>3
    <3>2. routes'[r][n] = routes[r][n] /\ routes'[r][n - 1] = routes[r][n - 1]
      BY <1>7, <2>1, <3>1 DEF RoutesGrow
    <3> QED BY <1>1, <1>4, <1>5, <1>10, <2>1, <3>2 DEF KeptOnSale
  <2> QED BY <1>1, <1>4, <1>5, <2>1 DEF KeptOnSale, PausedByPrice, Listed
<1>9. ASSUME Recordable(e) PROVE Recordable(e)'
  <2>1. CASE ValidAction(e)
    BY <1>9, <1>10, <2>1 DEF Recordable, ValidAction
  <2>2. CASE ~ValidAction(e)
    <3>1. v > 1 /\ PausedByPrice(routes[r][v - 1], routes[r][v])
      BY <1>1, <1>4, <1>9, <2>2 DEF Recordable
    <3>2. routes'[r][v - 1] = routes[r][v - 1]
      BY <1>3, <1>7, <3>1
    <3> QED BY <1>1, <1>4, <1>6, <1>9, <2>2, <3>1, <3>2 DEF Recordable, PausedByPrice, Listed
  <2> QED BY <2>1, <2>2
<1> QED BY <1>1, <1>4, <1>5, <1>6, <1>8, <1>9, <1>10 DEF EventTrue

\* A version that no price took off sale stays explained if it is accounted for
\* still.
LEMMA ExplainedKept ==
    ASSUME CatalogInv, RoutesGrow, NEW r \in Routes, NEW v \in 1 .. Len(routes[r]),
           Explained(r, v), Accounted(r, v) => Accounted(r, v)'
    PROVE  Explained(r, v)'
<1>1. CASE Accounted(r, v)
  BY <1>1 DEF Explained
<1>2. CASE ~Accounted(r, v)
  <2>1. v > 1 /\ PausedByPrice(routes[r][v - 1], routes[r][v])
    BY <1>2 DEF Explained
  <2>2. routes[r] \in Seq(RouteRecords)
    BY DEF CatalogInv
  <2>3. v - 1 \in 1 .. Len(routes[r])
    BY <2>1, <2>2
  <2>4. routes'[r][v - 1] = routes[r][v - 1] /\ routes'[r][v] = routes[r][v]
    BY <2>3 DEF RoutesGrow
  <2> QED BY <2>1, <2>4 DEF Explained, PausedByPrice, Listed
<1> QED BY <1>1, <1>2

\* A step that stores no version and touches no event.
LEMMA AuditKept ==
    ASSUME AuditInv, CatalogInv', RoutesGrow, UNCHANGED <<routes, auditVars>>
    PROVE  AuditInv'
<1>1. UNCHANGED <<routes, request, trail, unrecorded>>
  BY DEF auditVars
<1>2. ASSUME NEW q \in Requests PROVE HandOK(q)'
  BY <1>1, EventKept DEF AuditInv, HandOK, Holds
<1>3. ASSUME NEW e \in trail PROVE EventTrue(e)' /\ KeptOnSale(e)'
  BY EventKept DEF AuditInv
<1>4. ASSUME NEW r \in Routes, NEW v \in 1 .. Len(routes[r]) PROVE Explained(r, v)'
  <2>1. Accounted(r, v) => Accounted(r, v)'
    BY <1>1 DEF Accounted, Versions
  <2> QED BY <2>1, ExplainedKept DEF AuditInv
<1> QED BY <1>1, <1>2, <1>3, <1>4 DEF AuditInv, Apart, Versions

\* Route r gets a version, n, and request q an event about it, new: of the other
\* versions that new is about, q has had the event in hand before.
LEMMA HeldOK ==
    ASSUME AuditInv, CatalogInv', RoutesGrow, NEW q \in Requests, NEW r \in Routes,
           NEW n \in Nat \ {0}, n = Len(routes'[r]), Len(routes[r]) = n - 1,
           \A s \in Routes \ {r} : Len(routes'[s]) = Len(routes[s]),
           NEW new, NEW pc \in {"record", "publish"}, Goes(q, pc, new),
           EventTrue(new)', Recordable(new)', pc = "publish" => new.version = 1,
           <<r, n>> \in Versions(new),
           \A x \in Versions(new) :
              x = <<r, n>> \/ (request[q] # NoRequest /\ x \in Versions(request[q].event)),
           request[q] # NoRequest => Versions(request[q].event) \subseteq Versions(new)
    PROVE  AuditInv'
<1>1. /\ request' = [request EXCEPT ![q] = [pc |-> pc, event |-> new]]
      /\ trail' = trail /\ unrecorded' = unrecorded
      /\ DOMAIN request = Requests /\ CatalogInv
  BY DEF Goes, AuditInv
<1>2. /\ DOMAIN request' = Requests
      /\ request'[q] = [pc |-> pc, event |-> new]
      /\ request'[q] # NoRequest /\ request'[q].event = new /\ request'[q].pc = pc
      /\ \A p \in Requests \ {q} : request'[p] = request[p]
  BY <1>1 DEF NoRequest
<1>3. ASSUME NEW p \in Requests PROVE HandOK(p)'
  <2>1. CASE p = q
    BY <1>2, <2>1 DEF HandOK, Holds
  <2>2. CASE p # q
    BY <1>1, <1>2, <2>2, EventKept DEF AuditInv, HandOK, Holds
  <2> QED BY <2>1, <2>2
<1>4. ASSUME NEW e \in trail PROVE EventTrue(e)' /\ KeptOnSale(e)'
  BY EventKept DEF AuditInv
<1>5. ASSUME NEW f, EventTrue(f), request[q] # NoRequest => Apart(request[q].event, f)
      PROVE  Apart(new, f) /\ Apart(f, new)
  <2>1. ASSUME <<r, n>> \in Versions(f) PROVE FALSE
    <3>1. n \in 1 .. Len(routes[r])
      BY <1>1, <1>5, <2>1, StoredVersions
    <3> QED BY <3>1
  <2> QED BY <1>5, <2>1 DEF Apart
<1>6. ASSUME NEW f \in trail PROVE Apart(new, f)
  BY <1>5 DEF AuditInv
<1>7. ASSUME NEW p \in Requests \ {q}, request[p] # NoRequest
      PROVE  Apart(new, request[p].event) /\ Apart(request[p].event, new)
  BY <1>5, <1>7, InHand DEF AuditInv
<1>8. ASSUME NEW p \in Requests, request'[p] # NoRequest
      PROVE  /\ \A f \in trail : Apart(request'[p].event, f)
             /\ \A o \in Requests \ {p} : request'[o] # NoRequest =>
                   Apart(request'[p].event, request'[o].event)
  <2>1. CASE p = q
    BY <1>2, <1>6, <1>7, <2>1
  <2>2. CASE p # q
    BY <1>2, <1>7, <1>8, <2>2 DEF AuditInv
  <2> QED BY <2>1, <2>2
<1>9. ASSUME NEW s \in Routes, NEW v \in 1 .. Len(routes'[s]) PROVE Explained(s, v)'
  <2>1. CASE s = r /\ v = n
    <3>1. <<s, v>> \in Versions(request'[q].event)
      BY <1>2, <2>1
    <3> QED BY <1>2, <3>1 DEF Explained, Accounted, NoRequest, Versions
  <2>2. CASE ~(s = r /\ v = n)
    <3>1. v \in 1 .. Len(routes[s])
      BY <2>2
    <3>2. ASSUME Accounted(s, v) PROVE Accounted(s, v)'
      <4>1. CASE \E e \in trail : <<s, v>> \in Versions(e)
        BY <1>1, <4>1 DEF Accounted, Versions
      <4>2. CASE <<s, v>> \in unrecorded
        BY <1>1, <4>2 DEF Accounted
      <4>3. ASSUME NEW p \in Requests, request[p] # NoRequest, <<s, v>> \in Versions(request[p].event)
            PROVE  Accounted(s, v)'
        <5>1. request'[p] # NoRequest /\ <<s, v>> \in Versions(request'[p].event)
          <6>1. CASE p = q
            BY <1>2, <4>3, <6>1
          <6>2. CASE p # q
            BY <1>2, <4>3, <6>2
          <6> QED BY <6>1, <6>2
        <5> QED BY <5>1 DEF Accounted, NoRequest, Versions
      <4> QED BY <3>2, <4>1, <4>2, <4>3 DEF Accounted
    <3> QED BY <1>1, <3>1, <3>2, ExplainedKept DEF AuditInv
  <2> QED BY <2>1, <2>2
<1> QED BY <1>1, <1>2, <1>3, <1>4, <1>8, <1>9 DEF AuditInv, Apart, Versions, NoRequest

\* Request q ends: its event is recorded, or each of its versions counts as cut
\* off or is the change that the vocabulary refuses.
LEMMA EndOK ==
    ASSUME AuditInv, NEW q \in Requests, request[q] # NoRequest, UNCHANGED catalogVars,
           request' = [request EXCEPT ![q] = NoRequest],
           NEW e, e = request[q].event,
           \/ trail' = trail \cup {e} /\ unrecorded' = unrecorded /\ KeptOnSale(e)
           \/ trail' = trail /\ unrecorded' = unrecorded \cup Versions(e)
           \/ /\ trail' = trail /\ unrecorded' = unrecorded
              /\ e.since = e.version /\ e.version > 1
              /\ PausedByPrice(routes[e.route][e.version - 1], routes[e.route][e.version])
    PROVE  AuditInv'
<1>1. CatalogInv /\ CatalogInv' /\ RoutesGrow /\ UNCHANGED routes
  BY CatalogNextOK DEF AuditInv, catalogVars
<1>2. /\ DOMAIN request' = Requests
      /\ request'[q] = NoRequest
      /\ \A p \in Requests \ {q} : request'[p] = request[p]
  BY DEF AuditInv
<1>3. trail \subseteq trail' /\ unrecorded \subseteq unrecorded' /\ trail' \subseteq trail \cup {e}
  OBVIOUS
<1>4. EventTrue(e) /\ \A f \in trail : Apart(e, f) /\ Apart(f, e)
  BY InHand DEF AuditInv, Apart
<1>5. ASSUME NEW p \in Requests PROVE HandOK(p)'
  <2>1. CASE p = q
    BY <1>2, <2>1 DEF HandOK, NoRequest
  <2>2. CASE p # q
    BY <1>1, <1>2, <2>2, EventKept DEF AuditInv, HandOK, Holds
  <2> QED BY <2>1, <2>2
<1>6. ASSUME NEW f \in trail' PROVE EventTrue(f)' /\ KeptOnSale(f)'
  BY <1>1, <1>3, <1>4, EventKept DEF AuditInv
<1>7. ASSUME NEW f \in trail', NEW g \in trail', f # g PROVE Apart(f, g)
  BY <1>3, <1>4, <1>7 DEF AuditInv
<1>8. ASSUME NEW p \in Requests, request'[p] # NoRequest
      PROVE  /\ \A f \in trail' : Apart(request'[p].event, f)
             /\ \A o \in Requests \ {p} : request'[o] # NoRequest =>
                   Apart(request'[p].event, request'[o].event)
  <2>1. p # q /\ request'[p] = request[p]
    BY <1>2, <1>8
  <2>2. Apart(request[p].event, e)
    BY <1>8, <2>1 DEF AuditInv
  <2> QED BY <1>2, <1>3, <1>8, <2>1, <2>2 DEF AuditInv
<1>9. ASSUME NEW s \in Routes, NEW v \in 1 .. Len(routes'[s]) PROVE Explained(s, v)'
  <2>1. v \in 1 .. Len(routes[s]) /\ Explained(s, v)
    BY <1>1 DEF AuditInv
  <2>2. CASE <<s, v>> \in Versions(e)
    <3>1. s = e.route /\ v \in e.since .. e.version
      BY <2>2 DEF Versions
    <3>2. CASE e \in trail' \/ <<s, v>> \in unrecorded'
      BY <2>2, <3>2 DEF Explained, Accounted, Versions
    <3>3. CASE ~(e \in trail' \/ <<s, v>> \in unrecorded')
      <4>1. /\ e.since = e.version /\ e.version > 1
            /\ PausedByPrice(routes[e.route][e.version - 1], routes[e.route][e.version])
        BY <2>2, <3>3
      <4>2. v = e.version
        <5>1. PICK x \in Routes : x = e.route
          BY <3>1
        <5>2. routes[x] \in Seq(RouteRecords)
          BY <1>1 DEF CatalogInv
        <5>3. e.version \in 1 .. Len(routes[x]) /\ Len(routes[x]) \in Nat
          BY <1>4, <5>1, <5>2 DEF EventTrue
        <5> QED BY <3>1, <4>1, <5>3
      <4> QED BY <1>1, <3>1, <4>1, <4>2 DEF Explained, PausedByPrice, Listed
    <3> QED BY <3>2, <3>3
  <2>3. CASE <<s, v>> \notin Versions(e)
    <3>1. ASSUME Accounted(s, v) PROVE Accounted(s, v)'
      <4>1. CASE \E f \in trail : <<s, v>> \in Versions(f)
        BY <1>3, <4>1 DEF Accounted, Versions
      <4>2. CASE <<s, v>> \in unrecorded
        BY <1>3, <4>2 DEF Accounted
      <4>3. ASSUME NEW p \in Requests, request[p] # NoRequest, <<s, v>> \in Versions(request[p].event)
            PROVE  Accounted(s, v)'
        <5>1. request'[p] = request[p]
          BY <1>2, <2>3, <4>3
        <5> QED BY <4>3, <5>1 DEF Accounted, NoRequest, Versions
      <4> QED BY <3>1, <4>1, <4>2, <4>3 DEF Accounted
    <3> QED BY <1>1, <2>1, <3>1, ExplainedKept
  <2> QED BY <2>2, <2>3
<1> QED BY <1>1, <1>2, <1>5, <1>6, <1>7, <1>8, <1>9 DEF AuditInv, Apart, Versions, NoRequest

\* validateAction, of an action and its fields.
Allowed(action, fields) ==
    /\ action \in DOMAIN ActionDefinitions
    /\ fields # {}
    /\ fields \subseteq ActionDefinitions[action]

\* What an event is about is in its record.
LEMMA EventParts ==
    ASSUME NEW r, NEW s, NEW n, NEW action, NEW fields
    PROVE  LET e == AuditEvent(r, s, n, action, fields) IN
           /\ e.route = r /\ e.since = s /\ e.version = n /\ e.fields = fields
           /\ ValidAction(e) <=> Allowed(action, fields)
           /\ Versions(e) = {r} \X (s .. n)
BY DEF AuditEvent, ValidAction, Allowed, Versions

\* A version is the first or a later one.
LEMMA OneOrMore ==
    ASSUME NEW n \in Nat \ {0}
    PROVE  n = 1 \/ n > 1
OBVIOUS

\* A request commits version n of route r and takes its event in hand.
LEMMA CommittedOK ==
    ASSUME AuditInv, CatalogInv', RoutesGrow, NEW q \in Requests, NEW r \in Routes,
           NEW action, NEW fields, Committed(q, r, action, fields),
           NEW n \in Nat \ {0}, n = Len(routes'[r]), Len(routes[r]) = n - 1,
           \A s \in Routes \ {r} : Len(routes'[s]) = Len(routes[s]),
           n = 1 => fields = Contract \cup Lifecycle,
           n > 1 => Difference(routes'[r][n - 1], routes'[r][n]) \subseteq fields,
           Allowed(action, fields) <=>
              ~(n > 1 /\ PausedByPrice(routes'[r][n - 1], routes'[r][n]))
    PROVE  AuditInv'
<1>0. PICK new : new = AuditEvent(r, n, n, action, fields)
  OBVIOUS
<1>1. request[q] = NoRequest /\ Goes(q, "record", new)
  BY <1>0 DEF Committed
<1>2. /\ new.route = r /\ new.since = n /\ new.version = n /\ new.fields = fields
      /\ ValidAction(new) <=> Allowed(action, fields)
      /\ Versions(new) = {r} \X (n .. n)
  BY <1>0, EventParts
<1>3. EventTrue(new)'
  <2>1. new.version \in 1 .. Len(routes'[r]) /\ new.since \in 1 .. new.version
    BY <1>2
  <2>2. NamesItsChange(new)'
    <3>1. CASE n = 1
      BY <1>2, <3>1 DEF NamesItsChange, Contract, Lifecycle, Difference, Listed
    <3>2. CASE n # 1
      <4>1. n > 1
        BY <3>2, OneOrMore
      <4>2. Difference(routes'[new.route][new.since - 1], routes'[new.route][new.version])
              \subseteq new.fields
        BY <1>2, <4>1
      <4>3. new.since # 1
        BY <1>2, <3>2
      <4> QED BY <4>2, <4>3 DEF NamesItsChange, Difference, Contract, Lifecycle, Listed
    <3> QED BY <3>1, <3>2
  <2> QED BY <1>2, <2>1, <2>2 DEF EventTrue
<1>4. Recordable(new)'
  <2>1. ~(n > 1 /\ PausedByPrice(routes'[r][n - 1], routes'[r][n])) => KeptOnSale(new)'
    BY <1>2 DEF KeptOnSale, PausedByPrice, Listed
  <2> QED BY <1>2, <2>1 DEF Recordable, PausedByPrice, Listed, ValidAction
<1>5. <<r, n>> \in Versions(new) /\ \A x \in Versions(new) : x = <<r, n>>
  BY <1>2
<1> QED BY <1>1, <1>3, <1>4, <1>5, HeldOK

\* The current version of a route that exists.
LEMMA LastVersion ==
    ASSUME CatalogInv, NEW r \in Routes, routes[r] # << >>
    PROVE  Last(routes[r]) \in RouteRecords
<1>1. routes[r] \in Seq(RouteRecords)
  BY DEF CatalogInv
<1> QED BY <1>1 DEF Last

\* A request that stored next after the current version x.
LEMMA WroteCommitted ==
    ASSUME AuditInv, CatalogInv', RoutesGrow, NEW q \in Requests, NEW r \in Routes,
           NEW next, Wrote(r, next), NEW action, NEW fields, Committed(q, r, action, fields),
           Difference(Last(routes[r]), next) \subseteq fields,
           Allowed(action, fields) <=> ~PausedByPrice(Last(routes[r]), next)
    PROVE  AuditInv'
<1>1. CatalogInv
  BY DEF AuditInv
<1>2. PICK m \in Nat \ {0} : m = Len(routes[r])
  BY <1>1, WroteVersions
<1>3. /\ Len(routes'[r]) = m + 1
      /\ routes'[r][m + 1] = next
      /\ routes'[r][m] = Last(routes[r])
      /\ \A s \in Routes \ {r} : routes'[s] = routes[s]
  BY <1>1, <1>2, WroteVersions DEF Last
<1>4. PICK n \in Nat \ {0} : n = m + 1 /\ n - 1 = m /\ n > 1
  BY <1>2
<1> QED BY <1>2, <1>3, <1>4, CommittedOK

\* A new price changes the price and takes a published route off sale; its event
\* is refused then, and only then.
LEMMA AuditedPriceOK ==
    ASSUME AuditInv, NEW q \in Requests, NEW r \in Routes, NEW p \in Prices, NEW v,
           AuditedUpdateRoutePrice(q, r, p, v)
    PROVE  AuditInv'
<1>1. PICK x \in Seen(r) :
        /\ UpdateRoute(r, ChangePrice(x, p), v)
        /\ UNCHANGED <<publish, approvals>>
        /\ Committed(q, r, "route_price_changed", PriceChangeFields(Listed(x), ChangePrice(x, p)))
  BY DEF AuditedUpdateRoutePrice
<1>2. CatalogInv /\ x \in RouteRecords
  BY SeenVersion DEF AuditInv
<1> DEFINE next == ChangePrice(x, p)
<1>3. next \in RouteRecords /\ next.version \in {x.version, x.version + 1} /\ next.name = x.name
  BY <1>2, PriceType
<1>4. Wrote(r, next) /\ x = Last(routes[r]) /\ next.version = x.version + 1
  BY <1>1, <1>2, <1>3, WriteIsFromCurrent
<1>5. /\ next.status = IF x.status = "published" THEN "paused" ELSE x.status
      /\ next.price # x.price
  <2>1. next.version # x.version
    BY <1>2, <1>4 DEF RouteRecords
  <2> QED BY <1>2, <2>1, PriceType
<1> HIDE DEF next
<1>6. CatalogInv' /\ RoutesGrow
  <2>1. publish' \in [Publishers -> Routes \cup {Nobody}] /\ approvals \subseteq approvals'
    BY <1>1, <1>2 DEF CatalogInv
  <2>2. ~Listed(next)
    BY <1>5 DEF Listed
  <2> QED BY <1>2, <1>4, <2>1, <2>2, WroteOK
<1> DEFINE fields == PriceChangeFields(Listed(x), next)
<1>7. Difference(x, next) \subseteq fields
  BY <1>3, <1>5 DEF Difference, PriceChangeFields, Contract, Lifecycle, Listed
<1>8. Allowed("route_price_changed", fields) <=> ~PausedByPrice(x, next)
  <2>1. CASE Listed(x)
    <3>1. PausedByPrice(x, next) /\ next.status = "paused"
      BY <1>5, <2>1 DEF PausedByPrice, Listed
    <3>2. "enabled" \in fields
      BY <2>1, <3>1 DEF PriceChangeFields, Lifecycle
    <3> QED BY <3>1, <3>2 DEF Allowed, ActionDefinitions
  <2>2. CASE ~Listed(x)
    BY <2>2 DEF PriceChangeFields, Allowed, ActionDefinitions, PausedByPrice
  <2> QED BY <2>1, <2>2
<1>9. Committed(q, r, "route_price_changed", fields)
  BY <1>1 DEF next
<1> HIDE DEF fields
<1> QED BY <1>4, <1>6, <1>7, <1>8, <1>9, WroteCommitted

\* A new draft changes the name and the price only.
LEMMA AuditedDraftOK ==
    ASSUME AuditInv, NEW q \in Requests, NEW r \in Routes, NEW n \in Names, NEW p \in Prices,
           NEW v, AuditedUpdateRouteDraft(q, r, n, p, v)
    PROVE  AuditInv'
<1> DEFINE x == Last(routes[r])
           next == UpdateDraft(x, n, p)
<1>1. CatalogInv /\ UpdateRouteDraft(r, n, p, v)
  BY DEF AuditInv, AuditedUpdateRouteDraft
<1>2. Wrote(r, next) /\ next.status # "published" /\ UNCHANGED <<publish, approvals>>
  BY <1>1, DraftWrite
<1>3. x \in RouteRecords
  BY <1>1, <1>2, LastVersion DEF Wrote
<1>4. CatalogInv' /\ RoutesGrow
  <2>1. publish' \in [Publishers -> Routes \cup {Nobody}] /\ approvals \subseteq approvals'
    BY <1>1, <1>2 DEF CatalogInv
  <2> QED BY <1>1, <1>2, <2>1, WroteOK DEF Listed
<1>5. next.status = x.status
  BY <1>3, DraftType
<1> HIDE DEF x, next
<1>6. Difference(x, next) \subseteq Contract
  BY <1>5 DEF Difference, Contract, Lifecycle, Listed
<1>7. Allowed("route_draft_updated", Contract) /\ ~PausedByPrice(x, next)
  BY <1>2, <1>5 DEF Allowed, ActionDefinitions, Contract, PausedByPrice, Listed, x, next
<1> QED BY <1>2, <1>4, <1>6, <1>7, WroteCommitted DEF AuditedUpdateRouteDraft, x

\* A change of the lifecycle changes the status only.
LEMMA AuditedMoveOK ==
    ASSUME AuditInv, NEW q \in Requests, NEW r \in Routes, NEW s \in RouteStatuses, NEW v,
           AuditedMutateLifecycle(q, r, s, v)
    PROVE  AuditInv'
<1> DEFINE x == Last(routes[r])
           next == Moved(x, s)
<1>1. CatalogInv /\ MutateLifecycle(r, s, v)
  BY DEF AuditInv, AuditedMutateLifecycle
<1>2. Wrote(r, next) /\ next.status # "published" /\ UNCHANGED <<publish, approvals>>
  BY <1>1, MoveWrite
<1>3. x \in RouteRecords
  BY <1>1, <1>2, LastVersion DEF Wrote
<1>4. CatalogInv' /\ RoutesGrow
  <2>1. publish' \in [Publishers -> Routes \cup {Nobody}] /\ approvals \subseteq approvals'
    BY <1>1, <1>2 DEF CatalogInv
  <2> QED BY <1>1, <1>2, <2>1, WroteOK DEF Listed
<1>5. next.name = x.name /\ next.price = x.price
  BY <1>3, MovedType
<1> HIDE DEF x, next
<1>6. Difference(x, next) \subseteq Lifecycle
  BY <1>5 DEF Difference, Contract, Lifecycle
<1>7. Allowed(ActionOf(s), Lifecycle) /\ ~PausedByPrice(x, next)
  BY <1>5 DEF Allowed, ActionDefinitions, ActionOf, Lifecycle, PausedByPrice
<1> QED BY <1>2, <1>4, <1>6, <1>7, WroteCommitted DEF AuditedMutateLifecycle, x

\* What a publication of route r writes.
LEMMA PublishStored ==
    ASSUME AuditInv, NEW c \in Publishers, PublishRouteForIntegration(c)
    PROVE  LET r == publish[c]  x == Last(routes[r])  next == Moved(x, "published") IN
           /\ r \in Routes /\ Wrote(r, next)
           /\ Difference(x, next) \subseteq Lifecycle /\ next.price = x.price
           /\ CatalogInv' /\ RoutesGrow
<1>1. PICK r \in Routes : r = publish[c]
  BY PublishWrite DEF AuditInv
<1> DEFINE x == Last(routes[r])
           next == Moved(x, "published")
<1>2. CatalogInv /\ Wrote(r, next)
  BY <1>1, PublishWrite DEF AuditInv
<1>3. CatalogInv' /\ RoutesGrow
  BY <1>1, <1>2, PublishWrite, WroteOK
<1>4. x \in RouteRecords /\ "published" \in RouteStatuses
  BY <1>2, LastVersion DEF Wrote, RouteStatuses
<1>5. next.name = x.name /\ next.price = x.price
  BY <1>4, MovedType
<1> HIDE DEF x, next
<1>6. Difference(x, next) \subseteq Lifecycle
  BY <1>5 DEF Difference, Contract, Lifecycle
<1> QED BY <1>1, <1>2, <1>3, <1>5, <1>6 DEF x, next

\* A publication of a stored route.
LEMMA AuditedPublishOK ==
    ASSUME AuditInv, NEW q \in Requests, NEW c \in Publishers, AuditedPublishRoute(q, c)
    PROVE  AuditInv'
<1>1. PICK r : r = publish[c]
  OBVIOUS
<1>2. PICK next : next = Moved(Last(routes[r]), "published")
  OBVIOUS
<1>3. /\ r \in Routes /\ Wrote(r, next) /\ Difference(Last(routes[r]), next) \subseteq Lifecycle
      /\ CatalogInv' /\ RoutesGrow /\ next.price = Last(routes[r]).price
  BY <1>1, <1>2, PublishStored DEF AuditedPublishRoute
<1>4. Allowed("route_published", Lifecycle) /\ ~PausedByPrice(Last(routes[r]), next)
  BY <1>3 DEF Allowed, ActionDefinitions, Lifecycle, PausedByPrice
<1>5. Committed(q, r, "route_published", Lifecycle)
  BY <1>1 DEF AuditedPublishRoute
<1> QED BY <1>3, <1>4, <1>5, WroteCommitted

\* An event that begins with the creation is true if it names every field.
LEMMA CreationTrue ==
    ASSUME NEW e, e.route \in Routes, e.since = 1, e.version \in 1 .. Len(routes'[e.route]),
           e.fields = Contract \cup Lifecycle
    PROVE  EventTrue(e)'
<1>1. NamesItsChange(e)'
  BY DEF NamesItsChange, Difference, Contract, Lifecycle, Listed
<1> QED BY <1>1 DEF EventTrue

\* The event of a draft names every field.
LEMMA AuditedCreateOK ==
    ASSUME AuditInv, NEW q \in Requests, NEW r \in Routes, NEW s \in Slugs, NEW n \in Names,
           NEW p \in Prices, AuditedCreateRoute(q, r, s, n, p)
    PROVE  AuditInv'
<1>1. /\ CatalogInv' /\ RoutesGrow /\ Len(routes[r]) = 0 /\ Len(routes'[r]) = 1
      /\ \A o \in Routes \ {r} : routes'[o] = routes[o]
  BY CreateWrite DEF AuditInv, AuditedCreateRoute
<1>2. Committed(q, r, "route_draft_created", Contract \cup Lifecycle)
  BY DEF AuditedCreateRoute
<1>3. PICK m \in Nat \ {0} : m = 1
  OBVIOUS
<1> DEFINE fields == Contract \cup Lifecycle
<1>4. Allowed("route_draft_created", fields)
  BY DEF Allowed, ActionDefinitions, Contract, Lifecycle
<1>5. m = Len(routes'[r]) /\ Len(routes[r]) = m - 1 /\ ~(m > 1)
  BY <1>1, <1>3
<1> QED BY <1>1, <1>2, <1>3, <1>4, <1>5, CommittedOK

\* So does the event of a draft that is to be published.
LEMMA CreateToPublishOK ==
    ASSUME AuditInv, NEW q \in Requests, NEW r \in Routes, NEW s \in Slugs, NEW n \in Names,
           NEW p \in Prices, CreateToPublish(q, r, s, n, p)
    PROVE  AuditInv'
<1>0. PICK fields, new : /\ fields = Contract \cup Lifecycle
                         /\ new = AuditEvent(r, 1, 1, "route_published", fields)
  OBVIOUS
<1>1. /\ CatalogInv' /\ RoutesGrow /\ Len(routes[r]) = 0 /\ Len(routes'[r]) = 1
      /\ \A o \in Routes \ {r} : routes'[o] = routes[o]
  BY CreateWrite DEF AuditInv, CreateToPublish
<1>2. request[q] = NoRequest /\ Goes(q, "publish", new)
  BY <1>0 DEF CreateToPublish
<1>3. /\ new.route = r /\ new.since = 1 /\ new.version = 1 /\ new.fields = fields
      /\ ValidAction(new) <=> Allowed("route_published", fields)
      /\ Versions(new) = {r} \X (1 .. 1)
  BY <1>0, EventParts
<1>4. Allowed("route_published", fields)
  BY <1>0 DEF Allowed, ActionDefinitions, Contract, Lifecycle
<1>5. EventTrue(new)'
  <2>1. new.version \in 1 .. Len(routes'[r])
    BY <1>1, <1>3
  <2> QED BY <1>0, <1>3, <2>1, CreationTrue
<1>6. Recordable(new)'
  BY <1>3, <1>4 DEF Recordable, ValidAction, KeptOnSale
<1>7. PICK n1 \in Nat \ {0} : n1 = 1
  OBVIOUS
<1>8. n1 = Len(routes'[r]) /\ Len(routes[r]) = n1 - 1
  BY <1>1, <1>7
<1>9. /\ <<r, n1>> \in Versions(new)
      /\ \A x \in Versions(new) :
            x = <<r, n1>> \/ (request[q] # NoRequest /\ x \in Versions(request[q].event))
      /\ request[q] # NoRequest => Versions(request[q].event) \subseteq Versions(new)
  BY <1>2, <1>3, <1>7
<1>10. PICK pc \in {"record", "publish"} : pc = "publish"
  OBVIOUS
<1>11. Goes(q, pc, new) /\ (pc = "publish" => new.version = 1)
  BY <1>2, <1>3, <1>10
<1>12. \A o \in Routes \ {r} : Len(routes'[o]) = Len(routes[o])
  BY <1>1
<1>13. CatalogInv' /\ RoutesGrow
  BY <1>1
<1> QED BY <1>5, <1>6, <1>8, <1>9, <1>11, <1>12, <1>13, HeldOK

\* The draft is published: its event is now about both of its versions.
LEMMA PublishCreatedOK ==
    ASSUME AuditInv, NEW q \in Requests, NEW c \in Publishers, PublishCreated(q, c)
    PROVE  AuditInv'
<1>1. PICK r : r = publish[c]
  OBVIOUS
<1>2. PICK next : next = Moved(Last(routes[r]), "published")
  OBVIOUS
<1>3. /\ r \in Routes /\ Wrote(r, next) /\ CatalogInv /\ CatalogInv' /\ RoutesGrow
      /\ next.price = Last(routes[r]).price
  BY <1>1, <1>2, PublishStored DEF PublishCreated, AuditInv
<1>4. Len(routes[r]) = 1
  BY <1>1 DEF PublishCreated
<1>5. Len(routes'[r]) = 2 /\ \A s \in Routes \ {r} : routes'[s] = routes[s]
  <2>1. Len(routes'[r]) = Len(routes[r]) + 1 /\ \A s \in Routes \ {r} : routes'[s] = routes[s]
    BY <1>3, WroteVersions
  <2> QED BY <1>4, <2>1
<1>6. PICK old : old = request[q].event
  OBVIOUS
<1>7. request[q] # NoRequest /\ EventTrue(old) /\ old.version = 1 /\ old.route = r
  BY <1>1, <1>6, InHand DEF PublishCreated, NoRequest
<1>8. Versions(old) = {r} \X (1 .. 1)
  <2>1. old.since = 1
    BY <1>7 DEF EventTrue
  <2> QED BY <1>7, <2>1 DEF Versions
<1>9. PICK fields, new : /\ fields = Contract \cup Lifecycle
                         /\ new = AuditEvent(r, 1, 2, "route_published", fields)
  OBVIOUS
<1>10. Goes(q, "record", new)
  BY <1>1, <1>9 DEF PublishCreated
<1>11. /\ new.route = r /\ new.since = 1 /\ new.version = 2 /\ new.fields = fields
       /\ ValidAction(new) <=> Allowed("route_published", fields)
       /\ Versions(new) = {r} \X (1 .. 2)
  BY <1>9, EventParts
<1>12. EventTrue(new)'
  <2>1. new.version \in 1 .. Len(routes'[r])
    BY <1>5, <1>11
  <2> QED BY <1>3, <1>9, <1>11, <2>1, CreationTrue
<1>13. Recordable(new)'
  <2>1. Allowed("route_published", fields)
    BY <1>9 DEF Allowed, ActionDefinitions, Contract, Lifecycle
  <2>2. routes'[r][2].price = routes'[r][1].price
    <3>1. PICK x : x = Last(routes[r])
      OBVIOUS
    <3>2. x = routes[r][1]
      BY <1>4, <3>1 DEF Last
    <3>3. \A m \in 1 .. Len(routes[r]) : routes'[r][m] = routes[r][m]
      BY <1>3, WroteVersions
    <3>4. routes'[r][Len(routes[r]) + 1] = next
      BY <1>3, WroteVersions
    <3>5. routes'[r][2] = next /\ routes'[r][1] = x
      BY <1>4, <3>2, <3>3, <3>4
    <3> QED BY <1>3, <3>1, <3>5
  <2>3. ASSUME NEW v \in 1 .. 2, v > 1 PROVE ~PausedByPrice(routes'[r][v - 1], routes'[r][v])
    <3>1. v = 2 /\ v - 1 = 1
      BY <2>3
    <3> QED BY <2>2, <3>1 DEF PausedByPrice
  <2>4. KeptOnSale(new)'
    BY <1>11, <2>3 DEF KeptOnSale, PausedByPrice, Listed
  <2> QED BY <1>11, <2>1, <2>4 DEF Recordable, ValidAction
<1>14. PICK n \in Nat \ {0} : n = 2
  OBVIOUS
<1>15. n = Len(routes'[r]) /\ Len(routes[r]) = n - 1
  BY <1>4, <1>5, <1>14
<1>16. /\ <<r, n>> \in Versions(new)
       /\ \A x \in Versions(new) :
             x = <<r, n>> \/ (request[q] # NoRequest /\ x \in Versions(request[q].event))
       /\ Versions(request[q].event) \subseteq Versions(new)
  BY <1>6, <1>7, <1>8, <1>11, <1>14
<1>17. PICK pc \in {"record", "publish"} : pc = "record"
  OBVIOUS
<1>18. Goes(q, pc, new) /\ (pc = "publish" => new.version = 1)
  BY <1>10, <1>17
<1>19. \A s \in Routes \ {r} : Len(routes'[s]) = Len(routes[s])
  BY <1>5
<1> QED BY <1>3, <1>12, <1>13, <1>15, <1>16, <1>18, <1>19, HeldOK

\* Recording stores the event in hand, unless the vocabulary refuses it; a
\* request that is cut off forgets it.
LEMMA RecordOK ==
    ASSUME AuditInv, NEW q \in Requests, Record(q) \/ CutOff(q)
    PROVE  AuditInv'
<1>1. request[q] # NoRequest /\ request' = [request EXCEPT ![q] = NoRequest]
  BY DEF Record, CutOff, NoRequest
<1>2. PICK e : e = request[q].event
  OBVIOUS
<1>3. Recordable(e)
  BY <1>1, <1>2, InHand
<1>4. CASE Record(q) /\ ValidAction(e)
  BY <1>1, <1>2, <1>3, <1>4, EndOK DEF Record, Recordable
<1>5. CASE Record(q) /\ ~ValidAction(e)
  BY <1>1, <1>2, <1>3, <1>5, EndOK DEF Record, Recordable
<1>6. CASE CutOff(q)
  BY <1>1, <1>2, <1>6, EndOK DEF CutOff
<1> QED BY <1>4, <1>5, <1>6

\* Every request, and every authorization of a publication, keeps the invariant.
LEMMA AuditNextOK ==
    AuditInv /\ [AuditNext]_<<catalogVars, auditVars>> => AuditInv'
<1> SUFFICES ASSUME AuditInv, [AuditNext]_<<catalogVars, auditVars>> PROVE AuditInv'
  OBVIOUS
<1>1. CASE UNCHANGED <<catalogVars, auditVars>>
  BY <1>1, CatalogNextOK, AuditKept DEF AuditInv, catalogVars
<1>2. ASSUME NEW c \in Publishers, NEW r \in Routes, AuthorizeRequest(c, r), UNCHANGED auditVars
      PROVE  AuditInv'
  <2>1. CatalogNext /\ UNCHANGED routes
    BY <1>2 DEF CatalogNext, AuthorizeRequest
  <2> QED BY <1>2, <2>1, CatalogNextOK, AuditKept DEF AuditInv
<1> QED BY <1>1, <1>2, RecordOK, AuditedPriceOK, AuditedDraftOK, AuditedMoveOK, AuditedPublishOK,
           AuditedCreateOK, CreateToPublishOK, PublishCreatedOK
    DEF AuditNext

\* The audit trail matches the history of the routes, whatever old copies the
\* requests worked from: every event names what its change was, no version has
\* two, every version has one unless its request was cut off, and a version in
\* which a new price took the published route off sale never has one.
THEOREM TrailIsComplete == AuditSpec => []TrailMatchesHistory
<1>1. AuditInv => TrailMatchesHistory
  <2> SUFFICES ASSUME AuditInv PROVE TrailMatchesHistory
    OBVIOUS
  <2>1. ASSUME NEW r \in Routes PROVE DOMAIN routes[r] = 1 .. Len(routes[r])
    <3>1. routes[r] \in Seq(RouteRecords)
      BY DEF AuditInv, CatalogInv
    <3> QED BY <3>1
  <2>2. /\ \A e \in trail : NamesItsChange(e)
        /\ \A e, f \in trail : Versions(e) \cap Versions(f) # {} => e = f
    BY DEF AuditInv, EventTrue, Apart
  <2>3. ASSUME NEW r \in Routes, NEW v \in 1 .. Len(routes[r])
        PROVE  TakenOffSaleByPrice(r, v) <=> v > 1 /\ PausedByPrice(routes[r][v - 1], routes[r][v])
    BY DEF TakenOffSaleByPrice, PausedByPrice
  <2>4. ASSUME NEW r \in Routes, NEW v \in 1 .. Len(routes[r]), TakenOffSaleByPrice(r, v),
               NEW e \in trail
        PROVE  <<r, v>> \notin Versions(e)
    BY <2>3, <2>4 DEF AuditInv, KeptOnSale, Versions
  <2>5. ASSUME NEW r \in Routes, NEW v \in 1 .. Len(routes[r]), ~TakenOffSaleByPrice(r, v)
        PROVE  Accounted(r, v)
    BY <2>3, <2>5 DEF AuditInv, Explained
  <2> QED BY <2>1, <2>2, <2>4, <2>5 DEF TrailMatchesHistory
<1> QED BY <1>1, AuditInitOK, AuditNextOK, PTL DEF AuditSpec
=============================================================================

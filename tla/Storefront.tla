------------------------------ MODULE Storefront ------------------------------
(***************************************************************************)
(* The public side of the catalog (internal/storefront, publicationops):   *)
(* every manifest that is served, every refresh after a change and every   *)
(* event of the publication outbox resolves the publication of the seller. *)
(* It computes the catalog from its own reads, and stores it as the next   *)
(* publication revision unless the stored one has the same fingerprint.    *)
(*                                                                         *)
(* The stream behind the outbox delivers an event at least once and again  *)
(* after a failure; a completion record ends that.                         *)
(***************************************************************************)
EXTENDS Catalog

CONSTANTS
    Jobs,         \* calls of resolvePublication in progress
    MaxAttempts,  \* attempts of one call to store its catalog: 3 in the code
    MaxRevision   \* bound: publication revisions

ASSUME StorefrontAssumption ==
    MaxAttempts \in Nat \ {0} /\ MaxRevision \in Nat \ {0}

VARIABLES
    publication,  \* the stored PublicationState
    job,          \* job[j]: what a call has read
    completed,    \* events with a completion record
    served        \* ghost: documents that were signed and handed out

storefrontVars == <<publication, job, completed, served>>
publicationVars == <<catalogVars, storefrontVars>>
-----------------------------------------------------------------------------
NoPublication == [revision |-> 0, version |-> 0, fingerprint |-> {}]
NoEvent == Event("none", "none", 0)
Resting == [pc |-> "idle"]

StorefrontInit ==
    /\ publication = NoPublication
    /\ job = [j \in Jobs |-> Resting]
    /\ completed = {}
    /\ served = {}

\* Faulty variant: routes of the list are offered whatever their status.
FaultyCurrentPublishedCatalog(seller, list, matched) ==
    [seller |-> seller, entitlement |-> entitlement,
     products |-> IF Ready(seller)
                  THEN {[route |-> r, terms |-> PublishedContractHash(list[r])] :
                          r \in {q \in matched : list[q] # Nobody}}
                  ELSE {}]

\* currentPublishedCatalog: seller and entitlement as they were read, and the
\* published routes of the list that have an active payment destination
\* (matched, module Settlement), if the seller may sell at all.  list[r] is the
\* version of the route in the list.
CurrentPublishedCatalog(seller, list, matched) ==
    [seller |-> seller, entitlement |-> entitlement,
     products |-> IF Ready(seller)
                  THEN {[route |-> r, terms |-> PublishedContractHash(list[r])] :
                          r \in {q \in matched : list[q] # Nobody /\ Listed(list[q])}}
                  ELSE {}]

\* Faulty variant: the fingerprint names the routes without their versions.
FaultyFingerprint(catalog) ==
    [seller |-> catalog.seller, entitlement |-> catalog.entitlement,
     routes |-> {p.route : p \in catalog.products}]

\* The fingerprint covers the seller, the entitlement and the versions of the
\* routes; the terms themselves are not in it.
Fingerprint(catalog) ==
    [seller |-> catalog.seller, entitlement |-> catalog.entitlement,
     routes |-> {<<p.route, p.terms.version>> : p \in catalog.products}]

\* ListRoutesBySeller: some stored version of each route that exists.
Lists == {list \in [Routes -> UNION {Seen(r) : r \in Routes} \cup {Nobody}] :
            \A r \in Routes : IF routes[r] = <<>> THEN list[r] = Nobody
                              ELSE list[r] \in Seen(r)}

Start(j, seller, event) ==
    /\ job[j] = Resting
    /\ \E list \in Lists, matched \in SUBSET Routes :
          job' = [job EXCEPT ![j] =
                    [pc |-> "load", attempt |-> 1, event |-> event, found |-> 0,
                     catalog |-> CurrentPublishedCatalog(seller, list, matched)]]
    /\ UNCHANGED <<catalogVars, publication, completed, served>>

\* GetManifest, GetProduct, GetLLMSText and the directory: the seller comes
\* from the slug index, which lags.
GetManifest(j) == \E seller \in Range(sellers) : Start(j, seller, NoEvent)

\* RefreshPublishedCatalog after a change: the seller is read consistently.
RefreshPublishedCatalog(j) == SellerExists /\ Start(j, GetSeller, NoEvent)

\* Consumer.Process: an event without completion record is processed, by more
\* than one consumer at a time if it is delivered twice.
Process(j) ==
    /\ SellerExists
    /\ \E event \in outbox \ completed : Start(j, GetSeller, event)

\* The documents that are signed name the revision and the terms.
Return(j, revision) ==
    /\ job' = [job EXCEPT ![j] = Resting]
    /\ served' = served \cup {[revision |-> revision, catalog |-> job[j].catalog]}
    /\ completed' = IF job[j].event = NoEvent THEN completed
                    ELSE completed \cup {job[j].event}

SameFingerprint(j) ==
    publication.version > 0 /\ publication.fingerprint = {Fingerprint(job[j].catalog)}

\* Publications.Get: the stored publication already says the same.
LoadUnchanged(j) ==
    /\ job[j].pc = "load"
    /\ SameFingerprint(j)
    /\ Return(j, publication.revision)
    /\ UNCHANGED <<catalogVars, publication>>

LoadChanged(j) ==
    /\ job[j].pc = "load"
    /\ ~SameFingerprint(j)
    /\ job' = [job EXCEPT ![j].pc = "put", ![j].found = publication.version]
    /\ UNCHANGED <<catalogVars, publication, completed, served>>

\* Revision and version both grow by one with every write.
NextPublication(found, catalog) ==
    [revision |-> found + 1, version |-> found + 1, fingerprint |-> {Fingerprint(catalog)}]

\* The condition of Publications.Put: nothing is stored, or the version that was
\* loaded with a smaller revision.
CanPut(found, next) ==
    /\ publication.version = found
    /\ publication.revision < next.revision

Put(j) ==
    /\ job[j].pc = "put"
    /\ LET next == NextPublication(job[j].found, job[j].catalog)
       IN  /\ next.revision <= MaxRevision
           /\ CanPut(job[j].found, next)
           /\ publication' = next
           /\ Return(j, next.revision)
    /\ UNCHANGED catalogVars

\* The call starts over: it keeps the catalog it has computed and loads again.
NextAttempt(call) == [call EXCEPT !.pc = "load", !.attempt = @ + 1, !.found = 0]

\* A lost race is tried again with the catalog that was computed at the start.
PutConflict(j) ==
    /\ job[j].pc = "put"
    /\ ~CanPut(job[j].found, NextPublication(job[j].found, job[j].catalog))
    /\ job' = [job EXCEPT ![j] = IF @.attempt < MaxAttempts THEN NextAttempt(@)
                                                            ELSE Resting]
    /\ UNCHANGED <<catalogVars, publication, completed, served>>

\* An error or a crash: the event stays without completion record.
FailJob(j) ==
    /\ job[j] # Resting
    /\ job' = [job EXCEPT ![j] = Resting]
    /\ UNCHANGED <<catalogVars, publication, completed, served>>
-----------------------------------------------------------------------------
PublicationInit == CatalogInit /\ StorefrontInit

PublicationNext ==
    \/ CatalogNext /\ UNCHANGED storefrontVars
    \/ \E j \in Jobs :
          \/ GetManifest(j) \/ RefreshPublishedCatalog(j) \/ Process(j)
          \/ LoadUnchanged(j) \/ LoadChanged(j) \/ Put(j) \/ PutConflict(j)
          \/ FailJob(j)

PublicationSpec == PublicationInit /\ [][PublicationNext]_publicationVars
-----------------------------------------------------------------------------
\* A revision names one catalog: two signed documents with the same revision
\* list the same products under the same terms for the same seller, however
\* many servers computed them and from however old reads.
RevisionNamesOneCatalog ==
    \A d, e \in served : d.revision = e.revision => d.catalog = e.catalog

\* The terms in a signed document are terms the route was published with: the
\* version in it never stands for other terms than the seller approved.
ServedTermsWerePublished ==
    \A d \in served : \A p \in d.catalog.products :
        \E a \in approvals : /\ a.route = p.route
                             /\ a.published = p.terms.version
                             /\ a.hash.price = p.terms.price
                             /\ a.hash.name = p.terms.name
=============================================================================

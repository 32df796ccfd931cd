------------------------------- MODULE Listing -------------------------------
(***************************************************************************)
(* Lists that are read page by page: the public product directory          *)
(* (internal/storefront), the audit history (internal/audit), the delivery *)
(* history (internal/notifications) and a seller's transactions under a    *)
(* filter (internal/transactions).  A page ends with a cursor, the key of  *)
(* the last entry that was looked at; entries come, stop matching, and in  *)
(* the directory also go, between the pages.                               *)
(*                                                                         *)
(* Keys are numbered in the order of the scan.  Histories are scanned from *)
(* the newest key; that only turns the numbers around.                     *)
(***************************************************************************)
EXTENDS Naturals, FiniteSets, FiniteSetsExt

CONSTANTS
    LastKey,          \* bound: number of keys
    PageLimit,        \* items on one page
    BatchSize,        \* directoryQueryBatchSize
    MaximumBatches    \* maximumDirectoryBatches: queries for one page

ASSUME ListingAssumption ==
    /\ LastKey \in Nat /\ PageLimit \in Nat \ {0}
    /\ BatchSize \in Nat \ {0} /\ MaximumBatches \in Nat \ {0}

VARIABLES
    kind,      \* which list is read
    entries,   \* keys that are stored
    hidden,    \* entries whose product is not available or does not match
    walk,      \* the reader: its cursor and the page in progress
    shown,     \* shown[k]: how often the reader was shown the entry
    steady     \* ghost: entries that were there, and visible, all along

listingVars == <<kind, entries, hidden, walk, shown, steady>>
-----------------------------------------------------------------------------
Keys == 1..LastKey

\* Lists that leave entries out: the directory, and the transactions of a
\* seller, from the table or from memory, under a filter.
Filtered == {"directory", "transactions", "memory"}

ListingInit ==
    /\ kind \in {"directory", "audit", "deliveries", "transactions", "memory"}
    /\ entries \in SUBSET Keys
    /\ hidden \in IF kind \in Filtered THEN SUBSET entries ELSE {{}}
    /\ walk = [pc |-> "page", after |-> 0, batch |-> 0, count |-> 0]
    /\ shown = [k \in Keys |-> 0]
    /\ steady = entries \ hidden

\* An entry is stored; clocks differ, so its place may be anywhere.
AddEntry(k) ==
    /\ k \notin entries
    /\ entries' = entries \cup {k}
    /\ UNCHANGED <<kind, hidden, walk, shown, steady>>

\* A product changes its availability, a transaction the fields the filter
\* looks at.
HideEntry(k) ==
    /\ kind \in Filtered
    /\ k \in entries \ hidden
    /\ hidden' = hidden \cup {k}
    /\ steady' = steady \ {k}
    /\ UNCHANGED <<kind, entries, walk, shown>>

RevealEntry(k) ==
    /\ k \in hidden
    /\ hidden' = hidden \ {k}
    /\ UNCHANGED <<kind, entries, walk, shown, steady>>

\* The projection of a product is deleted.
RemoveEntry(k) ==
    /\ kind = "directory"
    /\ k \in entries
    /\ entries' = entries \ {k}
    /\ hidden' = hidden \ {k}
    /\ steady' = steady \ {k}
    /\ UNCHANGED <<kind, walk, shown>>
-----------------------------------------------------------------------------
\* The first keys of a scan, at most so many.
Leading(keys, limit) == {k \in keys : Cardinality({j \in keys : j < k}) < limit}

\* A query: the first entries after the cursor.  DynamoDB returns a last
\* evaluated key when it stopped at the limit.
Candidates(after, limit) == Leading({k \in entries : k > after}, limit)
Exhausted(candidates, limit) == Cardinality(candidates) < limit

\* The last key that was looked at, or still the cursor.
CursorAfter(keys) == IF keys = {} THEN walk.after ELSE Max(keys)

Show(keys) == [k \in Keys |-> IF k \in keys THEN shown[k] + 1 ELSE shown[k]]

\* The next page starts after the cursor; without a cursor the walk ends.
EndPage(more, cursor) ==
    walk' = [pc |-> IF more THEN "page" ELSE "end", after |-> cursor, batch |-> 0,
             count |-> 0]

\* ListBySeller of the audit events: one query, one page.
AuditListBySeller ==
    /\ kind = "audit" /\ walk.pc = "page"
    /\ LET page == Candidates(walk.after, PageLimit)
       IN  /\ shown' = Show(page)
           /\ EndPage(~Exhausted(page, PageLimit) /\ page # {}, CursorAfter(page))
    /\ UNCHANGED <<kind, entries, hidden, steady>>

\* ListBySeller of the deliveries: the cursor is an identifier, from which the
\* key is made.
DeliveriesListBySeller ==
    /\ kind = "deliveries" /\ walk.pc = "page"
    /\ LET page == Candidates(walk.after, PageLimit)
       IN  /\ shown' = Show(page)
           /\ EndPage(~Exhausted(page, PageLimit) /\ page # {}, CursorAfter(page))
    /\ UNCHANGED <<kind, entries, hidden, steady>>

Matches(k) == k \notin hidden

\* QueryBySeller over the table: the filter comes after the limit, so a page may
\* be short or empty while the cursor, the last entry read, leads on.
QueryTable ==
    /\ kind = "transactions" /\ walk.pc = "page"
    /\ LET page == Candidates(walk.after, PageLimit)
       IN  /\ shown' = Show({k \in page : Matches(k)})
           /\ EndPage(~Exhausted(page, PageLimit) /\ page # {}, CursorAfter(page))
    /\ UNCHANGED <<kind, entries, hidden, steady>>

\* QueryBySeller over memory: the filter comes first, and a cursor that does
\* not match any more is refused.
QueryMemory ==
    /\ kind = "memory" /\ walk.pc = "page"
    /\ LET matching == {k \in entries : Matches(k)}
           rest == {k \in matching : k > walk.after}
           page == Leading(rest, PageLimit)
       IN  \/ /\ walk.after \in matching \cup {0}
              /\ shown' = Show(page)
              /\ EndPage(Cardinality(page) < Cardinality(rest), CursorAfter(page))
           \/ /\ walk.after \notin matching \cup {0}
              /\ walk' = [walk EXCEPT !.pc = "refused"]
              /\ UNCHANGED shown
    /\ UNCHANGED <<kind, entries, hidden, steady>>

ListSellerFiltered == QueryTable \/ QueryMemory

\* publicDirectoryItem: the projection still stands for a product on sale.
Available(k) == k \notin hidden

\* Faulty variant: a full page has a cursor only if the query was not exhausted.
FaultyFullPageHasMore(candidates, looked) == ~Exhausted(candidates, BatchSize)

\* A full page has a cursor if candidates are left, in the batch or after it.
FullPageHasMore(candidates, looked) ==
    looked # candidates \/ ~Exhausted(candidates, BatchSize)

\* One batch of ListPublicProducts: it looks at candidates until the page is full.
ListPublicProducts ==
    /\ kind = "directory" /\ walk.pc = "page"
    /\ LET candidates == Candidates(walk.after, BatchSize)
           itemsUpTo(k) == {j \in candidates : j <= k /\ Available(j)}
           full == {k \in candidates : walk.count + Cardinality(itemsUpTo(k)) = PageLimit}
           looked == IF full = {} THEN candidates ELSE {j \in candidates : j <= Min(full)}
           items == {k \in looked : Available(k)}
           more == ~Exhausted(candidates, BatchSize)
       IN  /\ shown' = Show(items)
           /\ CASE full # {} -> EndPage(FullPageHasMore(candidates, looked), CursorAfter(looked))
                [] full = {} /\ (~more \/ walk.batch + 1 = MaximumBatches) ->
                      EndPage(more /\ candidates # {}, CursorAfter(looked))
                [] OTHER -> walk' = [walk EXCEPT !.after = CursorAfter(looked), !.batch = @ + 1,
                                        !.count = @ + Cardinality(items)]
    /\ UNCHANGED <<kind, entries, hidden, steady>>
-----------------------------------------------------------------------------
ListingNext ==
    \/ \E k \in Keys : \/ AddEntry(k) \/ RemoveEntry(k)
                      \/ HideEntry(k) \/ RevealEntry(k)
    \/ AuditListBySeller
    \/ DeliveriesListBySeller
    \/ ListPublicProducts
    \/ ListSellerFiltered

ListingSpec == ListingInit /\ [][ListingNext]_listingVars
-----------------------------------------------------------------------------
\* A reader that follows the cursors to the end was shown every entry that was
\* there and visible all along, and no entry twice, whatever came and went
\* between the pages.
PagesMissNothing ==
    /\ \A k \in Keys : shown[k] <= 1
    /\ walk.pc = "end" => \A k \in steady : shown[k] = 1
=============================================================================

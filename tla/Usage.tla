-------------------------------- MODULE Usage --------------------------------
(***************************************************************************)
(* Usage metering (internal/billing/usage_service.go): after a delivery    *)
(* that succeeded, the request that delivered records one unit for the     *)
(* transaction, and ignores a failure to do so.  Invoices are exports of   *)
(* the units whose key lies in a window.                                   *)
(***************************************************************************)
EXTENDS SortKeys, FiniteSets

CONSTANTS
    MeteredTransactions,  \* transactions of one seller
    Recorders,            \* calls of RecordSuccessfulTransaction
    UsagePlans,           \* plan versions a seller may have
    LastSecond,           \* bound: seconds of the time line
    Fractions             \* bound: fractions of a second that occur

ASSUME UsageAssumption == LastSecond \in Nat /\ Fractions \subseteq 0..99

VARIABLES
    fulfilledAt,   \* fulfilledAt[t]: when the delivery was recorded, or Never
    plan,          \* the plan version of the seller
    sources,       \* sources[t]: the event that the claim of t names, or 0
    meter,         \* stored usage meter events
    recorder       \* recorder[c]: the event that a call is about to store

usageVars == <<fulfilledAt, plan, sources, meter, recorder>>
-----------------------------------------------------------------------------
Instants == [second : 0..LastSecond, fraction : Fractions]
Never == [second |-> -1, fraction |-> 0]
NoRecorder == [pc |-> "idle"]

UsageInit ==
    /\ fulfilledAt = [t \in MeteredTransactions |-> Never]
    /\ plan \in UsagePlans
    /\ sources = [t \in MeteredTransactions |-> 0]
    /\ meter = {}
    /\ recorder = [c \in Recorders |-> NoRecorder]

\* The transaction becomes FULFILLED with final payment (module Checkout).
Fulfilled(t, instant) ==
    /\ fulfilledAt[t] = Never
    /\ fulfilledAt' = [fulfilledAt EXCEPT ![t] = instant]
    /\ UNCHANGED <<plan, sources, meter, recorder>>

PlanChanges(p) ==
    /\ plan # p
    /\ plan' = p
    /\ UNCHANGED <<fulfilledAt, sources, meter, recorder>>

\* RecordSuccessfulTransaction up to its write: the transaction must be
\* fulfilled, and the plan is the one of this moment.
PrepareUsage(c, t) ==
    /\ recorder[c] = NoRecorder
    /\ fulfilledAt[t] # Never
    /\ recorder' = [recorder EXCEPT ![c] =
                      [pc |-> "create", source |-> t, plan |-> plan,
                       at |-> fulfilledAt[t]]]
    /\ UNCHANGED <<fulfilledAt, plan, sources, meter>>

\* Faulty variant: the event is stored under its own key without the source claim.
FaultySourceIsNew(t) == TRUE

\* The condition on the source claim.
SourceIsNew(t) == sources[t] = 0

\* CreateIfAbsent: claim and event in one transaction; an existing claim leads
\* to the event that is stored.
CreateUsageIfAbsent(c) ==
    /\ recorder[c].pc = "create"
    /\ LET t == recorder[c].source
           id == Cardinality(meter) + 1
       IN  IF SourceIsNew(t)
           THEN /\ sources' = [sources EXCEPT ![t] = id]
                /\ meter' = meter \cup {[id |-> id, source |-> t, plan |-> recorder[c].plan,
                                         at |-> recorder[c].at]}
           ELSE UNCHANGED <<sources, meter>>
    /\ recorder' = [recorder EXCEPT ![c] = NoRecorder]
    /\ UNCHANGED <<fulfilledAt, plan>>

\* A failed read or write: the proxy ignores the error.
UsageIsLost(c) ==
    /\ recorder[c] # NoRecorder
    /\ recorder' = [recorder EXCEPT ![c] = NoRecorder]
    /\ UNCHANGED <<fulfilledAt, plan, sources, meter>>
-----------------------------------------------------------------------------
(* Invoices *)

WholeSecond(s) == [second |-> s, fraction |-> 0]

\* ListBySellerWindow: the bounds are times without an identifier.
ListBySellerWindow(from, to) ==
    {e \in meter : Between(EventKey(e.at, e.id), Rendered(from), Rendered(to))}

\* Units per plan version.
aggregateInvoiceLineItems(events) ==
    [p \in UsagePlans |-> Cardinality({e \in events : e.plan = p})]

ExportInvoice(from, to) == aggregateInvoiceLineItems(ListBySellerWindow(from, to))
-----------------------------------------------------------------------------
UsageNext ==
    \/ \E t \in MeteredTransactions, i \in Instants : Fulfilled(t, i)
    \/ \E p \in UsagePlans : PlanChanges(p)
    \/ \E c \in Recorders :
          \/ \E t \in MeteredTransactions : PrepareUsage(c, t)
          \/ CreateUsageIfAbsent(c) \/ UsageIsLost(c)

UsageSpec == UsageInit /\ [][UsageNext]_usageVars
-----------------------------------------------------------------------------
\* Invoices over consecutive periods bill a delivery once: split a period at
\* any whole second and the two invoices add up to the one over both, and over
\* all time no transaction is billed twice, although several calls record it
\* and the keys are compared as text.
InvoicesAddUp ==
    LET before == WholeSecond(-1)
        after == WholeSecond(LastSecond + 1)
    IN  /\ \A s \in 0..LastSecond, p \in UsagePlans :
              ExportInvoice(before, WholeSecond(s))[p] + ExportInvoice(WholeSecond(s), after)[p]
                  = ExportInvoice(before, after)[p]
        /\ \A e, f \in ListBySellerWindow(before, after) : e.source = f.source => e = f
=============================================================================

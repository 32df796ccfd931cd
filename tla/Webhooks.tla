------------------------------- MODULE Webhooks -------------------------------
(***************************************************************************)
(* Webhook subscriptions and deliveries (internal/notifications) with the  *)
(* monthly quota of deliveries (internal/operations).                      *)
(*                                                                         *)
(* An event is enqueued for every active subscription: for each one a unit *)
(* of the quota is consumed and a delivery is created, both once for the   *)
(* pair of subscription and event.  A delivery is attempted when it is     *)
(* due.  Workers run side by side, none claims a delivery before it sends, *)
(* and each may be cut off between any two calls.  The dispatcher that     *)
(* calls Enqueue and Attempt is not part of the repository.                *)
(***************************************************************************)
EXTENDS Naturals, FiniteSets

CONSTANTS
    Subscriptions,        \* subscription identifiers of one seller
    WebhookEvents,        \* event identifiers
    Workers,              \* calls of Enqueue, Attempt or Redeliver
    SubscriptionLimit,    \* active subscriptions the plan allows
    DeliveryLimit,        \* deliveries per month the plan allows
    MaximumAttempts,      \* maximumAutomaticDeliveryAttempts: 5 in the code
    RetryDelays,          \* length of automaticRetryDelays: 4 in the code
    MaxRedeliveries,      \* bound: redeliveries
    MaxMonth              \* bound: months

ASSUME WebhooksAssumption ==
    /\ {SubscriptionLimit, DeliveryLimit, MaxRedeliveries} \subseteq Nat
    /\ MaxMonth \in Nat \ {0}
    /\ MaximumAttempts \in Nat \ {0} /\ RetryDelays = MaximumAttempts - 1

VARIABLES
    subscription,   \* subscription[s]: its status, or absent
    delivery,       \* delivery[d]: the stored delivery of the pair d, or NoDelivery
    month,          \* the current UTC month
    quotaClaims,    \* source claims <<month, pair>>
    quotaCount,     \* quotaCount[m]: units consumed in a month
    worker,         \* worker[w]: the call in progress
    accepted,       \* ghost: pairs the endpoint answered with success
    redeliveries    \* number of redeliveries, for the bound

webhookVars == <<subscription, delivery, month, quotaClaims, quotaCount, worker,
                 accepted, redeliveries>>
-----------------------------------------------------------------------------
Deliveries == Subscriptions \X WebhookEvents
NoDelivery == [status |-> "absent"]
Free == [pc |-> "free"]

WebhooksInit ==
    /\ subscription = [s \in Subscriptions |-> "absent"]
    /\ delivery = [d \in Deliveries |-> NoDelivery]
    /\ month = 1
    /\ quotaClaims = {}
    /\ quotaCount = [m \in 1..MaxMonth |-> 0]
    /\ worker = [w \in Workers |-> Free]
    /\ accepted = {}
    /\ redeliveries = 0

ActiveSubscriptions == {s \in Subscriptions : subscription[s] = "active"}
-----------------------------------------------------------------------------
(* Subscriptions *)

\* Create: the active ones are counted, then the new one is stored.
ReadSubscriptions(w, s) ==
    /\ worker[w] = Free
    /\ subscription[s] = "absent"
    /\ Cardinality(ActiveSubscriptions) < SubscriptionLimit
    /\ worker' = [worker EXCEPT ![w] = [pc |-> "subscribe", target |-> s]]
    /\ UNCHANGED <<subscription, delivery, month, quotaClaims, quotaCount, accepted, redeliveries>>

CreateSubscription(w) ==
    /\ worker[w].pc = "subscribe"
    /\ subscription[worker[w].target] = "absent"
    /\ subscription' = [subscription EXCEPT ![worker[w].target] = "active"]
    /\ worker' = [worker EXCEPT ![w] = Free]
    /\ UNCHANGED <<delivery, month, quotaClaims, quotaCount, accepted, redeliveries>>

\* Disable: the version the client names, the one read and the one replaced
\* are the same.
DisableSubscription(s) ==
    /\ subscription[s] = "active"
    /\ subscription' = [subscription EXCEPT ![s] = "disabled"]
    /\ UNCHANGED <<delivery, month, quotaClaims, quotaCount, worker, accepted, redeliveries>>
-----------------------------------------------------------------------------
(* Enqueue *)

BeginEnqueue(w, e) ==
    /\ worker[w] = Free
    /\ ActiveSubscriptions # {}
    /\ worker' = [worker EXCEPT ![w] = [pc |-> "consume", event |-> e,
                                        rest |-> ActiveSubscriptions]]
    /\ UNCHANGED <<subscription, delivery, month, quotaClaims, quotaCount, accepted, redeliveries>>

\* Faulty variant: every call consumes a unit.
FaultyIncrementUnique(source) ==
    /\ quotaCount[month] < DeliveryLimit
    /\ quotaClaims' = quotaClaims \cup {source}
    /\ quotaCount' = [quotaCount EXCEPT ![month] = @ + 1]

\* IncrementUnique: claim and unit in one transaction; a claim that exists is
\* a replay and consumes nothing.
IncrementUnique(source) ==
    \/ /\ source \in quotaClaims
       /\ UNCHANGED <<quotaClaims, quotaCount>>
    \/ /\ source \notin quotaClaims
       /\ quotaCount[month] < DeliveryLimit
       /\ quotaClaims' = quotaClaims \cup {source}
       /\ quotaCount' = [quotaCount EXCEPT ![month] = @ + 1]

\* ConsumeWebhookDelivery for the next subscription of the list.
ConsumeWebhookDelivery(w) ==
    /\ worker[w].pc = "consume"
    /\ \E s \in worker[w].rest :
          /\ IncrementUnique(<<month, <<s, worker[w].event>>>>)
          /\ worker' = [worker EXCEPT ![w] = [pc |-> "create", event |-> @.event,
                                              rest |-> @.rest, next |-> s]]
    /\ UNCHANGED <<subscription, delivery, month, accepted, redeliveries>>

\* The limit is reached: Enqueue ends with an error, later subscriptions get
\* no delivery.
RateLimitExceeded(w) ==
    /\ worker[w].pc = "consume"
    /\ quotaCount[month] >= DeliveryLimit
    /\ \E s \in worker[w].rest : <<month, <<s, worker[w].event>>>> \notin quotaClaims
    /\ worker' = [worker EXCEPT ![w] = Free]
    /\ UNCHANGED <<subscription, delivery, month, quotaClaims, quotaCount, accepted, redeliveries>>

\* CreateIfAbsent: claim and delivery in one transaction, or the stored one.
CreateIfAbsent(w) ==
    /\ worker[w].pc = "create"
    /\ LET d == <<worker[w].next, worker[w].event>>
           rest == worker[w].rest \ {worker[w].next}
       IN  /\ delivery' = IF delivery[d] = NoDelivery
                          THEN [delivery EXCEPT ![d] = [status |-> "pending", due |-> TRUE,
                                                        attempts |-> 0, version |-> 1]]
                          ELSE delivery
           /\ worker' = [worker EXCEPT ![w] = IF rest = {} THEN Free
                                              ELSE [pc |-> "consume", event |-> d[2], rest |-> rest]]
    /\ UNCHANGED <<subscription, month, quotaClaims, quotaCount, accepted, redeliveries>>
-----------------------------------------------------------------------------
(* Attempt *)

Attempted(d) == delivery[d].status \in {"pending", "retry_scheduled"}

\* Delivery.canAttempt
CanAttempt(d) == delivery[d] # NoDelivery /\ Attempted(d) /\ delivery[d].due

\* nextAttemptAt comes.
BecomesDue(d) ==
    /\ delivery[d].status = "retry_scheduled" /\ ~delivery[d].due
    /\ delivery' = [delivery EXCEPT ![d].due = TRUE]
    /\ UNCHANGED <<subscription, month, quotaClaims, quotaCount, worker, accepted, redeliveries>>

BeginAttempt(w, d) ==
    /\ worker[w] = Free
    /\ CanAttempt(d)
    /\ worker' = [worker EXCEPT ![w] = [pc |-> "send", target |-> d, read |-> delivery[d]]]
    /\ UNCHANGED <<subscription, delivery, month, quotaClaims, quotaCount, accepted, redeliveries>>

\* Delivery.RecordSuccess
RecordSuccess(read) ==
    [status |-> "delivered", due |-> FALSE, attempts |-> read.attempts + 1,
     version |-> read.version + 1]

\* Delivery.RecordFailure: a permanent response, a forbidden target or an
\* oversized answer ends the automatic attempts, and so does their number.
RecordFailure(read, permanent) ==
    [status |-> IF permanent \/ read.attempts + 1 >= MaximumAttempts
                THEN "dead_letter" ELSE "retry_scheduled",
     due |-> FALSE, attempts |-> read.attempts + 1, version |-> read.version + 1]

\* Send with what recordDeliveryAttempt makes of it.  After a timeout the
\* endpoint may have accepted the event.
Send(w) ==
    /\ worker[w].pc = "send"
    /\ \E reply \in {"success", "retryable", "permanent", "timeout", "lost_reply"} :
          /\ worker' = [worker EXCEPT ![w] =
                [pc |-> "store", target |-> @.target, read |-> @.read,
                 outcome |-> IF reply = "success" THEN RecordSuccess(@.read)
                             ELSE RecordFailure(@.read, reply = "permanent")]]
          /\ accepted' = IF reply \in {"success", "lost_reply"}
                         THEN accepted \cup {worker[w].target} ELSE accepted
    /\ UNCHANGED <<subscription, delivery, month, quotaClaims, quotaCount, redeliveries>>

\* Faulty variant: the delivery is replaced without regard to its version.
FaultyDeliveryUnchanged(w) == TRUE

DeliveryUnchanged(w) == delivery[worker[w].target].version = worker[w].read.version

\* Update of the repository; a lost race leaves the other worker's record.
UpdateDelivery(w) ==
    /\ worker[w].pc = "store"
    /\ DeliveryUnchanged(w)
    /\ delivery' = [delivery EXCEPT ![worker[w].target] = worker[w].outcome]
    /\ worker' = [worker EXCEPT ![w] = Free]
    /\ UNCHANGED <<subscription, month, quotaClaims, quotaCount, accepted, redeliveries>>

\* Redeliver: read, ScheduleRedelivery; the attempts are not reset.
ReadForRedelivery(w, d) ==
    /\ worker[w] = Free
    /\ redeliveries < MaxRedeliveries
    /\ delivery[d].status = "dead_letter"
    /\ worker' = [worker EXCEPT ![w] =
          [pc |-> "store", target |-> d, read |-> delivery[d],
           outcome |-> [status |-> "pending", due |-> TRUE, attempts |-> delivery[d].attempts,
                        version |-> delivery[d].version + 1]]]
    /\ redeliveries' = redeliveries + 1
    /\ UNCHANGED <<subscription, delivery, month, quotaClaims, quotaCount, accepted>>

\* A failed write, an error or a crash ends the call where it is.
CutOffWorker(w) ==
    /\ worker[w] # Free
    /\ worker' = [worker EXCEPT ![w] = Free]
    /\ UNCHANGED <<subscription, delivery, month, quotaClaims, quotaCount, accepted, redeliveries>>

MonthEnds ==
    /\ month < MaxMonth
    /\ month' = month + 1
    /\ UNCHANGED <<subscription, delivery, quotaClaims, quotaCount, worker, accepted, redeliveries>>
-----------------------------------------------------------------------------
WebhooksNext ==
    \/ MonthEnds
    \/ \E s \in Subscriptions : DisableSubscription(s)
    \/ \E d \in Deliveries : BecomesDue(d)
    \/ \E w \in Workers :
          \/ \E s \in Subscriptions : ReadSubscriptions(w, s)
          \/ \E e \in WebhookEvents : BeginEnqueue(w, e)
          \/ \E d \in Deliveries : BeginAttempt(w, d) \/ ReadForRedelivery(w, d)
          \/ CreateSubscription(w) \/ ConsumeWebhookDelivery(w) \/ RateLimitExceeded(w)
          \/ CreateIfAbsent(w) \/ Send(w) \/ UpdateDelivery(w) \/ CutOffWorker(w)

WebhooksSpec == WebhooksInit /\ [][WebhooksNext]_webhookVars
-----------------------------------------------------------------------------
\* A delivery is billed before it exists and at most once a month: every
\* delivery has its unit, repeated Enqueue calls, cut-offs in between and racing
\* workers consume no second one, and the month never exceeds the plan.
UnitsCoverDeliveries ==
    /\ \A d \in Deliveries : delivery[d] # NoDelivery =>
          \E m \in 1..MaxMonth : <<m, d>> \in quotaClaims
    /\ \A m \in 1..MaxMonth :
          /\ quotaCount[m] = Cardinality({c \in quotaClaims : c[1] = m})
          /\ quotaCount[m] <= DeliveryLimit

\* A success that is recorded was one, and stays recorded: the endpoint has
\* accepted the event, and no late failure of another worker, and no redelivery,
\* reopens it.
DeliveredStaysDelivered ==
    [][\A d \in Deliveries :
         /\ delivery'[d].status = "delivered" => d \in accepted
         /\ delivery[d].status = "delivered" => delivery'[d].status = "delivered"]_webhookVars
=============================================================================

------------------------------- MODULE Gateway -------------------------------
(***************************************************************************)
(* The mutations of the HTTP interface.  Every handler runs the same four  *)
(* steps, each a call of its own: the middleware admits the caller         *)
(* (internal/api), the idempotency record of the request is looked up, the *)
(* service executes, and the answer is stored as the record.  A request    *)
(* may be cut off between any two of them.  What differs from handler to   *)
(* handler is which parts of the request the scope of the record names,    *)
(* which parts its hash covers, and what the service does with a           *)
(* repetition; a definition per handler says so.                           *)
(***************************************************************************)
EXTENDS Naturals, FiniteSets, Functions

CONSTANTS
    Callers,     \* authenticated principals
    Items,       \* what a caller owns: routes, destinations, intents, ...
    Home,        \* the item that stands for the caller's seller itself
    Bodies,      \* request bodies; where a version is expected, the version
    Keys,        \* values of the Idempotency-Key header
    HTTPCalls,       \* requests received
    Served       \* names of the handlers under consideration

ASSUME GatewayAssumption ==
    /\ Home \in Items
    /\ Bodies \subseteq Nat /\ Bodies # {}

VARIABLES
    handler,   \* the handler that all requests of a behaviour go to
    records,   \* the idempotency records
    effects,   \* what the service has written
    call       \* call[c]: a request and how far it is

gatewayVars == <<handler, records, effects, call>>
-----------------------------------------------------------------------------
\* owned: only the owner of the target is served.  atSeller: the target is the
\* caller's seller.  scope, hash: the parts of the request that the scope of the
\* record and the request hash cover.  subject: what the service acts on.
Handled(owned, atSeller, scope, hash, service) ==
    [owned |-> owned, atSeller |-> atSeller, scope |-> scope, hash |-> hash,
     service |-> service, subject |-> {"target"}, oneTime |-> FALSE]

\* internal/catalog
createSeller          == Handled(TRUE, TRUE, {"caller"}, {"body"}, "once")
activateSellerService == Handled(TRUE, TRUE, {"caller"}, {"body"}, "activate")
createRoute           == Handled(TRUE, TRUE, {"caller"}, {"body"}, "create")
updateRouteDraft      == Handled(TRUE, FALSE, {"caller"}, {"body"}, "guarded")
publishRoute          == Handled(TRUE, FALSE, {"caller", "target"}, {"body"}, "guarded")

executeRouteVersionMutation == Handled(TRUE, FALSE, {"caller", "target"}, {"body"}, "guarded")

\* internal/settlement
createDestination == Handled(TRUE, TRUE, {"caller", "target"}, {"body"}, "create")
verifyOwnership   == Handled(TRUE, FALSE, {"caller", "target"}, {"body"}, "guarded")

\* internal/notifications; a delivery may have failed again since it was
\* redelivered, so redeliver is not refused for having been done.
createSubscription  == [Handled(TRUE, TRUE, {"caller", "target"}, {"body"}, "create")
                           EXCEPT !.oneTime = TRUE]
disableSubscription == Handled(TRUE, FALSE, {"caller", "target"}, {"body"}, "guarded")
redeliver           == Handled(TRUE, FALSE, {"caller", "target"}, {}, "create")

\* internal/integrations; rotate keeps records of its own
createCredential == [Handled(TRUE, TRUE, {"caller", "target"}, {"body"}, "create")
                        EXCEPT !.oneTime = TRUE]
revokeCredential == Handled(TRUE, FALSE, {"caller", "target"}, {"body"}, "guarded")

\* internal/disputes; the body names the transaction
createDispute      == Handled(FALSE, FALSE, {"caller"}, {"target", "body"}, "once")
recordManualRefund == Handled(TRUE, FALSE, {"caller", "target"}, {"body"}, "settled")

\* internal/intents; the body names the route
createIntent == Handled(FALSE, FALSE, {"caller"}, {"target", "body"}, "create")
cancelIntent == Handled(TRUE, FALSE, {"caller", "target"}, {}, "settled")

\* internal/approvals; a decision is made by the holder of an invitation
createSession == Handled(FALSE, FALSE, {"caller", "target"}, {"body"}, "create")
decide        == [Handled(FALSE, FALSE, {"caller", "target"}, {"body"}, "once")
                     EXCEPT !.subject = {"caller", "target"}]

Handlers ==
    [createSeller |-> createSeller, activateSellerService |-> activateSellerService,
     createRoute |-> createRoute, updateRouteDraft |-> updateRouteDraft,
     publishRoute |-> publishRoute,
     executeRouteVersionMutation |-> executeRouteVersionMutation,
     createDestination |-> createDestination, verifyOwnership |-> verifyOwnership,
     createSubscription |-> createSubscription,
     disableSubscription |-> disableSubscription, redeliver |-> redeliver,
     createCredential |-> createCredential, revokeCredential |-> revokeCredential,
     createDispute |-> createDispute, recordManualRefund |-> recordManualRefund,
     createIntent |-> createIntent, cancelIntent |-> cancelIntent,
     createSession |-> createSession, decide |-> decide]

ASSUME ServedAssumption == Served \subseteq DOMAIN Handlers
-----------------------------------------------------------------------------
Targets == Callers \X Items
HTTPRequests == [caller : Callers, target : Targets, body : Bodies]
NoCall == [pc |-> "idle"]
Refusal == [refused |-> TRUE]
H == Handlers[handler]
Scope(r) == Restrict(r, H.scope)
Hash(r) == Restrict(r, H.hash)
Made(r) == {e \in effects : Restrict(e.request, H.subject) = Restrict(r, H.subject)}

GatewayInit ==
    /\ handler \in Served
    /\ records = {}
    /\ effects = {}
    /\ call = [c \in HTTPCalls |-> NoCall]

RecordOf(r, key) == {i \in records : i.scope = Scope(r) /\ i.key = key}

\* The middleware: the caller is authenticated, and owns the seller that the path
\* names; the service finds the target only under that seller.
AuthorizeSeller(r) ==
    /\ H.owned => r.target[1] = r.caller
    /\ H.atSeller => r.target[2] = Home

\* A request that the middleware refuses changes nothing.
Middleware(c, r, key) ==
    /\ call[c] = NoCall
    /\ AuthorizeSeller(r)
    /\ call' = [call EXCEPT ![c] = [pc |-> "check", request |-> r, key |-> key,
                                    late |-> RecordOf(r, key) # {}]]
    /\ UNCHANGED <<handler, records, effects>>

AnswerCall(c, result) ==
    call' = [call EXCEPT ![c] = [pc |-> "answered", result |-> result]]
Refuse(c) == AnswerCall(c, Refusal)

\* Faulty variant: a record of another request with the same key is no obstacle.
FaultyCheckIdempotency(c) ==
    /\ call[c].pc = "check"
    /\ LET r == call[c].request
           found == {i \in RecordOf(r, call[c].key) : i.hash = Hash(r)}
       IN  IF found = {} THEN call' = [call EXCEPT ![c].pc = "execute"]
           ELSE \E i \in found : AnswerCall(c, i.result)
    /\ UNCHANGED <<handler, records, effects>>

\* A key that was used with another request is refused; a stored answer is
\* replayed, unless it held a secret.
CheckIdempotency(c) ==
    /\ call[c].pc = "check"
    /\ LET r == call[c].request
           found == RecordOf(r, call[c].key)
       IN  \/ /\ found = {}
              /\ call' = [call EXCEPT ![c].pc = "execute"]
           \/ \E i \in found :
                 IF i.hash # Hash(r) \/ H.oneTime THEN Refuse(c) ELSE AnswerCall(c, i.result)
    /\ UNCHANGED <<handler, records, effects>>

\* Whether the service accepts the request, and whether it writes anything new.
Accepts(r) ==
    CASE H.service = "once" -> Made(r) = {}
      [] H.service \in {"guarded", "activate"} -> r.body = Cardinality(Made(r)) + 1
      [] OTHER -> TRUE
Writes(r) == H.service \in {"settled", "activate"} => Made(r) = {}

\* The call of the service.
Execute(c) ==
    /\ call[c].pc = "execute"
    /\ LET r == call[c].request
           effect == [request |-> r, by |-> c]
       IN  \/ /\ ~Accepts(r)
              /\ Refuse(c)
              /\ UNCHANGED effects
           \/ /\ Accepts(r)
              /\ effects' = IF Writes(r) THEN effects \cup {effect} ELSE effects
              /\ \E e \in IF Writes(r) THEN {effect} ELSE Made(r) :
                    call' = [call EXCEPT ![c] = [pc |-> "save", request |-> r, key |-> @.key,
                                                 late |-> @.late, result |-> e.request]]
    /\ UNCHANGED <<handler, records>>

\* What the record keeps of an answer: nothing that holds a secret.
credentialIdempotencyResult(result) == IF H.oneTime THEN Refusal ELSE result

\* SaveIfAbsent: the first answer stays.  The request that finds another one
\* there gives its own answer all the same.
SaveIdempotency(c) ==
    /\ call[c].pc = "save"
    /\ LET r == call[c].request
       IN  /\ records' = IF RecordOf(r, call[c].key) # {} THEN records
                         ELSE records \cup {[scope |-> Scope(r), key |-> call[c].key,
                                             hash |-> Hash(r),
                                             result |-> credentialIdempotencyResult(call[c].result)]}
           /\ AnswerCall(c, call[c].result)
    /\ UNCHANGED <<handler, effects>>

\* The server dies, or a call of the store fails.
CutOff(c) ==
    /\ call[c].pc \in {"check", "execute", "save"}
    /\ Refuse(c)
    /\ UNCHANGED <<handler, records, effects>>

GatewayNext ==
    \E c \in HTTPCalls :
        \/ \E r \in HTTPRequests, key \in Keys : Middleware(c, r, key)
        \/ CheckIdempotency(c) \/ Execute(c) \/ SaveIdempotency(c) \/ CutOff(c)

GatewaySpec == GatewayInit /\ [][GatewayNext]_gatewayVars
-----------------------------------------------------------------------------
\* Once a request was answered and recorded, its key makes nothing more happen in
\* its scope: a later request with the same key, of whatever body, writes nothing
\* and is told what the record says or is refused, whatever is in progress beside
\* it.  (Two requests that are both under way when neither is recorded may both
\* write.)
UsedKeyWritesNothing ==
    [][\A c \in HTTPCalls :
         call[c].pc \in {"check", "execute", "save"} /\ call[c].late /\ call'[c] # call[c] =>
            /\ effects' = effects
            /\ call'[c].pc = "answered" =>
                 call'[c].result \in {Refusal} \cup
                     {i.result : i \in RecordOf(call[c].request, call[c].key)}]_gatewayVars
=============================================================================

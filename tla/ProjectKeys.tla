---------------------------- MODULE ProjectKeys ----------------------------
(***************************************************************************)
(* The project keys of a seller and the access tokens exchanged for them.  *)
(* A key and a token carry the entitlement epoch they were issued in; the  *)
(* epoch of the entitlement moves when its status changes, which is how    *)
(* every key and token of an earlier subscription stops working at once.   *)
(*                                                                         *)
(* A session is one request of the seller, its connector or an agent:      *)
(* Create, Rotate, Revoke, the exchange of a key for a token or the use of *)
(* a token.  It is split at its store calls, between which the key may be  *)
(* rotated and the entitlement may change (module Entitlement).            *)
(***************************************************************************)
EXTENDS Entitlement, FiniteSets

CONSTANTS
    KeyIds,            \* credential ids
    Sessions,        \* concurrent requests
    IdempotencyKeys, \* idempotency keys clients send with Rotate
    MaxCreated,      \* bound on the keys that are created, not rotated
    MaxKeyVersion    \* bound on a key's version

VARIABLES
    keys,       \* the stored credentials
    rotations,  \* the stored RotationReplay records
    told,       \* the successors named to callers of Rotate
    tokens,     \* the access tokens issued so far
    session     \* the requests: control point and local copies

keyVars == <<keys, rotations, told, tokens, session>>
accessVars    == <<entitlementVars, keyVars>>

NoKey == [epoch |-> 0, revoked |-> FALSE, replacedBy |-> NoValue, version |-> 0, revision |-> 0]

\* The digest, the scopes and the expiry of a key are left out, and so is the
\* expiry of a token: they only refuse more.  revision is a ghost, the version
\* of the entitlement the epoch was read from.
KeyRecords ==
    [ epoch : Nat, revoked : BOOLEAN, replacedBy : KeyIds \cup {NoValue}, version : Nat,
      revision : Nat ]

Tokens    == [key : KeyIds, epoch : Nat]
Rotations == [key : KeyIds, idem : IdempotencyKeys, successor : KeyIds]

SessionRecords ==
    [ pc : {"idle", "issue", "create", "replay", "predecessor", "rotate", "reload",
            "authenticate", "revoke", "entitlement", "consume", "markUsed",
            "checkKey", "checkEntitlement"},
      op : {"create", "rotate", "revoke", "exchange", "use", "none"},
      key : KeyIds \cup {NoValue}, idem : IdempotencyKeys \cup {NoValue}, expected : Nat,
      copy : KeyRecords, epoch : Nat, revision : Nat, withdrawn : BOOLEAN,
      answer : {"none", "rotation_required", "authorized"} ]

IdleSession ==
    [ pc |-> "idle", op |-> "none", key |-> NoValue, idem |-> NoValue, expected |-> 0,
      copy |-> NoKey, epoch |-> 0, revision |-> 0,
      withdrawn |-> FALSE, answer |-> "none" ]

AccessInit ==
    /\ EntitlementInit
    /\ keys      = [k \in KeyIds |-> NoKey]
    /\ rotations = {}
    /\ told      = {}
    /\ tokens    = {}
    /\ session   = [s \in Sessions |-> IdleSession]

-----------------------------------------------------------------------------
\* Requests begin and end

\* The answers the properties are about are kept until the next request.
Authorized(s) ==
    session' = [session EXCEPT ![s] =
      [IdleSession EXCEPT !.answer = "authorized", !.withdrawn = session[s].withdrawn]]

RotationRequired(s) ==
    session' = [session EXCEPT ![s] =
      [IdleSession EXCEPT !.answer = "rotation_required", !.key = session[s].key]]

\* Any other end: a refusal, an error, or the result of Create or Revoke.
End(s) == session' = [session EXCEPT ![s] = IdleSession]

GoesOn(s, pc) == session' = [session EXCEPT ![s].pc = pc]

\* The authority of a key has been withdrawn: it was revoked, or the
\* subscription was interrupted since the key was issued.
Withdrawn(k) ==
    \/ keys[k].revoked
    \/ \E r \in keys[k].revision .. Len(history) : history[r].status # "active"

\* A key, or a token made from it, is presented.  withdrawn is a ghost.
Present(s, op, pc, k, epoch) ==
    /\ session[s].pc = "idle"
    /\ keys[k] # NoKey
    /\ session' = [session EXCEPT ![s] =
         [ IdleSession EXCEPT !.pc = pc, !.op = op, !.key = k, !.epoch = epoch,
             !.withdrawn = Withdrawn(k) ]]
    /\ UNCHANGED <<entitlementVars, keys, rotations, told, tokens>>

\* The seller replaces or revokes a key, at the version it last saw.
Change(s, op, pc, k, idem) ==
    /\ session[s].pc = "idle"
    /\ keys[k] # NoKey
    /\ session' = [session EXCEPT ![s] =
         [ IdleSession EXCEPT !.pc = pc, !.op = op, !.key = k, !.idem = idem,
             !.expected = keys[k].version ]]
    /\ UNCHANGED <<entitlementVars, keys, rotations, told, tokens>>

Created == {k \in KeyIds : keys[k] # NoKey /\ \A r \in rotations : r.successor # k}

BeginCreate(s) ==
    /\ session[s].pc = "idle"
    /\ Cardinality(Created) < MaxCreated
    /\ session' = [session EXCEPT ![s] = [IdleSession EXCEPT !.pc = "issue", !.op = "create"]]
    /\ UNCHANGED <<entitlementVars, keys, rotations, told, tokens>>

\* The request dies: its client, or the process that served it.
Abandon(s) ==
    /\ session[s].pc # "idle"
    /\ End(s)
    /\ UNCHANGED <<entitlementVars, keys, rotations, told, tokens>>

-----------------------------------------------------------------------------
\* Create and Rotate

\* credentialIssuanceEpoch: only an active seller is issued a key.
ReadIssuanceEpoch(s) ==
    /\ session[s].pc = "issue"
    /\ \/ /\ AllowsAccess(entitlement, now)
          /\ session' = [session EXCEPT ![s] =
               [@ EXCEPT !.pc = IF session[s].op = "create" THEN "create" ELSE "rotate",
                         !.epoch = entitlement.epoch, !.revision = entitlement.version]]
       \/ ~AllowsAccess(entitlement, now) /\ End(s)
    /\ UNCHANGED <<entitlementVars, keys, rotations, told, tokens>>

Issued(s) == [ epoch |-> session[s].epoch, revoked |-> FALSE, replacedBy |-> NoValue,
               version |-> 1, revision |-> session[s].revision ]

\* The id of the new key is a fresh one.
CreateKey(s, k) ==
    /\ session[s].pc = "create"
    /\ keys[k] = NoKey /\ Cardinality(Created) < MaxCreated
    /\ keys' = [keys EXCEPT ![k] = Issued(s)]
    /\ End(s)
    /\ UNCHANGED <<entitlementVars, rotations, told, tokens>>

\* The caller learns the successor of its key: with the token from Rotate or
\* replayCredentialRotation, by name only from a RotationRecoveryError.
NameSuccessor(s, successor) ==
    /\ told' = told \cup {[key |-> session[s].key, successor |-> successor]}
    /\ End(s)

FindRotation(s) ==
    { r \in rotations : r.key = session[s].key /\ r.idem = session[s].idem }

\* A rotation is first looked up under its idempotency key.
LoadRotationReplay(s) ==
    /\ session[s].pc = "replay"
    /\ \/ /\ FindRotation(s) = {}
          /\ GoesOn(s, "predecessor")
          /\ UNCHANGED told
       \/ \E r \in FindRotation(s) : NameSuccessor(s, r.successor)
    /\ UNCHANGED <<entitlementVars, keys, rotations, tokens>>

\* The predecessor was replaced, not merely revoked.
HasSuccessor(k) == k.replacedBy # NoValue

ReadPredecessor(s) ==
    LET k == keys[session[s].key] IN
    /\ session[s].pc = "predecessor"
    /\ \/ /\ k.version = session[s].expected /\ ~k.revoked
          /\ GoesOn(s, "issue")
          /\ UNCHANGED told
       \/ /\ k.version = session[s].expected /\ k.revoked /\ HasSuccessor(k)
          /\ NameSuccessor(s, k.replacedBy)
       \/ /\ k.version # session[s].expected \/ (k.revoked /\ ~HasSuccessor(k))
          /\ End(s)
          /\ UNCHANGED told
    /\ UNCHANGED <<entitlementVars, keys, rotations, tokens>>

FaultyRotationConditions(s) == FindRotation(s) = {}

\* The conditions of the rotation's transaction.
RotationConditions(s) ==
    /\ keys[session[s].key].version = session[s].expected
    /\ FindRotation(s) = {}

\* Rotate: the predecessor is revoked, the successor and the replay record
\* are created.  When the reply is lost the client's retry finds a conflict.
RotateKey(s, successor) ==
    LET old    == session[s].key
        record == [key |-> old, idem |-> session[s].idem, successor |-> successor]
    IN
    /\ session[s].pc = "rotate"
    /\ RotationConditions(s)
    /\ keys[successor] = NoKey
    /\ keys' = [keys EXCEPT
         ![old] = [@ EXCEPT !.revoked = TRUE, !.replacedBy = successor,
                            !.version = session[s].expected + 1],
         ![successor] = Issued(s)]
    /\ rotations' = rotations \cup {record}
    /\ \/ NameSuccessor(s, successor)
       \/ UNCHANGED told /\ GoesOn(s, "reload")
    /\ UNCHANGED <<entitlementVars, tokens>>

RotationConflicts(s) ==
    /\ session[s].pc = "rotate"
    /\ ~RotationConditions(s)
    /\ GoesOn(s, "reload")
    /\ UNCHANGED <<entitlementVars, keys, rotations, told, tokens>>

ReloadRotation(s) ==
    /\ session[s].pc = "reload"
    /\ \/ FindRotation(s) = {} /\ End(s) /\ UNCHANGED told
       \/ \E r \in FindRotation(s) : NameSuccessor(s, r.successor)
    /\ UNCHANGED <<entitlementVars, keys, rotations, tokens>>

-----------------------------------------------------------------------------
\* Reads of a key, Revoke and AuthorizeExchange

\* authenticateCredential, and the read of Revoke.
ReadKey(s) ==
    LET k == keys[session[s].key] IN
    /\ session[s].pc = "authenticate"
    /\ \/ k.revoked /\ End(s)
       \/ /\ ~k.revoked
          /\ session' = [session EXCEPT ![s] =
               [@ EXCEPT !.pc = IF session[s].op = "revoke" THEN "revoke" ELSE "entitlement", !.copy = k]]
    /\ UNCHANGED <<entitlementVars, keys, rotations, told, tokens>>

\* Update: conditional on the version the client, or the exchange, has seen.
KeyUnchanged(s) ==
    keys[session[s].key].version =
      (IF session[s].op = "revoke" THEN session[s].expected ELSE session[s].copy.version)

RevokeKey(s) ==
    LET k == session[s].key IN
    /\ session[s].pc = "revoke"
    /\ \/ /\ KeyUnchanged(s)
          /\ session[s].copy.version < MaxKeyVersion
          /\ keys' = [keys EXCEPT ![k] =
               [session[s].copy EXCEPT !.revoked = TRUE, !.version = @ + 1]]
          /\ End(s)
       \/ ~KeyUnchanged(s) /\ End(s) /\ UNCHANGED keys
    /\ UNCHANGED <<entitlementVars, rotations, told, tokens>>

\* authorizeCurrentEntitlement
AuthorizeCurrentEntitlement(s) ==
    /\ session[s].pc = "entitlement"
    /\ \/ /\ AllowsAccess(entitlement, now)
          /\ entitlement.epoch = session[s].copy.epoch
          /\ GoesOn(s, "consume")
       \/ /\ ~AllowsAccess(entitlement, now) \/ entitlement.epoch # session[s].copy.epoch
          /\ End(s)
    /\ UNCHANGED <<entitlementVars, keys, rotations, told, tokens>>

\* ConsumeAPIRequest: activePlan, then the month's counter, which may be full.
ConsumeAPIRequest(s) ==
    /\ session[s].pc = "consume"
    /\ \/ /\ AllowsAccess(entitlement, now) /\ ~entitlement.rotationRequired
          /\ GoesOn(s, "markUsed") \/ End(s)
       \/ ~AllowsAccess(entitlement, now) /\ End(s)
       \/ /\ AllowsAccess(entitlement, now) /\ entitlement.rotationRequired
          /\ RotationRequired(s)
    /\ UNCHANGED <<entitlementVars, keys, rotations, told, tokens>>

\* MarkUsed and Update; the exchange then checks the key again.
MarkKeyUsed(s) ==
    LET k == session[s].key IN
    /\ session[s].pc = "markUsed"
    /\ \/ /\ KeyUnchanged(s)
          /\ session[s].copy.version < MaxKeyVersion
          /\ keys' = [keys EXCEPT ![k] = [session[s].copy EXCEPT !.version = @ + 1]]
          /\ session' = [session EXCEPT ![s] =
               [@ EXCEPT !.pc = "checkKey", !.epoch = session[s].copy.epoch, !.copy = NoKey]]
       \/ ~KeyUnchanged(s) /\ End(s) /\ UNCHANGED keys
    /\ UNCHANGED <<entitlementVars, rotations, told, tokens>>

-----------------------------------------------------------------------------
\* authorizeCurrentCapabilityState, of Exchange and of AuthorizeAccessToken

\* The stored key still carries the epoch of the token.
KeyStillValid(s) ==
    ~keys[session[s].key].revoked /\ keys[session[s].key].epoch = session[s].epoch

CheckKey(s) ==
    /\ session[s].pc = "checkKey"
    /\ IF KeyStillValid(s) THEN GoesOn(s, "checkEntitlement") ELSE End(s)
    /\ UNCHANGED <<entitlementVars, keys, rotations, told, tokens>>

CheckEntitlement(s) ==
    LET token == [key |-> session[s].key, epoch |-> session[s].epoch] IN
    /\ session[s].pc = "checkEntitlement"
    /\ IF AllowsAccess(entitlement, now) /\ entitlement.epoch = session[s].epoch
         THEN /\ Authorized(s)
              /\ tokens' = tokens \cup {token}
         ELSE End(s) /\ UNCHANGED tokens
    /\ UNCHANGED <<entitlementVars, keys, rotations, told>>

-----------------------------------------------------------------------------
\* Bound: a successor is not rotated again.
Rotatable == Created

BeginRequest(s) ==
    \/ BeginCreate(s)
    \/ \E k \in KeyIds : \/ Present(s, "exchange", "authenticate", k, 0)
                       \/ Change(s, "revoke", "authenticate", k, NoValue)
    \/ \E k \in Rotatable, i \in IdempotencyKeys : Change(s, "rotate", "replay", k, i)
    \/ \E t \in tokens : Present(s, "use", "checkKey", t.key, t.epoch)

KeyNext ==
    \E s \in Sessions :
      \/ BeginRequest(s) \/ Abandon(s) \/ ReadIssuanceEpoch(s)
      \/ \E k \in KeyIds : CreateKey(s, k) \/ RotateKey(s, k)
      \/ LoadRotationReplay(s) \/ ReadPredecessor(s) \/ RotationConflicts(s)
      \/ ReloadRotation(s)
      \/ ReadKey(s) \/ RevokeKey(s) \/ AuthorizeCurrentEntitlement(s)
      \/ ConsumeAPIRequest(s) \/ MarkKeyUsed(s) \/ CheckKey(s) \/ CheckEntitlement(s)

AccessNext == KeyNext \/ (EntitlementNext /\ UNCHANGED keyVars)

AccessSpec == AccessInit /\ [][AccessNext]_accessVars

-----------------------------------------------------------------------------
\* Every variable has its type.
KeysTypeOK ==
    /\ EntitlementTypeOK
    /\ keys \in [KeyIds -> KeyRecords]
    /\ rotations \subseteq Rotations
    /\ told \subseteq [key : KeyIds, successor : KeyIds]
    /\ tokens \subseteq Tokens
    /\ session \in [Sessions -> SessionRecords]

\* No authority outlives its withdrawal.  A key is exchanged, or one of its
\* tokens accepted, only if when the request arrived the key was not revoked
\* and the subscription had never been interrupted since the key was issued,
\* however often it was reactivated.
WithdrawnAuthorityIsRefused ==
    \A s \in Sessions : session[s].answer = "authorized" => ~session[s].withdrawn

\* A key has one successor.  Concurrent rotations, and retries of one whose
\* reply was lost, never fork a key, and all callers are named the same
\* successor.
RotationsNeverFork ==
    \A r1, r2 \in rotations \cup told : r1.key = r2.key => r1.successor = r2.successor

\* What SUBSCRIPTION_LIFECYCLE.md promises: a key made by rotation in the
\* current epoch satisfies the rotation requirement.
SuccessorIsEligible ==
    \A s \in Sessions :
      /\ session[s].answer = "rotation_required"
      /\ keys[session[s].key].epoch = entitlement.epoch
      => ~\E r \in rotations : r.successor = session[s].key

=============================================================================

--------------------------- MODULE EvidenceChain ---------------------------
(***************************************************************************)
(* The evidence chain of one transaction: concurrent calls of Recorder     *)
(* over the S3 bucket the deployed service uses, over the DynamoDB table   *)
(* it used before, or over process memory.                                 *)
(*                                                                         *)
(* A call lists the chain, builds and signs the event that follows the     *)
(* last one it saw, and stores it under the next sequence number.  Nothing *)
(* locks the chain between the two calls, the servers' clocks differ by up *)
(* to MaxSkew, and an event may be stored although its call is told        *)
(* otherwise.  A digest is injective: it stands for what it digests.       *)
(* Event identifiers are always fresh and are left out.                    *)
(***************************************************************************)
EXTENDS Naturals, Sequences

CONSTANTS
    Appends,     \* calls of the recorder that may run at the same time
    OnceTypes,   \* event types recorded with appendOnce
    OtherTypes,  \* event types recorded with append
    Facts,       \* the payloads an event may carry
    MaxEvents,   \* bound on the length of the chain
    MaxSkew,     \* how far behind the fastest clock a server may be
    MaxEvidenceClock \* bound on that clock

ASSUME EvidenceChainAssumption ==
    /\ OnceTypes \cap OtherTypes = {}
    /\ MaxEvents \in Nat /\ MaxSkew \in Nat /\ MaxEvidenceClock \in Nat

\* A backend with no conditional write to share between processes ("memory")
\* serves a single process; the others serve many.
Backends == {"s3", "dynamodb", "memory"}

VARIABLES
    backend,      \* the repository this deployment is wired to
    objects,      \* the stored chain, by sequence number
    evidenceClock,        \* the fastest server clock
    appends,      \* the recorder calls: what they do next and what they hold
    acknowledged  \* the events whose call returned without an error

evidenceVars == <<backend, objects, evidenceClock, appends, acknowledged>>

NoDigest == << >>
AtRest   == [pc |-> "rest"]

EvidenceInit ==
    /\ backend \in Backends
    /\ objects = << >>
    /\ evidenceClock = 0
    /\ appends = [a \in Appends |-> AtRest]
    /\ acknowledged = {}

-----------------------------------------------------------------------------
\* Hashing, signing and verification

\* The digest covers every field but itself and the signature.
calculateHash(e) == <<e.type, e.facts, e.sequence, e.at, e.previous>>

\* newUnsignedEvent: linked to the last event the caller saw.
newUnsignedEvent(events, type, facts, at) ==
    [ type     |-> type,
      facts    |-> facts,
      sequence |-> Len(events) + 1,
      at       |-> at,
      previous |-> IF events = << >> THEN NoDigest
                   ELSE events[Len(events)].hash ]

\* Faulty variant: the clock of the previous event is not looked at.
FaultyValidateEventParams(events, e) == e.sequence = Len(events) + 1

\* A new event must be the next one, and not older than the one before.
validateEventParams(events, e) ==
    /\ e.sequence = Len(events) + 1
    /\ events # << >> => e.at >= events[Len(events)].at

Signed(e) ==
    [ type |-> e.type, facts |-> e.facts, sequence |-> e.sequence, at |-> e.at,
      previous |-> e.previous, hash |-> calculateHash(e),
      signature |-> calculateHash(e) ]

\* One event of a stored chain: position, link and chronology.
validateStoredEvent(events, n) ==
    /\ events[n].sequence = n
    /\ IF n = 1 THEN events[n].previous = NoDigest
       ELSE /\ events[n].previous = events[n - 1].hash
            /\ events[n].at >= events[n - 1].at

\* LocalHMACSigner.Verify and EvidenceSigner.Verify: the one configured key
\* signed exactly this digest.
Verifies(digest, signature) == signature = digest

\* An empty chain is invalid: a receipt reads its first and its last event.
VerifyChain(events) ==
    /\ events # << >>
    /\ \A n \in DOMAIN events :
         /\ validateStoredEvent(events, n)
         /\ calculateHash(events[n]) = events[n].hash
         /\ Verifies(calculateHash(events[n]), events[n].signature)

-----------------------------------------------------------------------------
\* The repositories

\* The DynamoDB query is not a consistent read: it may miss the latest events.
DynamoDBListing == {SubSeq(objects, 1, n) : n \in 0 .. Len(objects)}

\* S3 lists, and memory copies, every stored event.
FullListing == {objects}

ListByTransaction ==
    IF backend = "dynamodb" THEN DynamoDBListing ELSE FullListing

\* S3: the object key of the sequence number must be free (IfNoneMatch).
S3Append(e) == e.sequence \notin DOMAIN objects

\* DynamoDB: the item must be new, and its predecessor have the hash the
\* event is linked to (one TransactWriteItems).
DynamoDBAppend(e) ==
    /\ e.sequence \notin DOMAIN objects
    /\ e.sequence > 1 =>
         /\ e.sequence - 1 \in DOMAIN objects
         /\ objects[e.sequence - 1].hash = e.previous

\* Memory: the next event of the chain, linked to its last.
MemoryAppend(e) ==
    /\ e.sequence = Len(objects) + 1
    /\ e.previous = IF objects = << >> THEN NoDigest
                    ELSE objects[Len(objects)].hash

\* Faulty variant: an event written twice replaces the one that was there.
FaultyMayStore(e) == e.sequence \in 1 .. Len(objects) + 1

MayStore(e) ==
    CASE backend = "s3"       -> S3Append(e)
      [] backend = "dynamodb" -> DynamoDBAppend(e)
      [] backend = "memory"   -> MemoryAppend(e)

Store(e) ==
    objects' = [n \in DOMAIN objects \cup {e.sequence} |->
                  IF n = e.sequence THEN e ELSE objects[n]]

-----------------------------------------------------------------------------
\* Recorder

Become(a, state) == appends' = [appends EXCEPT ![a] = state]

\* RecordPaymentChallenge, RecordPaymentVerification, RecordProxyForwarding
\* and RecordDelivery.
Record(a, type, facts) ==
    /\ appends[a].pc = "rest"
    /\ Become(a, [pc |-> "list", type |-> type, facts |-> facts])
    /\ UNCHANGED <<backend, objects, evidenceClock, acknowledged>>

RecordedBefore(events, type) ==
    {events[n] : n \in {m \in DOMAIN events : events[m].type = type}}

\* appendOnce: an event of the type is there already.  The call succeeds if
\* it says the same, and fails otherwise (ErrEvidenceConflict).
FoundBefore(a, events) ==
    /\ Become(a, AtRest)
    /\ acknowledged' =
         acknowledged \cup
            {e \in RecordedBefore(events, appends[a].type) :
                e.facts = appends[a].facts}

\* appendToChain: build the next event by the server's own clock, or fail.
BuildNext(a, events, at) ==
    LET e == newUnsignedEvent(events, appends[a].type, appends[a].facts, at) IN
    /\ Become(a, IF validateEventParams(events, e)
                   THEN [pc |-> "store", event |-> Signed(e)] ELSE AtRest)
    /\ UNCHANGED acknowledged

List(a) ==
    /\ appends[a].pc = "list"
    /\ \E events \in ListByTransaction :
         IF /\ appends[a].type \in OnceTypes
            /\ RecordedBefore(events, appends[a].type) # {}
           THEN FoundBefore(a, events)
           ELSE \E behind \in 0 .. MaxSkew :
                  behind <= evidenceClock /\ BuildNext(a, events, evidenceClock - behind)
    /\ UNCHANGED <<backend, objects, evidenceClock>>

\* The conditional write.  Its answer may be lost, and a client that repeats
\* it then meets its own event and reports a failure.
Put(a) ==
    LET e == appends[a].event IN
    /\ appends[a].pc = "store"
    /\ e.sequence <= MaxEvents
    /\ IF MayStore(e)
         THEN /\ Store(e)
              /\ acknowledged' \in {acknowledged, acknowledged \cup {e}}
         ELSE UNCHANGED <<objects, acknowledged>>
    /\ Become(a, AtRest)
    /\ UNCHANGED <<backend, evidenceClock>>

\* The call fails: the listing, the signer or the write.
Fail(a) ==
    /\ appends[a].pc # "rest"
    /\ Become(a, AtRest)
    /\ UNCHANGED <<backend, objects, evidenceClock, acknowledged>>

ClockTick ==
    /\ evidenceClock < MaxEvidenceClock
    /\ evidenceClock' = evidenceClock + 1
    /\ UNCHANGED <<backend, objects, appends, acknowledged>>

RecordSome(a) ==
    \E type \in OnceTypes \cup OtherTypes, facts \in Facts : Record(a, type, facts)

EvidenceNext ==
    \/ \E a \in Appends : RecordSome(a) \/ List(a) \/ Put(a) \/ Fail(a)
    \/ ClockTick

EvidenceSpec == EvidenceInit /\ [][EvidenceNext]_evidenceVars

-----------------------------------------------------------------------------
\* Properties

\* Evidence is worth having: whatever the recorders of several servers do, and
\* whichever backend they use, every non-empty listing of the chain passes
\* VerifyChain, so no honest race makes a receipt "evidence invalid".
ChainAlwaysVerifies ==
    \A events \in ListByTransaction : events # << >> => VerifyChain(events)

\* What a caller was told is on record stays on record, in its place, and the
\* facts recorded with appendOnce are recorded once however many servers
\* record them at the same time.
AcknowledgedEvidenceIsKept ==
    /\ \A e \in acknowledged :
         e.sequence \in DOMAIN objects /\ objects[e.sequence] = e
    /\ \A m, n \in DOMAIN objects :
         /\ objects[m].type \in OnceTypes
         /\ objects[m].type = objects[n].type
         => m = n
=============================================================================

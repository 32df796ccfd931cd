------------------------ MODULE EvidenceChainProofs -------------------------
(***************************************************************************)
(* The safety of the evidence chain of one transaction, for any number of  *)
(* concurrent appends and any clock.                                       *)
(*                                                                         *)
(* An append reads a prefix of the chain and computes an event that        *)
(* follows it.  The conditional write stores the event only if its         *)
(* sequence number is free; since the event follows a prefix that is still *)
(* there, a free number is the next one, and the chain only grows.         *)
(***************************************************************************)
EXTENDS EvidenceChain, SequenceTheorems, TLAPS

\* An event as newUnsignedEvent and Signed make it.
EventOK(e) ==
    /\ e.sequence \in Nat /\ e.sequence >= 1 /\ e.at \in Nat
    /\ e.hash = calculateHash(e) /\ e.signature = e.hash

\* The event e, in its place, follows the chain that is stored before it, and
\* says nothing that was to be said once and is in that chain.
Follows(e) ==
    /\ e.sequence - 1 <= Len(objects)
    /\ e.sequence = 1 => e.previous = NoDigest
    /\ e.sequence > 1 =>
         /\ e.previous = objects[e.sequence - 1].hash
         /\ e.at >= objects[e.sequence - 1].at
    /\ e.type \in OnceTypes =>
         \A n \in 1 .. e.sequence - 1 : objects[n].type # e.type

\* The stored chain, event by event.
ChainOK ==
    \A n \in 1 .. Len(objects) :
        objects[n].sequence = n /\ EventOK(objects[n]) /\ Follows(objects[n])

\* An event about to be stored follows the chain as it was read.
AppendOK(a) ==
    appends[a].pc = "store" => EventOK(appends[a].event) /\ Follows(appends[a].event)

\* What was acknowledged is stored in its place.
AcknowledgedOK ==
    \A e \in acknowledged : e.sequence \in 1 .. Len(objects) /\ objects[e.sequence] = e

\* The inductive invariant of EvidenceChain.
EvidenceInv ==
    /\ \E S : objects \in Seq(S)
    /\ backend \in Backends
    /\ evidenceClock \in Nat
    /\ DOMAIN appends = Appends
    /\ appends = [a \in Appends |-> appends[a]]
    /\ ChainOK
    /\ \A a \in Appends : AppendOK(a)
    /\ AcknowledgedOK

\* The empty chain.
LEMMA EvidenceInitOK == EvidenceInit => EvidenceInv
<1> SUFFICES ASSUME EvidenceInit PROVE EvidenceInv
  OBVIOUS
<1>1. objects \in Seq({}) /\ Len(objects) = 0
  BY DEF EvidenceInit
<1>2. \A a \in Appends : appends[a].pc = "rest"
  BY DEF EvidenceInit, AtRest
<1>3. ChainOK /\ AcknowledgedOK
  BY <1>1 DEF EvidenceInit, ChainOK, AcknowledgedOK
<1> QED
  BY <1>1, <1>2, <1>3 DEF EvidenceInit, EvidenceInv, AppendOK

\* What a listing returns is the beginning of the stored chain.
LEMMA ListingIsPrefix ==
    ASSUME NEW S, objects \in Seq(S), NEW events \in ListByTransaction
    PROVE  /\ events \in Seq(S) /\ Len(events) <= Len(objects)
           /\ \A n \in 1 .. Len(events) : events[n] = objects[n]
           /\ events = << >> <=> Len(events) = 0
<1>1. Len(objects) \in Nat
  OBVIOUS
<1>2. CASE events = objects
  BY <1>1, <1>2, EmptySeq
<1>3. ASSUME NEW k \in 0 .. Len(objects), events = SubSeq(objects, 1, k)
      PROVE  /\ events \in Seq(S) /\ Len(events) <= Len(objects)
             /\ \A n \in 1 .. Len(events) : events[n] = objects[n]
             /\ events = << >> <=> Len(events) = 0
  <2>1. /\ events \in Seq(S) /\ Len(events) = k
        /\ \A n \in 1 .. k : events[n] = objects[n]
    BY <1>1, <1>3
  <2> QED BY <1>1, <2>1, EmptySeq
<1> QED
  BY <1>2, <1>3 DEF ListByTransaction, DynamoDBListing, FullListing

\* A step that leaves the stored events alone.
ChainGrows ==
    /\ Len(objects') >= Len(objects)
    /\ \A n \in 1 .. Len(objects) : objects'[n] = objects[n]

\* An event that follows the chain does so when the chain has grown.
LEMMA FollowsKept ==
    ASSUME NEW S, objects \in Seq(S), NEW T, objects' \in Seq(T), ChainGrows,
           NEW e, EventOK(e), Follows(e)
    PROVE  Follows(e)'
<1>1. Len(objects) \in Nat /\ Len(objects') \in Nat /\ e.sequence \in Nat /\ e.sequence >= 1
  BY DEF EventOK
<1>2. \A n \in 1 .. e.sequence - 1 : objects'[n] = objects[n]
  BY <1>1 DEF ChainGrows, Follows
<1>3. e.sequence > 1 => objects'[e.sequence - 1] = objects[e.sequence - 1]
  BY <1>1, <1>2
<1> QED
  BY <1>1, <1>2, <1>3 DEF ChainGrows, Follows

\* The write puts the event after the last one.
LEMMA StoreIsAppend ==
    ASSUME NEW S, objects \in Seq(S), NEW e, e.sequence = Len(objects) + 1, Store(e)
    PROVE  /\ objects' \in Seq(S \cup {e})
           /\ Len(objects') = Len(objects) + 1
           /\ \A n \in 1 .. Len(objects) : objects'[n] = objects[n]
           /\ objects'[Len(objects) + 1] = e
<1> DEFINE n == Len(objects)
<1>1. n \in Nat /\ DOMAIN objects = 1 .. n /\ \A i \in 1 .. n : objects[i] \in S
  OBVIOUS
<1>2. DOMAIN objects \cup {e.sequence} = 1 .. n + 1
  BY <1>1
<1>3. objects' = [i \in 1 .. n + 1 |-> IF i = n + 1 THEN e ELSE objects[i]]
  BY <1>2 DEF Store
<1> HIDE DEF n
<1>4. objects' \in [1 .. n + 1 -> S \cup {e}]
  BY <1>1, <1>3
<1>5. objects' \in Seq(S \cup {e}) /\ Len(objects') = n + 1
  BY <1>1, <1>4
<1>6. \A i \in 1 .. n : objects'[i] = objects[i]
  BY <1>1, <1>3
<1>7. objects'[n + 1] = e
  BY <1>1, <1>3
<1> QED BY <1>5, <1>6, <1>7 DEF n

\* Whatever the backend, an event that follows the chain is stored at its end.
LEMMA StoredAtTheEnd ==
    ASSUME NEW S, objects \in Seq(S), backend \in Backends,
           NEW e, EventOK(e), Follows(e), MayStore(e)
    PROVE  e.sequence = Len(objects) + 1
<1>1. Len(objects) \in Nat /\ DOMAIN objects = 1 .. Len(objects) /\ e.sequence \in Nat /\ e.sequence >= 1
  BY DEF EventOK
<1>2. e.sequence - 1 <= Len(objects)
  BY DEF Follows
<1>3. e.sequence \notin 1 .. Len(objects) \/ e.sequence = Len(objects) + 1
  BY <1>1 DEF MayStore, S3Append, DynamoDBAppend, MemoryAppend, Backends
<1> QED BY <1>1, <1>2, <1>3

\* Every append, on either backend, keeps the invariant.
LEMMA EvidenceNextOK == EvidenceInv /\ [EvidenceNext]_evidenceVars => EvidenceInv'
<1> SUFFICES ASSUME EvidenceInv, [EvidenceNext]_evidenceVars
             PROVE  EvidenceInv'
    OBVIOUS
<1> USE EvidenceChainAssumption DEF EvidenceInv
<1>o. PICK S : objects \in Seq(S)
  OBVIOUS
<1>n. Len(objects) \in Nat
  BY <1>o
<1>k. ASSUME UNCHANGED objects
      PROVE  /\ \E T : objects' \in Seq(T)
             /\ ChainOK'
             /\ \A e : Follows(e) => Follows(e)'
             /\ AcknowledgedOK /\ UNCHANGED acknowledged => AcknowledgedOK'
  BY <1>k DEF ChainOK, Follows, EventOK, AcknowledgedOK
<1>b. ASSUME NEW a \in Appends, NEW rec, Become(a, rec), UNCHANGED objects, AppendOK(a)'
      PROVE  /\ DOMAIN appends' = Appends /\ appends' = [x \in Appends |-> appends'[x]]
             /\ \A x \in Appends : AppendOK(x)'
  <2>1. /\ DOMAIN appends' = Appends /\ appends' = [x \in Appends |-> appends'[x]]
        /\ \A x \in Appends \ {a} : appends'[x] = appends[x]
    BY <1>b DEF Become
  <2>2. ASSUME NEW x \in Appends PROVE AppendOK(x)'
    <3>1. CASE x = a
      BY <1>b, <3>1
    <3>2. CASE x # a
      BY <1>b, <1>k, <2>1, <3>2 DEF AppendOK, Follows
    <3> QED BY <3>1, <3>2
  <2> QED BY <2>1, <2>2
<1>r. ASSUME NEW a \in Appends, Become(a, AtRest) PROVE AppendOK(a)'
  <2>1. appends'[a] = AtRest /\ AtRest.pc = "rest"
    BY <1>r DEF Become, AtRest
  <2> QED BY <2>1 DEF AppendOK
<1>1. CASE ClockTick
  BY <1>1, <1>k DEF ClockTick, AppendOK, Follows
<1>2. ASSUME NEW a \in Appends, RecordSome(a)
      PROVE  EvidenceInv'
  <2>1. PICK type \in OnceTypes \cup OtherTypes, facts \in Facts : Record(a, type, facts)
    BY <1>2 DEF RecordSome
  <2> DEFINE rec == [pc |-> "list", type |-> type, facts |-> facts]
  <2>2. Become(a, rec) /\ UNCHANGED <<backend, objects, evidenceClock, acknowledged>>
    BY <2>1 DEF Record
  <2>3. appends'[a].pc = "list"
    BY <2>2 DEF Become
  <2>4. AppendOK(a)'
    BY <2>3 DEF AppendOK
  <2> QED BY <1>k, <1>b, <2>2, <2>4
<1>3. ASSUME NEW a \in Appends, Fail(a)
      PROVE  EvidenceInv'
  BY <1>3, <1>k, <1>b, <1>r DEF Fail
<1>4. ASSUME NEW a \in Appends, List(a)
      PROVE  EvidenceInv'
  <2>1. UNCHANGED <<backend, objects, evidenceClock>>
    BY <1>4 DEF List
  <2>2. PICK events \in ListByTransaction :
          IF /\ appends[a].type \in OnceTypes
             /\ RecordedBefore(events, appends[a].type) # {}
          THEN FoundBefore(a, events)
          ELSE \E behind \in 0 .. MaxSkew :
                 behind <= evidenceClock /\ BuildNext(a, events, evidenceClock - behind)
    BY <1>4 DEF List
  <2>3. /\ events \in Seq(S) /\ Len(events) <= Len(objects) /\ Len(events) \in Nat
        /\ \A n \in 1 .. Len(events) : events[n] = objects[n]
        /\ events = << >> <=> Len(events) = 0
        /\ DOMAIN events = 1 .. Len(events)
    BY <1>o, ListingIsPrefix
  <2>4. CASE FoundBefore(a, events)
    <3>1. ASSUME NEW e \in acknowledged'
          PROVE  e.sequence \in 1 .. Len(objects') /\ objects'[e.sequence] = e
      <4>1. CASE e \in acknowledged
        BY <2>1, <4>1 DEF AcknowledgedOK
      <4>2. CASE e \in RecordedBefore(events, appends[a].type)
        <5>1. PICK n \in 1 .. Len(events) : e = events[n]
          BY <2>3, <4>2 DEF RecordedBefore
        <5>2. n \in 1 .. Len(objects) /\ e = objects[n]
          BY <1>n, <2>3, <5>1
        <5> QED BY <2>1, <5>2 DEF ChainOK
      <4> QED BY <2>4, <4>1, <4>2 DEF FoundBefore
    <3>2. AcknowledgedOK'
      BY <3>1 DEF AcknowledgedOK
    <3> QED BY <1>k, <1>b, <1>r, <2>1, <2>4, <3>2 DEF FoundBefore
  <2>5. ASSUME appends[a].type \in OnceTypes => RecordedBefore(events, appends[a].type) = {},
               NEW behind \in 0 .. MaxSkew, behind <= evidenceClock,
               BuildNext(a, events, evidenceClock - behind)
        PROVE  EvidenceInv'
    <3> DEFINE at == evidenceClock - behind
               e == newUnsignedEvent(events, appends[a].type, appends[a].facts, at)
               rec == [pc |-> "store", event |-> Signed(e)]
    <3>1. UNCHANGED acknowledged /\ at \in Nat
      BY <2>5 DEF BuildNext
    <3>2. CASE Become(a, AtRest)
      BY <1>k, <1>b, <1>r, <2>1, <3>1, <3>2
    <3>3. CASE validateEventParams(events, e) /\ Become(a, rec)
      <4> DEFINE k == Len(events)
                 s == Signed(e)
      <4>1. /\ e.type = appends[a].type /\ e.facts = appends[a].facts /\ e.sequence = k + 1
            /\ e.at = at /\ e.previous = IF events = << >> THEN NoDigest ELSE events[k].hash
        BY DEF newUnsignedEvent
      <4> HIDE DEF e
      <4>2. /\ s.type = e.type /\ s.facts = e.facts /\ s.sequence = e.sequence /\ s.at = e.at
            /\ s.previous = e.previous /\ s.hash = calculateHash(e) /\ s.signature = calculateHash(e)
        BY DEF Signed
      <4>3. calculateHash(s) = calculateHash(e)
        BY <4>2 DEF calculateHash
      <4>4. appends'[a] = rec /\ rec.pc = "store" /\ rec.event = s
        BY <3>3 DEF Become
      <4> HIDE DEF s, rec
      <4>5. EventOK(s)
        BY <2>3, <3>1, <4>1, <4>2, <4>3 DEF EventOK
      <4>6. Follows(s)
        <5>1. s.sequence - 1 = k /\ k \in Nat
          BY <2>3, <4>1, <4>2
        <5>2. s.sequence - 1 <= Len(objects)
          BY <1>n, <2>3, <5>1
        <5>3. s.sequence = 1 => s.previous = NoDigest
          BY <2>3, <4>1, <4>2, <5>1
        <5>4. s.sequence > 1 =>
                /\ s.previous = objects[s.sequence - 1].hash
                /\ s.at >= objects[s.sequence - 1].at
          BY <2>3, <3>3, <4>1, <4>2, <5>1 DEF validateEventParams
        <5>5. s.type \in OnceTypes => \A n \in 1 .. s.sequence - 1 : objects[n].type # s.type
          <6>1. ASSUME NEW n \in DOMAIN events, events[n].type = appends[a].type
                PROVE  events[n] \in RecordedBefore(events, appends[a].type)
            BY <6>1 DEF RecordedBefore
          <6> QED BY <2>3, <2>5, <4>1, <4>2, <5>1, <6>1
        <5> QED BY <5>2, <5>3, <5>4, <5>5 DEF Follows
      <4>7. AppendOK(a)'
        BY <1>k, <2>1, <4>4, <4>5, <4>6 DEF AppendOK, EventOK, Follows
      <4> QED BY <1>k, <1>b, <2>1, <3>1, <3>3, <4>7
    <3> QED BY <2>5, <3>2, <3>3 DEF BuildNext
  <2> QED BY <2>2, <2>4, <2>5
<1>5. ASSUME NEW a \in Appends, Put(a)
      PROVE  EvidenceInv'
  <2>1. PICK e : e = appends[a].event
    OBVIOUS
  <2>2. appends[a].pc = "store" /\ Become(a, AtRest) /\ UNCHANGED <<backend, evidenceClock>>
    BY <1>5 DEF Put
  <2>3. EventOK(e) /\ Follows(e)
    BY <2>1, <2>2 DEF AppendOK
  <2>4. CASE UNCHANGED <<objects, acknowledged>>
    BY <1>k, <1>b, <1>r, <2>2, <2>4
  <2>5. ASSUME MayStore(e), Store(e), acknowledged' \in {acknowledged, acknowledged \cup {e}}
        PROVE  EvidenceInv'
    <3>1. e.sequence = Len(objects) + 1
      BY <1>o, <2>3, <2>5, StoredAtTheEnd
    <3>2. /\ objects' \in Seq(S \cup {e})
          /\ Len(objects') = Len(objects) + 1
          /\ \A n \in 1 .. Len(objects) : objects'[n] = objects[n]
          /\ objects'[Len(objects) + 1] = e
      BY <1>o, <2>5, <3>1, StoreIsAppend
    <3>3. ChainGrows
      BY <1>n, <3>2 DEF ChainGrows
    <3>4. ASSUME NEW f, EventOK(f), Follows(f) PROVE Follows(f)'
      BY <1>o, <3>2, <3>3, <3>4, FollowsKept
    <3>5. ASSUME NEW n \in 1 .. Len(objects')
          PROVE  objects'[n].sequence = n /\ EventOK(objects'[n]) /\ Follows(objects[n])'
      <4>1. CASE n \in 1 .. Len(objects)
        <5>1. PICK f : f = objects[n]
          OBVIOUS
        <5>2. f.sequence = n /\ EventOK(f) /\ Follows(f)
          BY <4>1, <5>1 DEF ChainOK
        <5>3. Follows(f)'
          BY <3>4, <5>2
        <5> QED BY <3>2, <4>1, <5>1, <5>2, <5>3
      <4>2. CASE n = Len(objects) + 1
        <5>1. Follows(e)'
          BY <2>3, <3>4
        <5> QED BY <2>3, <3>1, <3>2, <4>2, <5>1
      <4> QED BY <1>n, <3>2, <4>1, <4>2
    <3>6. ChainOK'
      BY <3>5 DEF ChainOK, EventOK, calculateHash
    <3>7. AcknowledgedOK'
      <4>1. ASSUME NEW f \in acknowledged'
            PROVE  f.sequence \in 1 .. Len(objects') /\ objects'[f.sequence] = f
        <5>1. CASE f \in acknowledged
          <6>1. f.sequence \in 1 .. Len(objects) /\ objects[f.sequence] = f
            BY <5>1 DEF AcknowledgedOK
          <6> QED BY <1>n, <3>2, <6>1
        <5>2. CASE f = e
          BY <1>n, <3>1, <3>2, <5>2
        <5> QED BY <2>5, <4>1, <5>1, <5>2
      <4> QED BY <4>1 DEF AcknowledgedOK
    <3>8. ASSUME NEW x \in Appends PROVE AppendOK(x)'
      <4>1. CASE x = a
        BY <1>r, <2>2, <4>1
      <4>2. CASE x # a
        <5>1. appends'[x] = appends[x]
          BY <2>2, <4>2 DEF Become
        <5>2. PICK f : f = appends[x].event
          OBVIOUS
        <5>3. appends[x].pc = "store" => EventOK(f) /\ Follows(f)'
          BY <3>4, <5>2 DEF AppendOK
        <5> QED BY <5>1, <5>2, <5>3 DEF AppendOK, EventOK, Follows, calculateHash
      <4> QED BY <4>1, <4>2
    <3>9. DOMAIN appends' = Appends /\ appends' = [x \in Appends |-> appends'[x]]
      BY <2>2 DEF Become
    <3> QED BY <2>2, <3>2, <3>6, <3>7, <3>8, <3>9
  <2> QED BY <1>5, <2>1, <2>4, <2>5 DEF Put
<1>6. CASE UNCHANGED evidenceVars
  BY <1>6, <1>k DEF evidenceVars, AppendOK, Follows
<1> QED
  BY <1>1, <1>2, <1>3, <1>4, <1>5, <1>6 DEF EvidenceNext

\* VerifyChain accepts every listing the store may return, a truncated one
\* included: sequence numbers, links, hashes, signatures and times are right
\* after any interleaving of appends.
THEOREM EveryListingVerifies == EvidenceSpec => []ChainAlwaysVerifies
<1>1. EvidenceInv => ChainAlwaysVerifies
  <2> SUFFICES ASSUME EvidenceInv, NEW events \in ListByTransaction, events # << >>
               PROVE  VerifyChain(events)
    BY DEF ChainAlwaysVerifies
  <2>1. PICK S : objects \in Seq(S)
    BY DEF EvidenceInv
  <2>2. /\ Len(events) <= Len(objects) /\ Len(events) \in Nat /\ Len(objects) \in Nat
        /\ \A n \in 1 .. Len(events) : events[n] = objects[n]
        /\ DOMAIN events = 1 .. Len(events)
    BY <2>1, ListingIsPrefix
  <2>3. ASSUME NEW n \in DOMAIN events
        PROVE  /\ validateStoredEvent(events, n)
               /\ calculateHash(events[n]) = events[n].hash
               /\ Verifies(calculateHash(events[n]), events[n].signature)
    <3>1. n \in 1 .. Len(objects) /\ events[n] = objects[n]
      BY <2>2, <2>3
    <3>2. objects[n].sequence = n /\ EventOK(objects[n]) /\ Follows(objects[n])
      BY <3>1 DEF EvidenceInv, ChainOK
    <3>3. n > 1 => n - 1 \in 1 .. Len(events) /\ events[n - 1] = objects[n - 1]
      BY <2>2, <2>3
    <3> QED
      BY <3>1, <3>2, <3>3 DEF EventOK, Follows, validateStoredEvent, Verifies
  <2> QED BY <2>3 DEF VerifyChain
<1> QED
  BY <1>1, EvidenceInitOK, EvidenceNextOK, PTL DEF EvidenceSpec

\* An event whose append was acknowledged stays in its place, unchanged: no
\* later or concurrent append overwrites it, and what appendOnce records is
\* recorded once.
THEOREM RecordedFactsStay == EvidenceSpec => []AcknowledgedEvidenceIsKept
<1>1. EvidenceInv => AcknowledgedEvidenceIsKept
  <2> SUFFICES ASSUME EvidenceInv PROVE AcknowledgedEvidenceIsKept
    OBVIOUS
  <2>1. DOMAIN objects = 1 .. Len(objects) /\ Len(objects) \in Nat
    BY DEF EvidenceInv
  <2>2. ASSUME NEW m \in 1 .. Len(objects), NEW n \in 1 .. Len(objects), m < n,
               objects[m].type \in OnceTypes, objects[m].type = objects[n].type
        PROVE  FALSE
    BY <2>1, <2>2 DEF EvidenceInv, ChainOK, Follows
  <2> QED BY <2>1, <2>2 DEF EvidenceInv, AcknowledgedOK, AcknowledgedEvidenceIsKept
<1> QED
  BY <1>1, EvidenceInitOK, EvidenceNextOK, PTL DEF EvidenceSpec
=============================================================================

---------------------------- MODULE SellerProofs ----------------------------
(***************************************************************************)
(* What a seller's own records promise, for any number of destinations,    *)
(* products, subscriptions, tokens, keys and concurrent calls: one active  *)
(* settlement destination per pair, a workspace record no writer of which  *)
(* undoes another, webhook deliveries charged for and delivered once, no   *)
(* session on a token or a signing key that was withdrawn, invoices that   *)
(* add up, lists that leave nothing out, and a development profile that is *)
(* there as a whole or not at all.                                         *)
(*                                                                         *)
(* The argument is the same for the first three: a call that read a record *)
(* writes it back on the version it read, and what it read still holds at  *)
(* that version.  The webhook quota needs in addition that a counter is    *)
(* the number of its claims.  A session needs that the record of a token   *)
(* family is the latest expiry that logged out, and that a key document    *)
(* was asked for at most FetchTimeout before it is cached for CacheTTL.    *)
(* An invoice needs the byte order of the keys, a list that a cursor       *)
(* stands between what was looked at and the rest, the profile what the    *)
(* call that has the seeder's mutex has emptied and written so far.        *)
(***************************************************************************)
EXTENDS Settlement, Workspace, Webhooks, SellerSessions, Usage, Listing, DevSeed,
        FiniteSetTheorems, WellFoundedInduction, TLAPS

\* The destinations in the store.
DestinationRecords ==
    [ status : {"absent", "pending_verification", "active", "rotated"},
      challenge : Nat, version : Nat ]

\* The calls of Create and VerifyOwnership, by control point.
ProofRecords ==
    {NoProof}
      \cup [pc : {"challenge"}, target : Destinations, version : Nat]
      \cup [pc : {"find"}, target : Destinations, challenge : Nat, version : Nat,
            confirm : BOOLEAN]
      \cup [pc : {"activate"}, target : Destinations, version : Nat,
            rotated : Destinations \cup {NoDestination}, rotatedVersion : Nat]

\* Every variable has its type.
SettlementTypeOK ==
    /\ destination \in [Destinations -> DestinationRecords]
    /\ activeClaim \in [Pairs -> Destinations \cup {NoDestination}]
    /\ issued \in Nat
    /\ lapsed \subseteq Nat
    /\ proof \in [Proofs -> ProofRecords]

\* A version at which the destination had this status: it is not ahead of the
\* stored one, and if it is the stored one the status still holds.
SeenWithStatus(d, version, status) ==
    /\ version <= destination[d].version
    /\ version = destination[d].version => destination[d].status = status

\* What a call of VerifyOwnership has read: its destination awaited its proof,
\* and the one it is to rotate was the active one of the same pair.
ProofOK(q) ==
    /\ proof[q] # NoProof =>
         SeenWithStatus(proof[q].target, proof[q].version, "pending_verification")
    /\ proof[q].pc = "activate" /\ proof[q].rotated # NoDestination =>
         /\ proof[q].rotated # proof[q].target
         /\ PairOf[proof[q].rotated] = PairOf[proof[q].target]
         /\ SeenWithStatus(proof[q].rotated, proof[q].rotatedVersion, "active")

\* The claim of a pair names its active destination, and only that one.
ClaimOK ==
    /\ \A p \in Pairs : activeClaim[p] # NoDestination =>
         /\ PairOf[activeClaim[p]] = p
         /\ destination[activeClaim[p]].status = "active"
    /\ \A d \in Destinations : destination[d].status = "active" =>
         activeClaim[PairOf[d]] = d

\* The inductive invariant of Settlement.
SettlementInv ==
    /\ SettlementTypeOK
    /\ \A q \in Proofs : ProofOK(q)
    /\ ClaimOK

\* Nothing is stored, so nothing is claimed.
LEMMA SettlementInitOK == SettlementInit => SettlementInv
BY SettlementAssumption
DEF SettlementInit, SettlementInv, SettlementTypeOK, DestinationRecords, ProofRecords,
    ProofOK, ClaimOK, Absent, NoProof

\* Every operation of the settlement service keeps the invariant, the
\* activating transaction because of its conditions on both versions.
LEMMA SettlementNextOK ==
    SettlementInv /\ [SettlementNext]_settlementVars => SettlementInv'
<1> SUFFICES ASSUME SettlementInv, [SettlementNext]_settlementVars
             PROVE  SettlementInv'
    OBVIOUS
<1> USE SettlementAssumption DEF SettlementInv
<1>1. ASSUME NEW d \in Destinations, CreateDestination(d)
      PROVE  SettlementInv'
  BY <1>1 DEF CreateDestination, NewPaymentDestination, Absent, SettlementTypeOK,
              DestinationRecords, ProofRecords, ProofOK, ClaimOK, SeenWithStatus, NoProof
<1>2. ASSUME NEW n \in 1..MaxChallenges, ChallengeLapses(n)
      PROVE  SettlementInv'
  BY <1>2 DEF ChallengeLapses, SettlementTypeOK, ProofOK, ClaimOK, SeenWithStatus
<1>3. ASSUME NEW q \in Proofs, NEW d \in Destinations, ReadForChallenge(q, d)
      PROVE  SettlementInv'
  BY <1>3 DEF ReadForChallenge, SettlementTypeOK, 
              DestinationRecords, ProofRecords, ProofOK, ClaimOK, SeenWithStatus, NoProof
<1>4. ASSUME NEW q \in Proofs, NEW d \in Destinations, NEW n \in 1..MaxChallenges,
             NEW confirm \in BOOLEAN, ReadForProof(q, d, n, confirm)
      PROVE  SettlementInv'
  BY <1>4 DEF ReadForProof, SettlementTypeOK, 
              DestinationRecords, ProofRecords, ProofOK, ClaimOK, SeenWithStatus, NoProof
<1>5. ASSUME NEW q \in Proofs, SaveChallenge(q)
      PROVE  SettlementInv'
  BY <1>5 DEF SaveChallenge, DestinationUnchanged, SettlementTypeOK, 
              DestinationRecords, ProofRecords, ProofOK, ClaimOK, SeenWithStatus, NoProof
<1>6. ASSUME NEW q \in Proofs, FindActiveDestination(q)
      PROVE  SettlementInv'
  <2> DEFINE d == proof[q].target
  <2>1. /\ proof[q].pc = "find" /\ d \in Destinations /\ proof[q].version \in Nat
        /\ UNCHANGED <<destination, activeClaim, issued, lapsed>>
    BY <1>6 DEF FindActiveDestination, SettlementTypeOK, ProofRecords, NoProof
  <2>2. \E e \in Destinations \cup {NoDestination}, n \in Nat :
          /\ proof' = [proof EXCEPT ![q] =
                         [pc |-> "activate", target |-> d, version |-> proof[q].version,
                          rotated |-> e, rotatedVersion |-> n]]
          /\ e # NoDestination =>
               e # d /\ PairOf[e] = PairOf[d] /\ SeenWithStatus(e, n, "active")
    BY <1>6, <2>1 DEF FindActiveDestination, ActiveFor, SeenWithStatus, SettlementTypeOK, DestinationRecords
  <2> QED
    BY <2>1, <2>2 DEF SettlementTypeOK, DestinationRecords, ProofRecords, ProofOK, ClaimOK,
                      SeenWithStatus, NoProof
<1>7. ASSUME NEW q \in Proofs, Activate(q)
      PROVE  SettlementInv'
  <2> DEFINE d == proof[q].target
             e == proof[q].rotated
  <2>1. /\ proof[q].pc = "activate" /\ d \in Destinations /\ proof[q].version \in Nat
        /\ e \in Destinations \cup {NoDestination} /\ proof[q].rotatedVersion \in Nat
    BY <1>7 DEF Activate, SettlementTypeOK, ProofRecords, NoProof
  <2>2. /\ destination[d].status = "pending_verification"
        /\ destination[d].version = proof[q].version
        /\ e # NoDestination =>
             /\ e # d /\ PairOf[e] = PairOf[d]
             /\ destination[e].status = "active"
             /\ destination[e].version = proof[q].rotatedVersion
        /\ activeClaim[PairOf[d]] = e
    BY <1>7, <2>1 DEF Activate, ClaimHeldBy, DestinationUnchanged, ProofOK, SeenWithStatus, NoProof
  <2>3. /\ activeClaim' = [activeClaim EXCEPT ![PairOf[d]] = d]
        /\ proof' = [proof EXCEPT ![q] = NoProof]
        /\ UNCHANGED <<issued, lapsed>>
    BY <1>7 DEF Activate
  <2>4. \A x \in Destinations :
          destination'[x] =
            IF x = d THEN Activated(proof[q].version)
            ELSE IF x = e THEN Rotated(e, proof[q].rotatedVersion)
            ELSE destination[x]
    BY <1>7 DEF Activate
  <2>5. SettlementTypeOK'
    <3>1. destination' \in [Destinations -> DestinationRecords]
      BY <1>7, <2>1 DEF Activate, Activated, Rotated, SettlementTypeOK, DestinationRecords
    <3> QED
      BY <2>1, <2>3, <3>1 DEF SettlementTypeOK, ProofRecords
  <2>6. /\ \A x \in Destinations : destination'[x].version >= destination[x].version
        /\ \A x \in Destinations : destination'[x].version = destination[x].version =>
              destination'[x] = destination[x]
    BY <2>1, <2>2, <2>4 DEF Activated, Rotated, SettlementTypeOK, DestinationRecords
  <2>7. ASSUME NEW r \in Proofs PROVE ProofOK(r)'
    <3>1. CASE r = q
      BY <2>3, <3>1 DEF ProofOK, NoProof, SettlementTypeOK
    <3>2. CASE r # q
      <4>1. proof'[r] = proof[r] /\ proof[r] \in ProofRecords
        BY <2>3, <3>2 DEF SettlementTypeOK
      <4>2. ASSUME NEW x \in Destinations, NEW v \in Nat, NEW status, SeenWithStatus(x, v, status)
            PROVE  SeenWithStatus(x, v, status)'
        <5>1. destination[x].version \in Nat /\ destination'[x].version \in Nat
          BY <2>5 DEF SettlementTypeOK, DestinationRecords
        <5> QED
          BY <2>6, <4>2, <5>1 DEF SeenWithStatus
      <4>3. proof[r] # NoProof => proof[r].target \in Destinations /\ proof[r].version \in Nat
        BY <4>1 DEF ProofRecords
      <4>4. proof[r].pc = "activate" /\ proof[r].rotated # NoDestination =>
              proof[r].rotated \in Destinations /\ proof[r].rotatedVersion \in Nat
        BY <4>1 DEF ProofRecords, NoProof
      <4> QED
        BY <4>1, <4>2, <4>3, <4>4 DEF ProofOK
    <3> QED BY <3>1, <3>2
  <2>8. ClaimOK'
    BY <2>1, <2>2, <2>3, <2>4 DEF Activated, Rotated, ClaimOK, SettlementTypeOK, DestinationRecords
  <2> QED
    BY <2>5, <2>7, <2>8
<1>8. ASSUME NEW q \in Proofs, AbandonProof(q)
      PROVE  SettlementInv'
  BY <1>8 DEF AbandonProof, SettlementTypeOK, 
              DestinationRecords, ProofRecords, ProofOK, ClaimOK, SeenWithStatus, NoProof
<1>9. CASE UNCHANGED settlementVars
  BY <1>9 DEF settlementVars, SettlementTypeOK, ProofOK, ClaimOK, SeenWithStatus
<1> QED
  BY <1>1, <1>2, <1>3, <1>4, <1>5, <1>6, <1>7, <1>8, <1>9 DEF SettlementNext

\* Create, StartChallenge and VerifyOwnership never leave two active
\* destinations for one pair of network and asset, however many of them run
\* at once and whatever they rotate.
THEOREM OneDestinationPerPair == SettlementSpec => []OneActiveDestination
<1>1. SettlementInv => OneActiveDestination
  BY SettlementAssumption DEF SettlementInv, SettlementTypeOK, ClaimOK, OneActiveDestination
<1> QED
  BY <1>1, SettlementInitOK, SettlementNextOK, PTL DEF SettlementSpec
-----------------------------------------------------------------------------
\* The result of a validation, and the workspace record that keeps it.
ResultRecords == [product : Products \cup {"none"}, version : Nat, valid : BOOLEAN]

\* The workspace record.
WorkspaceRecords ==
    [ version : Nat, connector : BOOLEAN, previewed : BOOLEAN, result : ResultRecords,
      settings : Nat, settingsVersion : Nat ]

\* Calls that hold a copy of the workspace and will put it back.
WritingPCs == {"settings", "preview", "connector", "record"}

\* The calls of the workspace service, by control point.
WorkRecords ==
    {NoWork} \cup [pc : {"create"}]
      \cup [pc : {"settings", "preview", "connector"}, state : WorkspaceRecords]
      \cup [pc : {"probe"}, product : Products, version : Nat, next : Nat, passed : BOOLEAN]
      \cup [pc : {"match", "load"}, result : ResultRecords]
      \cup [pc : {"record"}, result : ResultRecords, state : WorkspaceRecords]
      \cup [pc : {"gate"}, product : Products, state : WorkspaceRecords]
      \cup [pc : {"publish"}, product : Products, version : Nat]

\* Every variable has its type.
WorkspaceTypeOK ==
    /\ product \in [Products -> [version : Nat, status : {"none", "draft", "published", "paused"}]]
    /\ met \subseteq Prerequisites
    /\ workspace \in WorkspaceRecords
    /\ acked \in WorkspaceRecords
    /\ work \in [Works -> WorkRecords]

\* A writer's copy is the stored record if it has its version.
CopyOK(w) ==
    work[w].pc \in WritingPCs =>
        /\ work[w].state.version <= workspace.version
        /\ work[w].state.version = workspace.version => work[w].state = workspace

\* Two records agree on everything a seller is told it has done.
SameProgress(s, t) ==
    /\ s.connector = t.connector /\ s.previewed = t.previewed
    /\ s.result = t.result /\ s.settings = t.settings

\* The inductive invariant of Workspace.
WorkspaceInv ==
    /\ WorkspaceTypeOK
    /\ \A w \in Works : CopyOK(w)
    /\ SameProgress(workspace, acked)
    /\ workspace.settingsVersion = workspace.version
    /\ workspace.version = 0 => workspace = NoWorkspace

\* There is no record and nothing was acknowledged.
LEMMA WorkspaceInitOK == WorkspaceInit => WorkspaceInv
BY DEF WorkspaceInit, WorkspaceInv, WorkspaceTypeOK, WorkspaceRecords, WorkRecords,
       ResultRecords, CopyOK, SameProgress, NoWorkspace, NoWork, NoResult, NoProduct, WritingPCs

\* Stamped changes the two versions only.
LEMMA StampedType ==
    ASSUME NEW s \in WorkspaceRecords
    PROVE  /\ Stamped(s) \in WorkspaceRecords
           /\ Stamped(s).version = s.version + 1
           /\ Stamped(s).settingsVersion = s.version + 1
           /\ SameProgress(Stamped(s), s)
<1> DEFINE v == s.version + 1
<1>1. v \in Nat
  BY DEF WorkspaceRecords
<1>2. Stamped(s) = [[s EXCEPT !.version = v] EXCEPT !.settingsVersion = v]
  BY <1>1 DEF Stamped, WorkspaceRecords
<1> HIDE DEF v
<1>3. /\ [[s EXCEPT !.version = v] EXCEPT !.settingsVersion = v] \in WorkspaceRecords
      /\ [[s EXCEPT !.version = v] EXCEPT !.settingsVersion = v].version = v
      /\ [[s EXCEPT !.version = v] EXCEPT !.settingsVersion = v].settingsVersion = v
      /\ SameProgress([[s EXCEPT !.version = v] EXCEPT !.settingsVersion = v], s)
  BY <1>1 DEF WorkspaceRecords, SameProgress
<1> QED BY <1>2, <1>3 DEF v

\* What every put has in common: it replaces the record its writer read.
LEMMA PutOK ==
    ASSUME WorkspaceInv, NEW w \in Works, work[w].pc \in WritingPCs,
           NEW s \in WorkspaceRecords, s.version = work[w].state.version,
           PutState(w, s),
           acked' \in WorkspaceRecords,
           work[w].state = workspace => SameProgress(s, acked')
    PROVE  WorkspaceInv'
<1>1. /\ work[w].state = workspace
      /\ workspace' = Stamped(s)
      /\ work' = [work EXCEPT ![w] = NoWork]
      /\ UNCHANGED <<product, met>>
  BY DEF PutState, UnchangedSince, WorkspaceInv, CopyOK, Done
<1>2. /\ workspace' \in WorkspaceRecords
      /\ workspace'.version = workspace.version + 1
      /\ workspace'.settingsVersion = workspace'.version
      /\ SameProgress(workspace', acked')
      /\ workspace.version \in Nat
  BY <1>1, StampedType DEF SameProgress, WorkspaceInv, WorkspaceTypeOK, WorkspaceRecords
<1>3. WorkspaceTypeOK'
  BY <1>1, <1>2 DEF WorkspaceInv, WorkspaceTypeOK, WorkRecords
<1>4. ASSUME NEW x \in Works PROVE CopyOK(x)'
  <2>1. CASE x = w
    BY <1>1, <2>1 DEF CopyOK, WorkspaceInv, WorkspaceTypeOK, NoWork, WritingPCs
  <2>2. CASE x # w
    <3>1. work'[x] = work[x] /\ CopyOK(x)
      BY <1>1, <2>2 DEF WorkspaceInv, WorkspaceTypeOK
    <3>2. work[x].pc \in WritingPCs => work[x].state.version \in Nat
      BY DEF WorkspaceInv, WorkspaceTypeOK, WorkRecords, WorkspaceRecords, NoWork, WritingPCs
    <3> QED
      BY <1>2, <3>1, <3>2 DEF CopyOK
  <2> QED BY <2>1, <2>2
<1> QED
  BY <1>2, <1>3, <1>4 DEF WorkspaceInv

\* The copy of a writer, and what it puts.
LEMMA WriterType ==
    ASSUME WorkspaceTypeOK, NEW w \in Works, work[w].pc \in WritingPCs
    PROVE  /\ work[w].state \in WorkspaceRecords
           /\ work[w].pc = "record" => work[w].result \in ResultRecords
BY DEF WorkspaceTypeOK, WorkRecords, NoWork, WritingPCs

\* Every operation of the workspace and the validation service keeps the
\* invariant.
LEMMA WorkspaceNextOK ==
    WorkspaceInv /\ [WorkspaceNext]_workspaceVars => WorkspaceInv'
<1> SUFFICES ASSUME WorkspaceInv, [WorkspaceNext]_workspaceVars
             PROVE  WorkspaceInv'
    OBVIOUS
<1> USE WorkspaceAssumption DEF WorkspaceInv
<1>1. ASSUME NEW s \in Prerequisites, serviceConnectionReady(s)
      PROVE  WorkspaceInv'
  BY <1>1 DEF serviceConnectionReady, WorkspaceTypeOK, CopyOK
<1>2. ASSUME NEW p \in Products, ConfigureProduct(p) \/ EditProduct(p) \/ PauseProduct(p)
      PROVE  WorkspaceInv'
  BY <1>2 DEF ConfigureProduct, EditProduct, PauseProduct, WorkspaceTypeOK, CopyOK
<1>3. ASSUME NEW w \in Works, NEW purpose \in {"settings", "preview", "connector"},
             LoadState(w, purpose)
      PROVE  WorkspaceInv'
  BY <1>3 DEF LoadState, StartWork, WorkspaceTypeOK, WorkRecords, CopyOK, WritingPCs, WorkspaceRecords
<1>4. ASSUME NEW w \in Works, LoadNothing(w)
      PROVE  WorkspaceInv'
  BY <1>4 DEF LoadNothing, StartWork, WorkspaceTypeOK, WorkRecords, CopyOK, WritingPCs
<1>5. ASSUME NEW w \in Works, CreateState(w)
      PROVE  WorkspaceInv'
  <2>1. NoWorkspace \in WorkspaceRecords /\ NoWorkspace.version = 0
    BY DEF NoWorkspace, WorkspaceRecords, ResultRecords, NoResult
  <2>2. /\ workspace.version = 0
        /\ workspace' = Stamped(NoWorkspace) /\ acked' = workspace'
        /\ work' = [work EXCEPT ![w] = NoWork]
        /\ UNCHANGED <<product, met>>
    BY <1>5 DEF CreateState, UnchangedSince, Done
  <2>3. /\ workspace' \in WorkspaceRecords /\ workspace'.version = 1
        /\ workspace'.settingsVersion = 1
    BY <2>1, <2>2, StampedType
  <2>4. WorkspaceTypeOK'
    BY <2>2, <2>3 DEF WorkspaceTypeOK, WorkRecords
  <2>5. ASSUME NEW x \in Works PROVE CopyOK(x)'
    <3>1. work[x].pc \in WritingPCs => work[x].state.version \in Nat
      BY DEF WorkspaceTypeOK, WorkRecords, WorkspaceRecords, NoWork, WritingPCs
    <3> QED
      BY <2>2, <2>3, <3>1 DEF CopyOK, NoWork, WritingPCs, WorkspaceTypeOK
  <2> QED
    BY <2>2, <2>3, <2>4, <2>5 DEF SameProgress
<1>6. ASSUME NEW w \in Works, UpdateSettings(w)
      PROVE  WorkspaceInv'
  <2> DEFINE s == work[w].state
             v == acked.settings + 1
             put == [s EXCEPT !.settings = v]
             told == [acked EXCEPT !.settings = v]
  <2>1. work[w].pc = "settings" /\ PutState(w, put) /\ acked' = told
    BY <1>6 DEF UpdateSettings
  <2>2. s \in WorkspaceRecords /\ v \in Nat /\ acked \in WorkspaceRecords
    BY <2>1, WriterType DEF WritingPCs, WorkspaceTypeOK, WorkspaceRecords
  <2> HIDE DEF s, v
  <2>3. /\ put \in WorkspaceRecords /\ put.version = s.version
        /\ told \in WorkspaceRecords
        /\ SameProgress(s, acked) => SameProgress(put, told)
    BY <2>2 DEF WorkspaceRecords, SameProgress
  <2> HIDE DEF put, told
  <2> QED
    BY <2>1, <2>3, PutOK DEF WritingPCs, s
<1>7. ASSUME NEW w \in Works, RecordStorefrontPreview(w)
      PROVE  WorkspaceInv'
  <2> DEFINE s == work[w].state
             v == TRUE
             put == [s EXCEPT !.previewed = v]
             told == [acked EXCEPT !.previewed = v]
  <2>1. work[w].pc = "preview" /\ PutState(w, put) /\ acked' = told
    BY <1>7 DEF RecordStorefrontPreview
  <2>2. s \in WorkspaceRecords /\ v \in BOOLEAN /\ acked \in WorkspaceRecords
    BY <2>1, WriterType DEF WritingPCs, WorkspaceTypeOK, WorkspaceRecords
  <2> HIDE DEF s, v
  <2>3. /\ put \in WorkspaceRecords /\ put.version = s.version
        /\ told \in WorkspaceRecords
        /\ SameProgress(s, acked) => SameProgress(put, told)
    BY <2>2 DEF WorkspaceRecords, SameProgress
  <2> HIDE DEF put, told
  <2> QED
    BY <2>1, <2>3, PutOK DEF WritingPCs, s
<1>8. ASSUME NEW w \in Works, RecordAuthenticatedConnectorVerification(w)
      PROVE  WorkspaceInv'
  <2>1. CASE UNCHANGED <<product, met, workspace, acked>> /\ Done(w)
    BY <2>1 DEF Done, WorkspaceTypeOK, WorkRecords, NoWork, CopyOK, WritingPCs, SameProgress
  <2>2. ASSUME PutState(w, [work[w].state EXCEPT !.connector = TRUE]),
               acked' = [acked EXCEPT !.connector = TRUE]
        PROVE  WorkspaceInv'
    <3> DEFINE s == work[w].state
               put == [s EXCEPT !.connector = TRUE]
               told == [acked EXCEPT !.connector = TRUE]
    <3>1. work[w].pc = "connector" /\ s \in WorkspaceRecords /\ acked \in WorkspaceRecords
      BY <1>8, WriterType DEF RecordAuthenticatedConnectorVerification, WritingPCs, WorkspaceTypeOK
    <3>2. PutState(w, put) /\ acked' = told
      BY <2>2
    <3> HIDE DEF s
    <3>3. /\ put \in WorkspaceRecords /\ put.version = s.version
          /\ told \in WorkspaceRecords
          /\ SameProgress(s, acked) => SameProgress(put, told)
      BY <3>1 DEF WorkspaceRecords, SameProgress
    <3> HIDE DEF put, told
    <3> QED
      BY <3>1, <3>2, <3>3, PutOK DEF WritingPCs, s
  <2> QED
    BY <1>8, <2>1, <2>2 DEF RecordAuthenticatedConnectorVerification
<1>9. ASSUME NEW w \in Works, NEW p \in Products, Validate(w, p)
      PROVE  WorkspaceInv'
  BY <1>9 DEF Validate, StartWork, WorkspaceTypeOK, WorkRecords, CopyOK, WritingPCs
<1>10. ASSUME NEW w \in Works, NEW p \in Products, LoadForGate(w, p)
      PROVE  WorkspaceInv'
  BY <1>10 DEF LoadForGate, StartWork, WorkspaceTypeOK, WorkRecords, CopyOK, WritingPCs
<1>11. ASSUME NEW w \in Works, NEW reply \in {"required", "other", "none"}, Probe(w, reply)
      PROVE  WorkspaceInv'
  <2>1. work[w] \in [pc : {"probe"}, product : Products, version : Nat, next : Nat,
                      passed : BOOLEAN]
    <3>1. work[w] \in WorkRecords /\ work[w].pc = "probe"
      BY <1>11 DEF Probe, WorkspaceTypeOK
    <3> QED
      BY <3>1 DEF WorkRecords, NoWork
  <2> DEFINE passed == work[w].passed /\ reply = "required"
  <2>2. /\ UNCHANGED <<product, met, workspace, acked>>
        /\ \E rec \in WorkRecords :
             rec.pc \notin WritingPCs /\ work' = [work EXCEPT ![w] = rec]
    <3>1. passed \in BOOLEAN
      OBVIOUS
    <3>2. UNCHANGED <<product, met, workspace, acked>>
      BY <1>11 DEF Probe
    <3>3. \/ work' = [work EXCEPT ![w] =
                [pc |-> "match", result |-> [product |-> work[w].product,
                                             version |-> work[w].version, valid |-> passed]]]
          \/ work' = [work EXCEPT ![w] =
                [pc |-> "probe", product |-> work[w].product, version |-> work[w].version,
                 next |-> work[w].next + 1, passed |-> passed]]
      BY <1>11 DEF Probe
    <3> HIDE DEF passed
    <3>4. /\ [pc |-> "match", result |-> [product |-> work[w].product,
                                          version |-> work[w].version, valid |-> passed]]
               \in WorkRecords
          /\ [pc |-> "probe", product |-> work[w].product, version |-> work[w].version,
              next |-> work[w].next + 1, passed |-> passed] \in WorkRecords
      BY <2>1, <3>1 DEF WorkRecords, ResultRecords
    <3> QED
      BY <3>2, <3>3, <3>4 DEF WritingPCs
  <2> QED
    BY <2>2 DEF WorkspaceTypeOK, CopyOK
<1>12. ASSUME NEW w \in Works, MatchResult(w)
      PROVE  WorkspaceInv'
  BY <1>12 DEF MatchResult, WorkspaceTypeOK, WorkRecords, NoWork, CopyOK, WritingPCs
<1>13. ASSUME NEW w \in Works, LoadForResult(w)
      PROVE  WorkspaceInv'
  BY <1>13 DEF LoadForResult, WorkspaceTypeOK, WorkRecords, NoWork, CopyOK, WritingPCs, WorkspaceRecords
<1>14. ASSUME NEW w \in Works, RecordIntegrationVerification(w)
      PROVE  WorkspaceInv'
  <2> DEFINE s == work[w].state
             v == work[w].result
             put == [s EXCEPT !.result = v]
             told == [acked EXCEPT !.result = v]
  <2>1. work[w].pc = "record" /\ PutState(w, put) /\ acked' = told
    BY <1>14 DEF RecordIntegrationVerification
  <2>2. s \in WorkspaceRecords /\ v \in ResultRecords /\ acked \in WorkspaceRecords
    BY <2>1, WriterType DEF WritingPCs, WorkspaceTypeOK, WorkspaceRecords
  <2> HIDE DEF s, v
  <2>3. /\ put \in WorkspaceRecords /\ put.version = s.version
        /\ told \in WorkspaceRecords
        /\ SameProgress(s, acked) => SameProgress(put, told)
    BY <2>2 DEF WorkspaceRecords, SameProgress
  <2> HIDE DEF put, told
  <2> QED
    BY <2>1, <2>3, PutOK DEF WritingPCs, s
<1>15. ASSUME NEW w \in Works, Gate(w)
      PROVE  WorkspaceInv'
  BY <1>15 DEF Gate, WorkspaceTypeOK, WorkRecords, NoWork, CopyOK, WritingPCs
<1>16. ASSUME NEW w \in Works, Publish(w)
      PROVE  WorkspaceInv'
  BY <1>16 DEF Publish, Done, WorkspaceTypeOK, WorkRecords, NoWork, CopyOK, WritingPCs
<1>17. ASSUME NEW w \in Works, LeaveWork(w)
      PROVE  WorkspaceInv'
  BY <1>17 DEF LeaveWork, Done, WorkspaceTypeOK, WorkRecords, NoWork, CopyOK, WritingPCs
<1>18. CASE UNCHANGED workspaceVars
  BY <1>18 DEF workspaceVars, WorkspaceTypeOK, CopyOK
<1> QED
  BY <1>1, <1>2, <1>3, <1>4, <1>5, <1>6, <1>7, <1>8, <1>9, <1>10, <1>11, <1>12, <1>13,
     <1>14, <1>15, <1>16, <1>17, <1>18 DEF WorkspaceNext

\* No two writers of the workspace record undo each other: what SaveSettings,
\* the preview, the connector and the validation have acknowledged is in the
\* stored record, whatever was read before.
THEOREM NoProgressIsLost == WorkspaceSpec => []AcknowledgedProgressIsKept
<1>1. WorkspaceInv => AcknowledgedProgressIsKept
  <2>1. ASSUME NEW s \in WorkspaceRecords, NEW t \in WorkspaceRecords, SameProgress(s, t)
        PROVE  [[s EXCEPT !.version = 0] EXCEPT !.settingsVersion = 0]
                 = [[t EXCEPT !.version = 0] EXCEPT !.settingsVersion = 0]
    BY <2>1 DEF WorkspaceRecords, SameProgress
  <2> QED
    BY <2>1 DEF WorkspaceInv, WorkspaceTypeOK, AcknowledgedProgressIsKept
<1> QED
  BY <1>1, WorkspaceInitOK, WorkspaceNextOK, PTL DEF WorkspaceSpec
-----------------------------------------------------------------------------
\* The deliveries in the store.
DeliveryStatuses == {"pending", "retry_scheduled", "dead_letter", "delivered"}
\* A stored delivery.
StoredDeliveries ==
    [status : DeliveryStatuses, due : BOOLEAN, attempts : Nat, version : Nat]

\* The calls of the webhook service and of its worker, by control point.
WorkerRecords ==
    {Free}
      \cup [pc : {"subscribe"}, target : Subscriptions]
      \cup [pc : {"consume"}, event : WebhookEvents, rest : SUBSET Subscriptions]
      \cup [pc : {"create"}, event : WebhookEvents, rest : SUBSET Subscriptions,
            next : Subscriptions]
      \cup [pc : {"send"}, target : Deliveries, read : StoredDeliveries]
      \cup [pc : {"store"}, target : Deliveries, read : StoredDeliveries,
            outcome : StoredDeliveries]

\* Every variable has its type.
WebhooksTypeOK ==
    /\ subscription \in [Subscriptions -> {"absent", "active", "disabled"}]
    /\ delivery \in [Deliveries -> {NoDelivery} \cup StoredDeliveries]
    /\ month \in 1..MaxMonth
    /\ quotaClaims \subseteq (1..MaxMonth) \X Deliveries
    /\ quotaCount \in [1..MaxMonth -> Nat]
    /\ worker \in [Workers -> WorkerRecords]
    /\ accepted \subseteq Deliveries
    /\ redeliveries \in Nat

\* Some month was charged for the delivery.
Billed(d) == \E m \in 1..MaxMonth : <<m, d>> \in quotaClaims

\* The units charged to a month.
ClaimsOf(m) == {c \in quotaClaims : c[1] = m}

\* The counter of a month counts its claims, and stays within the limit.
QuotaOK ==
    /\ IsFiniteSet(quotaClaims)
    /\ \A m \in 1..MaxMonth :
          quotaCount[m] = Cardinality(ClaimsOf(m)) /\ quotaCount[m] <= DeliveryLimit

\* A delivery that is stored, or about to be, is charged for.
BilledOK ==
    /\ \A d \in Deliveries : delivery[d] # NoDelivery => Billed(d)
    /\ \A w \in Workers : worker[w].pc = "create" => Billed(<<worker[w].next, worker[w].event>>)

\* The copy of a delivery that a call read.
ReadOK(d, read) ==
    /\ delivery[d] # NoDelivery
    /\ read.status # "delivered"
    /\ read.version <= delivery[d].version
    /\ read.version = delivery[d].version => delivery[d].status = read.status

\* An attempt acts on a delivery it has read, and reports what was accepted.
AttemptOK(w) ==
    /\ worker[w].pc \in {"send", "store"} => ReadOK(worker[w].target, worker[w].read)
    /\ worker[w].pc = "store" =>
         /\ worker[w].outcome.version = worker[w].read.version + 1
         /\ worker[w].outcome.status = "delivered" => worker[w].target \in accepted

\* A delivery marked delivered was accepted by its endpoint.
DeliveredOK == \A d \in Deliveries : delivery[d].status = "delivered" => d \in accepted

\* The inductive invariant of Webhooks.
WebhooksInv ==
    /\ WebhooksTypeOK
    /\ QuotaOK
    /\ BilledOK
    /\ \A w \in Workers : AttemptOK(w)
    /\ DeliveredOK

\* No delivery is stored and no unit charged.
LEMMA WebhooksInitOK == WebhooksInit => WebhooksInv
<1> SUFFICES ASSUME WebhooksInit PROVE WebhooksInv
  OBVIOUS
<1> USE WebhooksAssumption
<1>1. WebhooksTypeOK
  BY DEF WebhooksInit, WebhooksTypeOK, WorkerRecords
<1>2. QuotaOK
  <2>1. ASSUME NEW m \in 1..MaxMonth PROVE ClaimsOf(m) = {}
    BY DEF WebhooksInit, ClaimsOf
  <2>2. IsFiniteSet({}) /\ Cardinality({}) = 0
    BY FS_EmptySet
  <2>3. \A m \in 1..MaxMonth : quotaCount[m] = 0 /\ 0 <= DeliveryLimit
    BY DEF WebhooksInit
  <2>4. \A m \in 1..MaxMonth : Cardinality(ClaimsOf(m)) = 0
    BY <2>1, <2>2
  <2>5. IsFiniteSet(quotaClaims)
    BY <2>2 DEF WebhooksInit
  <2> QED
    BY <2>3, <2>4, <2>5 DEF QuotaOK
<1>3. \A w \in Workers : worker[w].pc = "free"
  BY DEF WebhooksInit, Free
<1>4. \A d \in Deliveries : delivery[d] = NoDelivery /\ delivery[d].status = "absent"
  BY DEF WebhooksInit, NoDelivery
<1>5. BilledOK /\ (\A w \in Workers : AttemptOK(w)) /\ DeliveredOK
  BY <1>3, <1>4 DEF BilledOK, AttemptOK, DeliveredOK
<1> QED
  BY <1>1, <1>2, <1>5 DEF WebhooksInv

\* What a step that leaves the quota alone must keep.
LEMMA QuotaKept ==
    ASSUME UNCHANGED <<quotaClaims, quotaCount>>
    PROVE  (QuotaOK => QuotaOK') /\ \A d : Billed(d) => Billed(d)'
BY DEF QuotaOK, ClaimsOf, Billed

\* IncrementUnique keeps the count, and the pair is billed after it.
LEMMA IncrementOK ==
    ASSUME WebhooksTypeOK, QuotaOK, NEW d \in Deliveries, IncrementUnique(<<month, d>>)
    PROVE  /\ QuotaOK' /\ Billed(d)' /\ \A x : Billed(x) => Billed(x)'
           /\ quotaClaims' \subseteq (1..MaxMonth) \X Deliveries
           /\ quotaCount' \in [1..MaxMonth -> Nat]
<1> DEFINE source == <<month, d>>
<1> USE WebhooksAssumption
<1>1. month \in 1..MaxMonth /\ source \in (1..MaxMonth) \X Deliveries
  BY DEF WebhooksTypeOK
<1>2. CASE source \in quotaClaims /\ UNCHANGED <<quotaClaims, quotaCount>>
  BY <1>1, <1>2, QuotaKept DEF Billed, WebhooksTypeOK
<1>3. ASSUME source \notin quotaClaims, quotaCount[month] < DeliveryLimit,
             quotaClaims' = quotaClaims \cup {source},
             quotaCount' = [quotaCount EXCEPT ![month] = @ + 1]
      PROVE  /\ QuotaOK' /\ Billed(d)' /\ \A x : Billed(x) => Billed(x)'
             /\ quotaClaims' \subseteq (1..MaxMonth) \X Deliveries
             /\ quotaCount' \in [1..MaxMonth -> Nat]
  <2>1. /\ Billed(d)' /\ \A x : Billed(x) => Billed(x)'
        /\ quotaClaims' \subseteq (1..MaxMonth) \X Deliveries
        /\ quotaCount' \in [1..MaxMonth -> Nat]
    BY <1>1, <1>3 DEF Billed, WebhooksTypeOK
  <2>2. IsFiniteSet(quotaClaims')
    BY <1>3, FS_AddElement DEF QuotaOK
  <2>3. ASSUME NEW m \in 1..MaxMonth
        PROVE  /\ quotaCount'[m] = Cardinality(ClaimsOf(m)')
               /\ quotaCount'[m] <= DeliveryLimit
    <3>1. IsFiniteSet(ClaimsOf(m)) /\ Cardinality(ClaimsOf(m)) \in Nat
      BY FS_Subset, FS_CardinalityType DEF QuotaOK, ClaimsOf
    <3>2. CASE m = month
      <4>1. ClaimsOf(m)' = ClaimsOf(m) \cup {source}
        BY <1>3, <3>2 DEF ClaimsOf
      <4>2. source \notin ClaimsOf(m)
        BY <1>3 DEF ClaimsOf
      <4>3. Cardinality(ClaimsOf(m)') = Cardinality(ClaimsOf(m)) + 1
        BY <3>1, <4>1, <4>2, FS_AddElement
      <4>4. quotaCount'[m] = quotaCount[m] + 1 /\ quotaCount[m] \in Nat
        BY <1>3, <3>2 DEF WebhooksTypeOK
      <4> QED
        BY <1>3, <3>1, <3>2, <4>3, <4>4 DEF QuotaOK
    <3>3. CASE m # month
      <4>1. ClaimsOf(m)' = ClaimsOf(m)
        BY <1>3, <3>3 DEF ClaimsOf
      <4> QED
        BY <1>3, <3>3, <4>1 DEF QuotaOK, WebhooksTypeOK
    <3> QED BY <3>2, <3>3
  <2> QED BY <2>1, <2>2, <2>3 DEF QuotaOK
<1> QED
  BY <1>2, <1>3 DEF IncrementUnique

\* A change of a delivery never moves a version back, and one that keeps the
\* version keeps the status.
DeliveriesAdvance ==
    \A d \in Deliveries : delivery[d] # NoDelivery =>
        /\ delivery'[d] # NoDelivery
        /\ delivery'[d].version >= delivery[d].version
        /\ delivery'[d].version = delivery[d].version => delivery'[d].status = delivery[d].status

\* A step that writes one delivery and moves it on.
LEMMA OneAdvances ==
    ASSUME WebhooksTypeOK, NEW d \in Deliveries, delivery'[d] # NoDelivery,
           \A x \in Deliveries : x # d => delivery'[x] = delivery[x],
           delivery[d] # NoDelivery =>
             /\ delivery'[d].version >= delivery[d].version
             /\ delivery'[d].version = delivery[d].version =>
                  delivery'[d].status = delivery[d].status
    PROVE  DeliveriesAdvance
<1> SUFFICES ASSUME NEW x \in Deliveries, delivery[x] # NoDelivery
             PROVE  /\ delivery'[x] # NoDelivery
                    /\ delivery'[x].version >= delivery[x].version
                    /\ delivery'[x].version = delivery[x].version =>
                         delivery'[x].status = delivery[x].status
  BY DEF DeliveriesAdvance
<1>1. CASE x = d
  BY <1>1
<1>2. CASE x # d
  <2>1. delivery[x].version \in Nat
    BY DEF WebhooksTypeOK, StoredDeliveries
  <2> QED BY <1>2, <2>1
<1> QED BY <1>1, <1>2

\* An attempt in progress is not disturbed by what others do to deliveries.
LEMMA AttemptKept ==
    ASSUME WebhooksTypeOK, WebhooksTypeOK', DeliveriesAdvance, accepted \subseteq accepted',
           NEW w \in Workers, worker'[w] = worker[w], AttemptOK(w)
    PROVE  AttemptOK(w)'
<1>1. ASSUME worker[w].pc \in {"send", "store"}
      PROVE  ReadOK(worker[w].target, worker[w].read)'
  <2> DEFINE d == worker[w].target
             read == worker[w].read
  <2>1. worker[w] \in WorkerRecords
    BY DEF WebhooksTypeOK
  <2>2. d \in Deliveries /\ read \in StoredDeliveries
    BY <1>1, <2>1 DEF WorkerRecords, Free
  <2>3. read.version \in Nat
    BY <2>2 DEF StoredDeliveries
  <2>4. ReadOK(d, read)
    BY <1>1 DEF AttemptOK
  <2>5. delivery[d] \in StoredDeliveries /\ delivery'[d] \in StoredDeliveries
    BY <2>2, <2>4 DEF ReadOK, WebhooksTypeOK, DeliveriesAdvance
  <2>6. delivery[d].version \in Nat /\ delivery'[d].version \in Nat
    BY <2>5 DEF StoredDeliveries
  <2> HIDE DEF d, read
  <2>7. ReadOK(d, read)'
    BY <2>2, <2>3, <2>4, <2>6 DEF ReadOK, DeliveriesAdvance, d, read
  <2> QED BY <2>7 DEF d, read
<1> QED
  BY <1>1 DEF AttemptOK

\* Every operation of the webhook service keeps the invariant.
LEMMA WebhooksNextOK == WebhooksInv /\ [WebhooksNext]_webhookVars => WebhooksInv'
<1> SUFFICES ASSUME WebhooksInv, [WebhooksNext]_webhookVars
             PROVE  WebhooksInv'
    OBVIOUS
<1> USE WebhooksAssumption DEF WebhooksInv
\* A step of one worker that moves no delivery, and leaves it where it need
\* remember nothing.
<1>a. ASSUME NEW w \in Workers, NEW rec \in WorkerRecords,
             rec.pc \in {"free", "subscribe", "consume"},
             worker' = [worker EXCEPT ![w] = rec],
             subscription' \in [Subscriptions -> {"absent", "active", "disabled"}],
             UNCHANGED <<delivery, month, quotaClaims, quotaCount, accepted, redeliveries>>
      PROVE  WebhooksInv'
  <2>1. WebhooksTypeOK'
    BY <1>a DEF WebhooksTypeOK
  <2>2. \A x \in Workers : worker'[x] = IF x = w THEN rec ELSE worker[x]
    BY <1>a DEF WebhooksTypeOK
  <2>3. DeliveriesAdvance
    <3>1. \A d \in Deliveries : delivery[d] # NoDelivery => delivery[d].version \in Nat
      BY DEF WebhooksTypeOK, StoredDeliveries
    <3> QED BY <1>a, <3>1 DEF DeliveriesAdvance
  <2>4. \A x \in Workers : AttemptOK(x)'
    <3>1. ASSUME NEW x \in Workers, x # w PROVE AttemptOK(x)'
      BY <1>a, <2>1, <2>2, <2>3, <3>1, AttemptKept
    <3>2. AttemptOK(w)'
      BY <1>a, <2>2 DEF AttemptOK
    <3> QED BY <3>1, <3>2
  <2>5. BilledOK'
    BY <1>a, <2>2, QuotaKept DEF BilledOK
  <2>6. QuotaOK' /\ DeliveredOK'
    BY <1>a, QuotaKept DEF DeliveredOK
  <2> QED BY <2>1, <2>4, <2>5, <2>6
<1>1. CASE MonthEnds
  <2>1. WebhooksTypeOK'
    BY <1>1 DEF MonthEnds, WebhooksTypeOK
  <2> QED BY <1>1, <2>1, QuotaKept DEF MonthEnds, BilledOK, AttemptOK, ReadOK, DeliveredOK
<1>2. ASSUME NEW s \in Subscriptions, DisableSubscription(s)
      PROVE  WebhooksInv'
  BY <1>2, QuotaKept DEF DisableSubscription, WebhooksTypeOK, BilledOK, AttemptOK, ReadOK, DeliveredOK
<1>3. ASSUME NEW d \in Deliveries, BecomesDue(d)
      PROVE  WebhooksInv'
  <2>1. /\ delivery[d].status = "retry_scheduled"
        /\ delivery' = [delivery EXCEPT ![d].due = TRUE]
        /\ UNCHANGED <<subscription, month, quotaClaims, quotaCount, worker, accepted, redeliveries>>
    BY <1>3 DEF BecomesDue
  <2>2. delivery[d] \in StoredDeliveries
    BY <2>1 DEF WebhooksTypeOK, NoDelivery
  <2>3. /\ delivery'[d] \in StoredDeliveries
        /\ delivery'[d].status = delivery[d].status
        /\ delivery'[d].version = delivery[d].version
        /\ \A x \in Deliveries : x # d => delivery'[x] = delivery[x]
        /\ DOMAIN delivery' = Deliveries
    BY <2>1, <2>2 DEF WebhooksTypeOK, StoredDeliveries
  <2>4. WebhooksTypeOK'
    BY <2>1, <2>3 DEF WebhooksTypeOK
  <2>5. DeliveriesAdvance
    <3>1. delivery'[d] # NoDelivery /\ delivery[d].version \in Nat
      BY <2>2, <2>3 DEF StoredDeliveries, NoDelivery
    <3> QED BY <2>3, <3>1, OneAdvances
  <2>6. \A x \in Workers : AttemptOK(x)'
    BY <2>1, <2>4, <2>5, AttemptKept
  <2>7. BilledOK' /\ QuotaOK' /\ DeliveredOK'
    BY <2>1, <2>2, <2>3, QuotaKept DEF BilledOK, DeliveredOK, StoredDeliveries, NoDelivery
  <2> QED BY <2>4, <2>6, <2>7
<1>4. ASSUME NEW w \in Workers, NEW s \in Subscriptions, ReadSubscriptions(w, s)
      PROVE  WebhooksInv'
  <2> DEFINE rec == [pc |-> "subscribe", target |-> s]
  <2>1. rec \in WorkerRecords /\ rec.pc = "subscribe"
    BY DEF WorkerRecords
  <2> HIDE DEF rec
  <2>2. worker' = [worker EXCEPT ![w] = rec]
    BY <1>4 DEF ReadSubscriptions, rec
  <2> QED BY <1>4, <1>a, <2>1, <2>2 DEF ReadSubscriptions, WebhooksTypeOK
<1>5. ASSUME NEW w \in Workers, NEW e \in WebhookEvents, BeginEnqueue(w, e)
      PROVE  WebhooksInv'
  <2> DEFINE rec == [pc |-> "consume", event |-> e, rest |-> ActiveSubscriptions]
  <2>1. rec \in WorkerRecords /\ rec.pc = "consume"
    BY DEF WorkerRecords, ActiveSubscriptions
  <2> HIDE DEF rec
  <2>2. worker' = [worker EXCEPT ![w] = rec]
    BY <1>5 DEF BeginEnqueue, rec
  <2> QED BY <1>5, <1>a, <2>1, <2>2 DEF BeginEnqueue, WebhooksTypeOK
<1>6. ASSUME NEW w \in Workers, CreateSubscription(w)
      PROVE  WebhooksInv'
  <2>1. Free \in WorkerRecords /\ Free.pc = "free"
    BY DEF Free, WorkerRecords
  <2>2. subscription' \in [Subscriptions -> {"absent", "active", "disabled"}]
    BY <1>6 DEF CreateSubscription, WebhooksTypeOK
  <2> QED BY <1>6, <1>a, <2>1, <2>2 DEF CreateSubscription
<1>7. ASSUME NEW w \in Workers, RateLimitExceeded(w) \/ CutOffWorker(w)
      PROVE  WebhooksInv'
  <2>1. Free \in WorkerRecords /\ Free.pc = "free"
    BY DEF Free, WorkerRecords
  <2> QED BY <1>7, <1>a, <2>1 DEF RateLimitExceeded, CutOffWorker, WebhooksTypeOK
<1>8. ASSUME NEW w \in Workers, ConsumeWebhookDelivery(w)
      PROVE  WebhooksInv'
  <2>1. /\ worker[w].pc = "consume"
        /\ UNCHANGED <<subscription, delivery, month, accepted, redeliveries>>
    BY <1>8 DEF ConsumeWebhookDelivery
  <2>2. worker[w].rest \subseteq Subscriptions /\ worker[w].event \in WebhookEvents
    BY <2>1 DEF WebhooksTypeOK, WorkerRecords, Free
  <2>e. PICK e \in WebhookEvents : worker[w].event = e
    BY <2>2
  <2>3. PICK s \in worker[w].rest :
          /\ IncrementUnique(<<month, <<s, e>>>>)
          /\ worker' = [worker EXCEPT ![w] = [pc |-> "create", event |-> e,
                                              rest |-> worker[w].rest, next |-> s]]
    BY <1>8, <2>e DEF ConsumeWebhookDelivery
  <2> DEFINE d == <<s, e>>
             rec == [pc |-> "create", event |-> e,
                     rest |-> worker[w].rest, next |-> s]
  <2>4. d \in Deliveries
    BY <2>2 DEF Deliveries
  <2>5. rec \in WorkerRecords /\ rec.pc = "create" /\ <<rec.next, rec.event>> = d
    BY <2>2 DEF WorkerRecords
  <2> HIDE DEF d, rec
  <2>6. /\ QuotaOK' /\ Billed(d)' /\ \A x : Billed(x) => Billed(x)'
        /\ quotaClaims' \subseteq (1..MaxMonth) \X Deliveries
        /\ quotaCount' \in [1..MaxMonth -> Nat]
    BY <2>3, <2>4, IncrementOK DEF d
  <2>7. /\ \A x \in Workers : worker'[x] = IF x = w THEN rec ELSE worker[x]
        /\ worker' \in [Workers -> WorkerRecords]
    BY <2>3, <2>5 DEF WebhooksTypeOK, rec
  <2>8. WebhooksTypeOK'
    BY <2>1, <2>6, <2>7 DEF WebhooksTypeOK
  <2>9. \A x \in Workers : AttemptOK(x)'
    <3>1. DeliveriesAdvance
      BY <2>1 DEF DeliveriesAdvance, WebhooksTypeOK, StoredDeliveries
    <3>2. ASSUME NEW x \in Workers, x # w PROVE AttemptOK(x)'
      BY <2>1, <2>7, <2>8, <3>1, <3>2, AttemptKept
    <3>3. AttemptOK(w)'
      BY <2>5, <2>7 DEF AttemptOK
    <3> QED BY <3>2, <3>3
  <2>10. BilledOK'
    <3>1. \A x \in Deliveries : (delivery[x] # NoDelivery)' => Billed(x)'
      BY <2>1, <2>6 DEF BilledOK
    <3>2. ASSUME NEW x \in Workers, worker'[x].pc = "create"
          PROVE  \E m \in 1..MaxMonth :
                   <<m, <<worker'[x].next, worker'[x].event>>>> \in quotaClaims'
      <4>1. CASE x = w
        BY <2>5, <2>6, <2>7, <4>1 DEF Billed, d
      <4>2. CASE x # w
        <5>1. worker'[x] = worker[x] /\ Billed(<<worker[x].next, worker[x].event>>)
          BY <2>7, <3>2, <4>2 DEF BilledOK
        <5> QED BY <2>6, <5>1 DEF Billed
      <4> QED BY <4>1, <4>2
    <3> QED BY <3>1, <3>2 DEF BilledOK, Billed
  <2>11. DeliveredOK'
    BY <2>1 DEF DeliveredOK
  <2> QED BY <2>6, <2>8, <2>9, <2>10, <2>11
<1>9. ASSUME NEW w \in Workers, CreateIfAbsent(w)
      PROVE  WebhooksInv'
  <2> DEFINE d == <<worker[w].next, worker[w].event>>
             rest == worker[w].rest \ {worker[w].next}
             fresh == [status |-> "pending", due |-> TRUE, attempts |-> 0, version |-> 1]
             rec == IF rest = {} THEN Free
                    ELSE [pc |-> "consume", event |-> worker[w].event, rest |-> rest]
  <2>1. /\ worker[w].pc = "create"
        /\ UNCHANGED <<subscription, month, quotaClaims, quotaCount, accepted, redeliveries>>
        /\ delivery' = IF delivery[d] = NoDelivery
                       THEN [delivery EXCEPT ![d] = fresh] ELSE delivery
        /\ worker' = [worker EXCEPT ![w] = rec]
    BY <1>9 DEF CreateIfAbsent
  <2>2. /\ worker[w].event \in WebhookEvents /\ rest \subseteq Subscriptions
        /\ worker[w].next \in Subscriptions
    BY <2>1 DEF WebhooksTypeOK, WorkerRecords, Free
  <2>3. d \in Deliveries /\ Billed(d)
    BY <2>1, <2>2 DEF Deliveries, BilledOK
  <2>4. rec \in WorkerRecords /\ rec.pc \in {"free", "consume"}
    BY <2>2 DEF WorkerRecords, Free
  <2>5. fresh \in StoredDeliveries /\ fresh.status = "pending"
    BY DEF StoredDeliveries, DeliveryStatuses
  <2> HIDE DEF d, rest, fresh, rec
  <2>6. /\ \A x \in Workers : worker'[x] = IF x = w THEN rec ELSE worker[x]
        /\ worker' \in [Workers -> WorkerRecords]
    BY <2>1, <2>4 DEF WebhooksTypeOK
  <2>7. /\ delivery' \in [Deliveries -> {NoDelivery} \cup StoredDeliveries]
        /\ \A x \in Deliveries :
              \/ delivery'[x] = delivery[x]
              \/ x = d /\ delivery[x] = NoDelivery /\ delivery'[x] = fresh
    BY <2>1, <2>3, <2>5 DEF WebhooksTypeOK
  <2>8. WebhooksTypeOK'
    BY <2>1, <2>6, <2>7 DEF WebhooksTypeOK
  <2>9. \A x \in Workers : AttemptOK(x)'
    <3>1. DeliveriesAdvance
      BY <2>7 DEF DeliveriesAdvance, WebhooksTypeOK, StoredDeliveries
    <3>2. ASSUME NEW x \in Workers, x # w PROVE AttemptOK(x)'
      BY <2>1, <2>6, <2>8, <3>1, <3>2, AttemptKept
    <3>3. AttemptOK(w)'
      BY <2>4, <2>6 DEF AttemptOK
    <3> QED BY <3>2, <3>3
  <2>10. BilledOK'
    <3>1. \A x \in Deliveries : Billed(x) => Billed(x)'
      BY <2>1, QuotaKept
    <3>2. \A x \in Workers : worker'[x].pc = "create" =>
            worker'[x] = worker[x]
      BY <2>4, <2>6
    <3>3. \A x \in Workers : worker'[x].pc = "create" =>
            \E m \in 1..MaxMonth :
              <<m, <<worker'[x].next, worker'[x].event>>>> \in quotaClaims'
      BY <2>1, <3>2 DEF BilledOK, Billed
    <3>4. \A x \in Deliveries : (delivery[x] # NoDelivery)' => Billed(x)'
      BY <2>3, <2>7, <3>1 DEF BilledOK
    <3> QED BY <3>3, <3>4 DEF BilledOK, Billed
  <2>11. DeliveredOK' /\ QuotaOK'
    BY <2>1, <2>5, <2>7, QuotaKept DEF DeliveredOK
  <2> QED BY <2>8, <2>9, <2>10, <2>11
\* A step of an attempt: the quota is left alone, deliveries advance.
<1>b. ASSUME NEW w \in Workers, NEW rec \in WorkerRecords,
             worker' = [worker EXCEPT ![w] = rec], rec.pc # "create",
             AttemptOK(w)',
             delivery' \in [Deliveries -> {NoDelivery} \cup StoredDeliveries],
             DeliveriesAdvance, DeliveredOK',
             \A x \in Deliveries : delivery'[x] # NoDelivery => delivery[x] # NoDelivery,
             accepted \subseteq accepted', accepted' \subseteq Deliveries, redeliveries' \in Nat,
             UNCHANGED <<subscription, month, quotaClaims, quotaCount>>
      PROVE  WebhooksInv'
  <2>1. /\ \A x \in Workers : worker'[x] = IF x = w THEN rec ELSE worker[x]
        /\ worker' \in [Workers -> WorkerRecords]
    BY <1>b DEF WebhooksTypeOK
  <2>2. WebhooksTypeOK'
    BY <1>b, <2>1 DEF WebhooksTypeOK
  <2>3. ASSUME NEW x \in Workers, x # w PROVE AttemptOK(x)'
    BY <1>b, <2>1, <2>2, <2>3, AttemptKept
  <2>4. BilledOK'
    BY <1>b, <2>1, QuotaKept DEF BilledOK
  <2> QED BY <1>b, <2>2, <2>3, <2>4, QuotaKept
<1>c. ASSUME UNCHANGED delivery PROVE DeliveriesAdvance
  BY <1>c DEF DeliveriesAdvance, WebhooksTypeOK, StoredDeliveries
<1>10. ASSUME NEW w \in Workers, NEW d \in Deliveries, BeginAttempt(w, d)
      PROVE  WebhooksInv'
  <2> DEFINE rec == [pc |-> "send", target |-> d, read |-> delivery[d]]
  <2>1. /\ worker' = [worker EXCEPT ![w] = rec]
        /\ UNCHANGED <<subscription, delivery, month, quotaClaims, quotaCount, accepted, redeliveries>>
        /\ delivery[d] # NoDelivery /\ delivery[d].status # "delivered"
    BY <1>10 DEF BeginAttempt, CanAttempt, Attempted
  <2>2. delivery[d] \in StoredDeliveries /\ delivery[d].version \in Nat
    BY <2>1 DEF WebhooksTypeOK, StoredDeliveries
  <2>3. rec \in WorkerRecords /\ rec.pc = "send" /\ rec.target = d /\ rec.read = delivery[d]
    BY <2>2 DEF WorkerRecords
  <2> HIDE DEF rec
  <2>4. worker'[w] = rec
    BY <2>1 DEF WebhooksTypeOK
  <2>5. AttemptOK(w)'
    BY <2>1, <2>2, <2>3, <2>4 DEF AttemptOK, ReadOK
  <2> QED BY <1>b, <1>c, <2>1, <2>3, <2>5 DEF WebhooksTypeOK, DeliveredOK
<1>11. ASSUME NEW w \in Workers, NEW d \in Deliveries, ReadForRedelivery(w, d)
      PROVE  WebhooksInv'
  <2> DEFINE out == [status |-> "pending", due |-> TRUE, attempts |-> delivery[d].attempts,
                     version |-> delivery[d].version + 1]
             rec == [pc |-> "store", target |-> d, read |-> delivery[d], outcome |-> out]
  <2>1. /\ worker' = [worker EXCEPT ![w] = rec]
        /\ UNCHANGED <<subscription, delivery, month, quotaClaims, quotaCount, accepted>>
        /\ redeliveries' = redeliveries + 1
        /\ delivery[d].status = "dead_letter"
    BY <1>11 DEF ReadForRedelivery
  <2>2. delivery[d] \in StoredDeliveries /\ delivery[d] # NoDelivery /\ delivery[d].version \in Nat
    BY <2>1 DEF WebhooksTypeOK, StoredDeliveries, NoDelivery
  <2>3. /\ out \in StoredDeliveries /\ out.status = "pending"
        /\ out.version = delivery[d].version + 1
    BY <2>2 DEF StoredDeliveries, DeliveryStatuses
  <2> HIDE DEF out
  <2>4. /\ rec \in WorkerRecords /\ rec.pc = "store" /\ rec.target = d /\ rec.read = delivery[d]
        /\ rec.outcome = out
    BY <2>2, <2>3 DEF WorkerRecords
  <2> HIDE DEF rec
  <2>5. worker'[w] = rec
    BY <2>1 DEF WebhooksTypeOK
  <2>6. AttemptOK(w)'
    BY <2>1, <2>2, <2>3, <2>4, <2>5 DEF AttemptOK, ReadOK
  <2>7. redeliveries' \in Nat /\ DeliveredOK'
    BY <2>1 DEF WebhooksTypeOK, DeliveredOK
  <2> QED BY <1>b, <1>c, <2>1, <2>4, <2>6, <2>7 DEF WebhooksTypeOK
<1>12. ASSUME NEW w \in Workers, Send(w)
      PROVE  WebhooksInv'
  <2> DEFINE d == worker[w].target
             read == worker[w].read
  <2>1. /\ worker[w].pc = "send"
        /\ UNCHANGED <<subscription, delivery, month, quotaClaims, quotaCount, redeliveries>>
    BY <1>12 DEF Send
  <2>2. d \in Deliveries /\ read \in StoredDeliveries /\ ReadOK(d, read)
    BY <2>1 DEF WebhooksTypeOK, WorkerRecords, Free, AttemptOK
  <2>3. PICK reply \in {"success", "retryable", "permanent", "timeout", "lost_reply"} :
          /\ worker' = [worker EXCEPT ![w] =
                [pc |-> "store", target |-> d, read |-> read,
                 outcome |-> IF reply = "success" THEN RecordSuccess(read)
                             ELSE RecordFailure(read, reply = "permanent")]]
          /\ accepted' = IF reply \in {"success", "lost_reply"}
                         THEN accepted \cup {d} ELSE accepted
    BY <1>12 DEF Send
  <2> DEFINE out == IF reply = "success" THEN RecordSuccess(read)
                    ELSE RecordFailure(read, reply = "permanent")
             rec == [pc |-> "store", target |-> d, read |-> read, outcome |-> out]
  <2> HIDE DEF d, read
  <2>4. /\ out \in StoredDeliveries /\ out.version = read.version + 1
        /\ out.status = "delivered" => reply = "success"
    <3>1. CASE reply = "success"
      BY <2>2, <3>1 DEF RecordSuccess, StoredDeliveries, DeliveryStatuses
    <3>2. CASE reply # "success"
      <4>1. out = RecordFailure(read, reply = "permanent")
        BY <3>2
      <4> DEFINE status == IF (reply = "permanent") \/ read.attempts + 1 >= MaximumAttempts
                           THEN "dead_letter" ELSE "retry_scheduled"
      <4>2. out = [status |-> status, due |-> FALSE, attempts |-> read.attempts + 1,
                   version |-> read.version + 1]
        BY <4>1 DEF RecordFailure
      <4>3. status \in {"dead_letter", "retry_scheduled"}
        OBVIOUS
      <4> HIDE DEF out, status
      <4> QED BY <2>2, <4>2, <4>3 DEF StoredDeliveries, DeliveryStatuses
    <3> QED BY <3>1, <3>2
  <2>5. worker' = [worker EXCEPT ![w] = rec]
    BY <2>3 DEF d, read
  <2> HIDE DEF out
  <2>6. /\ rec \in WorkerRecords /\ rec.pc = "store" /\ rec.target = d /\ rec.read = read
        /\ rec.outcome = out
    BY <2>2, <2>4 DEF WorkerRecords
  <2> HIDE DEF rec
  <2>7. worker'[w] = rec
    BY <2>5 DEF WebhooksTypeOK
  <2>8. accepted \subseteq accepted' /\ accepted' \subseteq Deliveries
        /\ (reply = "success" => d \in accepted')
    BY <2>2, <2>3 DEF WebhooksTypeOK, d, read
  <2>9. AttemptOK(w)'
    BY <2>1, <2>2, <2>4, <2>6, <2>7, <2>8 DEF AttemptOK, ReadOK
  <2>10. DeliveredOK'
    BY <2>1, <2>8 DEF DeliveredOK
  <2> QED BY <1>b, <1>c, <2>1, <2>5, <2>6, <2>8, <2>9, <2>10 DEF WebhooksTypeOK
<1>13. ASSUME NEW w \in Workers, UpdateDelivery(w)
      PROVE  WebhooksInv'
  <2> DEFINE d == worker[w].target
             out == worker[w].outcome
  <2>1. /\ worker[w].pc = "store"
        /\ delivery[d].version = worker[w].read.version
        /\ delivery' = [delivery EXCEPT ![d] = out]
        /\ worker' = [worker EXCEPT ![w] = Free]
        /\ UNCHANGED <<subscription, month, quotaClaims, quotaCount, accepted, redeliveries>>
    BY <1>13 DEF UpdateDelivery, DeliveryUnchanged
  <2>2. /\ d \in Deliveries /\ out \in StoredDeliveries
        /\ delivery[d] # NoDelivery
        /\ out.version = worker[w].read.version + 1
        /\ out.status = "delivered" => d \in accepted
    BY <2>1 DEF WebhooksTypeOK, WorkerRecords, Free, AttemptOK, ReadOK
  <2> HIDE DEF d, out
  <2>3. out.version = delivery[d].version + 1 /\ delivery[d].version \in Nat /\ out # NoDelivery
    BY <2>1, <2>2 DEF WebhooksTypeOK, StoredDeliveries, NoDelivery, DeliveryStatuses
  <2>4. /\ \A x \in Deliveries : delivery'[x] = IF x = d THEN out ELSE delivery[x]
        /\ delivery' \in [Deliveries -> {NoDelivery} \cup StoredDeliveries]
    BY <2>1, <2>2 DEF WebhooksTypeOK
  <2>5. DeliveriesAdvance
    <3>1. delivery'[d] = out /\ \A x \in Deliveries : x # d => delivery'[x] = delivery[x]
      BY <2>2, <2>4
    <3> QED BY <2>2, <2>3, <3>1, OneAdvances
  <2>6. DeliveredOK'
    BY <2>1, <2>2, <2>4 DEF DeliveredOK
  <2>7. Free \in WorkerRecords /\ Free.pc = "free"
    BY DEF Free, WorkerRecords
  <2>8. AttemptOK(w)'
    BY <2>1, <2>7 DEF AttemptOK, WebhooksTypeOK
  <2>9. \A x \in Deliveries : delivery'[x] # NoDelivery => delivery[x] # NoDelivery
    BY <2>2, <2>4
  <2> QED BY <1>b, <2>1, <2>4, <2>5, <2>6, <2>7, <2>8, <2>9 DEF WebhooksTypeOK
<1>14. CASE UNCHANGED webhookVars
  BY <1>14, QuotaKept DEF webhookVars, WebhooksTypeOK, BilledOK, AttemptOK, ReadOK, DeliveredOK
<1> QED
  BY <1>1, <1>2, <1>3, <1>4, <1>5, <1>6, <1>7, <1>8, <1>9, <1>10, <1>11, <1>12, <1>13, <1>14
  DEF WebhooksNext

\* Enqueue charges the month one unit for each delivery it creates and never
\* passes the limit, however often it is retried and whichever month ends
\* between the charge and the delivery.
THEOREM EveryDeliveryIsBilled == WebhooksSpec => []UnitsCoverDeliveries
<1>1. WebhooksInv => UnitsCoverDeliveries
  BY DEF WebhooksInv, BilledOK, Billed, QuotaOK, ClaimsOf, UnitsCoverDeliveries
<1> QED
  BY <1>1, WebhooksInitOK, WebhooksNextOK, PTL DEF WebhooksSpec

\* A delivery is marked delivered only after its endpoint accepted it, and no
\* worker, retry or manual redelivery that read it before opens it again.
THEOREM NoDeliveryIsReopened == WebhooksSpec => DeliveredStaysDelivered
<1>1. ASSUME WebhooksInv, [WebhooksNext]_webhookVars
      PROVE  [\A d \in Deliveries :
                /\ delivery'[d].status = "delivered" => d \in accepted
                /\ delivery[d].status = "delivered" => delivery'[d].status = "delivered"]_webhookVars
  <2> SUFFICES ASSUME NEW d \in Deliveries
               PROVE /\ delivery'[d].status = "delivered" => d \in accepted
                     /\ delivery[d].status = "delivered" => delivery'[d].status = "delivered"
    OBVIOUS
  <2> USE DEF WebhooksInv
  <2>1. CASE delivery'[d].status = delivery[d].status
    BY <1>1, <2>1 DEF DeliveredOK
  <2>2. CASE delivery' = delivery
    BY <2>1, <2>2
  <2>3. ASSUME NEW e \in Deliveries, BecomesDue(e)
        PROVE  delivery'[d].status = delivery[d].status
    BY <1>1, <2>3 DEF BecomesDue, WebhooksTypeOK, StoredDeliveries, NoDelivery
  <2>4. ASSUME NEW w \in Workers, CreateIfAbsent(w)
        PROVE  /\ delivery'[d].status = "delivered" => d \in accepted
               /\ delivery[d].status = "delivered" => delivery'[d].status = "delivered"
    BY <1>1, <2>1, <2>4 DEF CreateIfAbsent, WebhooksTypeOK, NoDelivery
  <2>5. ASSUME NEW w \in Workers, UpdateDelivery(w)
        PROVE  /\ delivery'[d].status = "delivered" => d \in accepted
               /\ delivery[d].status = "delivered" => delivery'[d].status = "delivered"
    <3>1. CASE d = worker[w].target
      BY <1>1, <2>5, <3>1 DEF UpdateDelivery, DeliveryUnchanged, AttemptOK, ReadOK, WebhooksTypeOK
    <3>2. CASE d # worker[w].target
      BY <1>1, <2>1, <2>5, <3>2 DEF UpdateDelivery, WebhooksTypeOK
    <3> QED BY <3>1, <3>2
  <2> QED
    BY <1>1, <2>1, <2>2, <2>3, <2>4, <2>5
    DEF WebhooksNext, webhookVars, MonthEnds, DisableSubscription, ReadSubscriptions, BeginEnqueue,
        BeginAttempt, ReadForRedelivery, CreateSubscription, ConsumeWebhookDelivery,
        RateLimitExceeded, Send, CutOffWorker
<1> QED
  BY <1>1, WebhooksInitOK, WebhooksNextOK, PTL DEF WebhooksSpec, DeliveredStaysDelivered

-----------------------------------------------------------------------------
\* Sessions of sellers

\* The tokens of the provider, and the requests that present one.
TokenRecords == [family : Families, key : SigningKeys, expires : Nat]
VisitRecords ==
    {Away} \cup [pc : {"key", "known", "claims", "revocation", "admitted"}, token : TokenRecords]
           \cup [pc : {"store"}, token : TokenRecords, started : Nat,
                 document : SUBSET SigningKeys]

\* Every variable has its type.
SessionsTypeOK ==
    /\ now \in Nat
    /\ tokens \subseteq TokenRecords
    /\ published \subseteq SigningKeys
    /\ withdrawnAt \in [SigningKeys -> Nat]
    /\ cache \in [keys : SUBSET SigningKeys, until : Nat]
    /\ revokedUntil \in [Families -> Nat]
    /\ visit \in [Visits -> VisitRecords]

\* A key document on its way has what was published when it was asked for.
FetchOK(v) ==
    visit[v].pc = "store" =>
        /\ visit[v].started <= now
        /\ now <= visit[v].started + FetchTimeout
        /\ \A k \in visit[v].document : k \in published \/ withdrawnAt[k] >= visit[v].started

\* A withdrawn key in the cache is from a fetch that began before, and a request
\* that is about to look there finds the cache as it was just filled.
CacheOK ==
    /\ cache.until <= now + CacheTTL
    /\ \A k \in cache.keys :
         k \in published \/ cache.until <= withdrawnAt[k] + FetchTimeout + CacheTTL
    /\ (\E v \in Visits : visit[v].pc = "known") => now < cache.until

\* The record of a family is the latest expiry that logged out; fetches and
\* the cache are as above.
SessionsInv ==
    /\ SessionsTypeOK
    /\ loggedOut = revokedUntil
    /\ \A v \in Visits : FetchOK(v)
    /\ CacheOK

\* Nobody logged out, no key is withdrawn and the cache is empty.
LEMMA SessionsInitOK == SessionsInit => SessionsInv
<1> SUFFICES ASSUME SessionsInit PROVE SessionsInv
  OBVIOUS
<1>1. SessionsTypeOK /\ loggedOut = revokedUntil
  BY DEF SessionsInit, SessionsTypeOK, VisitRecords, Away
<1>2. \A v \in Visits : visit[v].pc = "away"
  BY DEF SessionsInit, Away
<1>3. CacheOK
  BY <1>2, SessionsAssumption DEF SessionsInit, CacheOK
<1> QED BY <1>1, <1>2, <1>3 DEF SessionsInv, FetchOK

\* A step that only moves request v on, but not into the fetch or to the
\* second lookup.
LEMMA VisitStep ==
    ASSUME SessionsInv, NEW v \in Visits, NEW x \in VisitRecords,
           x.pc \notin {"store", "known"},
           visit' = [visit EXCEPT ![v] = x],
           UNCHANGED <<now, tokens, published, withdrawnAt, cache, revokedUntil, loggedOut>>
    PROVE  SessionsInv'
<1>1. SessionsTypeOK'
  BY DEF SessionsInv, SessionsTypeOK
<1>2. visit'[v] = x /\ \A w \in Visits \ {v} : visit'[w] = visit[w]
  BY DEF SessionsInv, SessionsTypeOK
<1>3. ASSUME NEW w \in Visits PROVE FetchOK(w)'
  BY <1>2 DEF SessionsInv, FetchOK
<1>4. CacheOK'
  BY <1>2 DEF SessionsInv, CacheOK
<1> QED BY <1>1, <1>3, <1>4 DEF SessionsInv

\* The request that goes on to pc still presents its token.
LEMMA GoesType ==
    ASSUME SessionsInv, NEW v \in Visits, VisitAt(v, "key") \/ VisitAt(v, "known")
               \/ VisitAt(v, "claims") \/ VisitAt(v, "revocation"),
           NEW pc \in {"claims", "revocation", "admitted"}, VisitGoes(v, pc)
    PROVE  \E x \in VisitRecords : x.pc = pc /\ visit' = [visit EXCEPT ![v] = x]
<1>1. PICK y : y = visit[v]
  OBVIOUS
<1>2. y \in [pc : {"key", "known", "claims", "revocation", "admitted"}, token : TokenRecords]
  BY <1>1 DEF SessionsInv, SessionsTypeOK, VisitRecords, Away, VisitAt
<1>3. /\ [y EXCEPT !.pc = pc]
           \in [pc : {"key", "known", "claims", "revocation", "admitted"}, token : TokenRecords]
      /\ [y EXCEPT !.pc = pc].pc = pc
  BY <1>2
<1>4. visit' = [visit EXCEPT ![v] = [y EXCEPT !.pc = pc]]
  BY <1>1 DEF VisitGoes
<1> QED BY <1>3, <1>4 DEF VisitRecords

\* A request under way has a token.
LEMMA TokenType ==
    ASSUME SessionsInv, NEW v \in Visits, visit[v] # Away
    PROVE  visit[v].token \in TokenRecords
BY DEF SessionsInv, SessionsTypeOK, VisitRecords

\* A request that is refused disturbs nothing.
LEMMA TurnedAway ==
    ASSUME SessionsInv, NEW v \in Visits, TurnAway(v),
           UNCHANGED <<now, tokens, published, withdrawnAt, cache, revokedUntil, loggedOut>>
    PROVE  SessionsInv'
<1>1. Away \in VisitRecords /\ Away.pc \notin {"store", "known"}
  BY DEF VisitRecords, Away
<1> QED BY <1>1, VisitStep DEF TurnAway

\* Time stops for a fetch that reached its timeout, and for a request that is
\* about to look in the cache it has filled.
LEMMA TimePassesOK == SessionsInv /\ TimePasses => SessionsInv'
<1> SUFFICES ASSUME SessionsInv, TimePasses PROVE SessionsInv'
  OBVIOUS
<1>1. /\ now \in Nat /\ now' = now + 1
      /\ UNCHANGED <<tokens, published, withdrawnAt, cache, revokedUntil, loggedOut, visit>>
  BY DEF SessionsInv, SessionsTypeOK, TimePasses
<1>2. SessionsTypeOK' /\ loggedOut' = revokedUntil'
  BY <1>1 DEF SessionsInv, SessionsTypeOK
<1>3. ASSUME NEW v \in Visits PROVE FetchOK(v)'
  <2>1. ASSUME visit[v].pc = "store"
        PROVE  visit[v].started \in Nat /\ now < visit[v].started + FetchTimeout
    BY <2>1 DEF TimePasses, VisitAt, SessionsInv, SessionsTypeOK, VisitRecords, Away
  <2> QED BY <1>1, <2>1, SessionsAssumption DEF SessionsInv, FetchOK
<1>4. CacheOK'
  <2>1. cache.until \in Nat /\ CacheTTL \in Nat
    BY SessionsAssumption DEF SessionsInv, SessionsTypeOK
  <2>2. \A v \in Visits : visit[v].pc # "known"
    BY DEF TimePasses, VisitAt
  <2> QED BY <1>1, <2>1, <2>2 DEF SessionsInv, CacheOK
<1> QED BY <1>2, <1>3, <1>4 DEF SessionsInv

\* The provider issues a token.
LEMMA IssueTokenOK ==
    ASSUME SessionsInv, NEW f \in Families, NEW k \in SigningKeys, IssueToken(f, k)
    PROVE  SessionsInv'
<1>1. UNCHANGED <<now, published, withdrawnAt, cache, revokedUntil, loggedOut, visit>>
  BY DEF IssueToken
<1>2. [family |-> f, key |-> k, expires |-> now + TokenLifetime] \in TokenRecords
  BY SessionsAssumption DEF TokenRecords, SessionsInv, SessionsTypeOK
<1>3. SessionsTypeOK'
  BY <1>1, <1>2 DEF IssueToken, SessionsInv, SessionsTypeOK
<1>4. (\A v \in Visits : FetchOK(v)') /\ CacheOK'
  BY <1>1 DEF SessionsInv, FetchOK, CacheOK
<1> QED BY <1>1, <1>3, <1>4 DEF SessionsInv

\* A key is withdrawn now: after every fetch that is under way began, and no
\* longer than its lifetime before the cache ends.
LEMMA RotateKeysOK ==
    ASSUME SessionsInv, NEW k \in SigningKeys, RotateKeys(k)
    PROVE  SessionsInv'
<1>1. UNCHANGED <<now, tokens, cache, revokedUntil, loggedOut, visit>>
  BY DEF RotateKeys
<1>2. SessionsTypeOK'
  BY <1>1 DEF RotateKeys, SessionsInv, SessionsTypeOK
<1>3. \A x \in SigningKeys :
        \/ x \in published /\ withdrawnAt'[x] = now
        \/ x \notin published /\ withdrawnAt'[x] = withdrawnAt[x]
  BY DEF RotateKeys
<1>4. ASSUME NEW v \in Visits PROVE FetchOK(v)'
  <2> SUFFICES ASSUME visit[v].pc = "store", NEW x \in visit[v].document
               PROVE  withdrawnAt'[x] >= visit[v].started
    BY <1>1 DEF SessionsInv, FetchOK
  <2>1. x \in SigningKeys /\ visit[v].started \in Nat /\ visit[v].started <= now /\ now \in Nat
    BY DEF SessionsInv, SessionsTypeOK, VisitRecords, Away, FetchOK
  <2>2. CASE x \in published
    BY <1>3, <2>1, <2>2
  <2>3. CASE x \notin published
    BY <1>3, <2>1, <2>3 DEF SessionsInv, FetchOK
  <2> QED BY <2>2, <2>3
<1>5. CacheOK'
  <2>1. ASSUME NEW x \in cache.keys
        PROVE  cache.until <= withdrawnAt'[x] + FetchTimeout + CacheTTL
    <3>1. x \in SigningKeys /\ cache.until \in Nat /\ now \in Nat /\ cache.until <= now + CacheTTL
      BY DEF SessionsInv, SessionsTypeOK, CacheOK
    <3>2. FetchTimeout \in Nat /\ CacheTTL \in Nat
      BY SessionsAssumption
    <3>3. CASE x \in published
      BY <1>3, <3>1, <3>2, <3>3
    <3>4. CASE x \notin published
      BY <1>3, <3>1, <3>4 DEF SessionsInv, CacheOK
    <3> QED BY <3>3, <3>4
  <2> QED BY <1>1, <2>1 DEF SessionsInv, CacheOK
<1> QED BY <1>1, <1>2, <1>4, <1>5 DEF SessionsInv

\* A request arrives with a token.
LEMMA AuthenticateSellerOK ==
    ASSUME SessionsInv, NEW v \in Visits, NEW token \in tokens, AuthenticateSeller(v, token)
    PROVE  SessionsInv'
<1>1. [pc |-> "key", token |-> token] \in VisitRecords
  BY DEF SessionsInv, SessionsTypeOK, VisitRecords
<1> QED BY <1>1, VisitStep DEF AuthenticateSeller

\* The key is found in a fresh cache, or the document is asked for.
LEMMA PublicKeyOK ==
    ASSUME SessionsInv, NEW v \in Visits, PublicKey(v)
    PROVE  SessionsInv'
<1>1. UNCHANGED <<now, tokens, published, withdrawnAt, cache, revokedUntil, loggedOut>>
  BY DEF PublicKey
<1>2. CASE Fresh(visit[v].token.key)
  <2>1. PICK x \in VisitRecords : x.pc = "claims" /\ visit' = [visit EXCEPT ![v] = x]
    BY <1>2, GoesType DEF PublicKey
  <2> QED BY <1>1, <2>1, VisitStep
<1>3. CASE ~Fresh(visit[v].token.key)
  <2>1. PICK t : t = visit[v].token
    OBVIOUS
  <2> DEFINE x == [pc |-> "store", token |-> t, started |-> now, document |-> published]
  <2>2. visit' = [visit EXCEPT ![v] = x]
    BY <1>3, <2>1 DEF PublicKey
  <2>3. t \in TokenRecords
    BY <2>1, TokenType DEF PublicKey, VisitAt, Away
  <2>4. x \in VisitRecords
    BY <2>3 DEF VisitRecords, SessionsInv, SessionsTypeOK
  <2>5. x.pc = "store" /\ x.started = now /\ x.document = published
    OBVIOUS
  <2> HIDE DEF x
  <2>6. SessionsTypeOK'
    BY <1>1, <2>2, <2>4 DEF SessionsInv, SessionsTypeOK
  <2>7. visit'[v] = x /\ \A w \in Visits \ {v} : visit'[w] = visit[w]
    BY <2>2 DEF SessionsInv, SessionsTypeOK
  <2>8. ASSUME NEW w \in Visits PROVE FetchOK(w)'
    <3>1. CASE w = v
      <4>1. now \in Nat /\ FetchTimeout \in Nat
        BY SessionsAssumption DEF SessionsInv, SessionsTypeOK
      <4> QED BY <1>1, <2>5, <2>7, <3>1, <4>1 DEF FetchOK
    <3>2. CASE w # v
      BY <1>1, <2>7, <3>2 DEF SessionsInv, FetchOK
    <3> QED BY <3>1, <3>2
  <2>9. CacheOK'
    BY <1>1, <2>5, <2>7 DEF SessionsInv, CacheOK
  <2> QED BY <1>1, <2>6, <2>8, <2>9 DEF SessionsInv
<1> QED BY <1>2, <1>3

\* The document was asked for at most FetchTimeout ago, and lives CacheTTL from
\* now.
LEMMA RefreshKeysOK ==
    ASSUME SessionsInv, NEW v \in Visits, RefreshKeys(v)
    PROVE  SessionsInv'
<1>1. UNCHANGED <<now, tokens, published, withdrawnAt, revokedUntil, loggedOut>>
  BY DEF RefreshKeys
<1>2. PICK y : y = visit[v]
  OBVIOUS
<1>3. /\ y \in [pc : {"store"}, token : TokenRecords, started : Nat,
                document : SUBSET SigningKeys]
      /\ now \in Nat /\ FetchTimeout \in Nat /\ CacheTTL \in Nat \ {0}
  BY <1>2, SessionsAssumption
  DEF RefreshKeys, VisitAt, SessionsInv, SessionsTypeOK, VisitRecords, Away
<1>4. /\ cache' = [keys |-> y.document, until |-> now + CacheTTL]
      /\ visit' = [visit EXCEPT ![v] = [pc |-> "known", token |-> y.token]]
  BY <1>2 DEF RefreshKeys
<1>5. [pc |-> "known", token |-> y.token] \in VisitRecords
  BY <1>3 DEF VisitRecords
<1>6. SessionsTypeOK'
  BY <1>1, <1>3, <1>4, <1>5 DEF SessionsInv, SessionsTypeOK
<1>7. /\ visit'[v] = [pc |-> "known", token |-> y.token]
      /\ \A w \in Visits \ {v} : visit'[w] = visit[w]
  BY <1>4 DEF SessionsInv, SessionsTypeOK
<1>8. ASSUME NEW w \in Visits PROVE FetchOK(w)'
  BY <1>1, <1>7 DEF SessionsInv, FetchOK
<1>9. CacheOK'
  <2>1. cache'.keys = y.document /\ cache'.until = now + CacheTTL
    BY <1>4
  <2>2. ASSUME NEW k \in y.document, k \notin published
        PROVE  now + CacheTTL <= withdrawnAt[k] + FetchTimeout + CacheTTL
    <3>1. /\ y.started \in Nat /\ now <= y.started + FetchTimeout
          /\ withdrawnAt[k] >= y.started
      BY <1>2, <1>3, <2>2 DEF SessionsInv, FetchOK
    <3>2. withdrawnAt[k] \in Nat
      BY <1>3 DEF SessionsInv, SessionsTypeOK
    <3> QED BY <1>3, <3>1, <3>2
  <2>3. now < now + CacheTTL /\ now + CacheTTL <= now' + CacheTTL
    BY <1>1, <1>3
  <2> QED BY <1>1, <2>1, <2>2, <2>3 DEF CacheOK
<1> QED BY <1>1, <1>6, <1>8, <1>9 DEF SessionsInv

\* The condition of the put never shortens a record, so it holds the latest
\* expiry that logged out.
LEMMA RevokeOK ==
    ASSUME SessionsInv, NEW v \in Visits, Revoke(v)
    PROVE  SessionsInv'
<1>1. UNCHANGED <<now, tokens, published, withdrawnAt, cache>> /\ visit' = [visit EXCEPT ![v] = Away]
  BY DEF Revoke, TurnAway
<1>2. PICK f, e : f = visit[v].token.family /\ e = visit[v].token.expires
  OBVIOUS
<1>3. f \in Families /\ e \in Nat
  BY <1>2, TokenType DEF Revoke, VisitAt, Away, TokenRecords
<1>4. /\ revokedUntil' = [revokedUntil EXCEPT ![f] = Extended(f, e)]
      /\ loggedOut' = [loggedOut EXCEPT ![f] = IF loggedOut[f] < e THEN e ELSE loggedOut[f]]
  BY <1>2 DEF Revoke
<1>5. loggedOut' = revokedUntil' /\ revokedUntil' \in [Families -> Nat]
  BY <1>3, <1>4 DEF Extended, SessionsInv, SessionsTypeOK
<1>6. SessionsTypeOK'
  BY <1>1, <1>5 DEF SessionsInv, SessionsTypeOK, VisitRecords
<1>7. visit'[v] = Away /\ Away.pc = "away" /\ \A w \in Visits \ {v} : visit'[w] = visit[w]
  BY <1>1 DEF SessionsInv, SessionsTypeOK, Away
<1>8. ASSUME NEW w \in Visits PROVE FetchOK(w)'
  BY <1>1, <1>7 DEF SessionsInv, FetchOK
<1>9. CacheOK'
  BY <1>1, <1>7 DEF SessionsInv, CacheOK
<1> QED BY <1>5, <1>6, <1>8, <1>9 DEF SessionsInv

\* The other steps of a request go on with its token or turn it away.
LEMMA CheckOK ==
    ASSUME SessionsInv, NEW v \in Visits,
           VerifyLocally(v) \/ KeyIsKnown(v) \/ ValidateClaims(v) \/ Authenticate(v) \/ EndVisit(v)
    PROVE  SessionsInv'
<1>1. UNCHANGED <<now, tokens, published, withdrawnAt, cache, revokedUntil, loggedOut>>
  BY DEF VerifyLocally, KeyIsKnown, ValidateClaims, Authenticate, EndVisit
<1>2. \/ TurnAway(v)
      \/ \E pc \in {"claims", "revocation", "admitted"} :
           /\ VisitGoes(v, pc)
           /\ \/ VisitAt(v, "key") \/ VisitAt(v, "known")
              \/ VisitAt(v, "claims") \/ VisitAt(v, "revocation")
  BY DEF VerifyLocally, KeyIsKnown, ValidateClaims, Authenticate, EndVisit
<1>3. CASE TurnAway(v)
  BY <1>1, <1>3, TurnedAway
<1>4. CASE ~TurnAway(v)
  <2>1. PICK pc \in {"claims", "revocation", "admitted"} :
           /\ VisitGoes(v, pc)
           /\ \/ VisitAt(v, "key") \/ VisitAt(v, "known")
              \/ VisitAt(v, "claims") \/ VisitAt(v, "revocation")
    BY <1>2, <1>4
  <2>2. PICK x \in VisitRecords : x.pc = pc /\ visit' = [visit EXCEPT ![v] = x]
    BY <2>1, GoesType
  <2> QED BY <1>1, <2>1, <2>2, VisitStep
<1> QED BY <1>3, <1>4

\* Every step keeps the invariant.
LEMMA SessionsNextOK == SessionsInv /\ [SessionsNext]_sessionVars => SessionsInv'
<1> SUFFICES ASSUME SessionsInv, [SessionsNext]_sessionVars PROVE SessionsInv'
  OBVIOUS
<1>1. CASE UNCHANGED sessionVars
  BY <1>1 DEF sessionVars, SessionsInv, SessionsTypeOK, FetchOK, CacheOK
<1>2. CASE SessionsNext
  BY <1>2, TimePassesOK, IssueTokenOK, RotateKeysOK, AuthenticateSellerOK, PublicKeyOK,
     RefreshKeysOK, RevokeOK, CheckOK
  DEF SessionsNext
<1> QED BY <1>1, <1>2

\* A step that moves request v on is a step of request v.
LEMMA WhoMoves ==
    ASSUME SessionsInv, [SessionsNext]_sessionVars, NEW v \in Visits, visit'[v] # visit[v],
           visit'[v].pc # "away"
    PROVE  \/ \E token \in tokens : AuthenticateSeller(v, token)
           \/ PublicKey(v) \/ VerifyLocally(v) \/ RefreshKeys(v) \/ KeyIsKnown(v)
           \/ ValidateClaims(v) \/ Authenticate(v)
<1>1. visit' # visit /\ visit \in [Visits -> VisitRecords]
  BY DEF SessionsInv, SessionsTypeOK
<1>2. PICK w \in Visits :
        \/ \E token \in tokens : AuthenticateSeller(w, token)
        \/ PublicKey(w) \/ VerifyLocally(w) \/ RefreshKeys(w) \/ KeyIsKnown(w)
        \/ ValidateClaims(w) \/ Authenticate(w) \/ Revoke(w) \/ EndVisit(w)
  BY <1>1 DEF SessionsNext, sessionVars, TimePasses, IssueToken, RotateKeys
<1>3. \E x : visit' = [visit EXCEPT ![w] = x]
  BY <1>2
  DEF AuthenticateSeller, PublicKey, VerifyLocally, RefreshKeys, KeyIsKnown, ValidateClaims,
      Authenticate, Revoke, EndVisit, VisitGoes, TurnAway
<1>4. w = v
  BY <1>1, <1>3
<1>5. ~TurnAway(v)
  BY <1>1 DEF TurnAway, Away
<1> QED BY <1>2, <1>4, <1>5 DEF Revoke, EndVisit

\* A request that is admitted passed the record of its family, which holds the
\* latest expiry that logged out.
LEMMA AdmissionOK ==
    ASSUME SessionsInv, [SessionsNext]_sessionVars, NEW v \in Visits, Admitted(v)
    PROVE  \/ visit[v].token.expires <= now
           \/ visit[v].token.expires > loggedOut[visit[v].token.family]
<1>1. visit[v].pc = "revocation" /\ visit'[v].pc = "admitted"
  BY DEF Admitted, VisitAt
<1>2. /\ visit[v].token \in TokenRecords /\ now \in Nat /\ revokedUntil \in [Families -> Nat]
      /\ loggedOut = revokedUntil
  BY <1>1, TokenType DEF Away, SessionsInv, SessionsTypeOK
<1>3. Authenticate(v)
  BY <1>1, WhoMoves
  DEF AuthenticateSeller, PublicKey, VerifyLocally, RefreshKeys, KeyIsKnown, ValidateClaims,
      VisitAt, Away
<1>4. ~IsRevoked(visit[v].token.family)
  BY <1>1, <1>3 DEF Authenticate, TurnAway, Away, SessionsInv, SessionsTypeOK
<1>5. /\ visit[v].token.family \in Families /\ visit[v].token.expires \in Nat
      /\ revokedUntil[visit[v].token.family] \in Nat
      /\ ~(revokedUntil[visit[v].token.family] > now)
  BY <1>2, <1>4 DEF IsRevoked, TokenRecords
<1> QED BY <1>2, <1>5

\* A key is trusted while it is in the cache and the cache is fresh.
LEMMA TrustOK ==
    ASSUME SessionsInv, [SessionsNext]_sessionVars, NEW v \in Visits, Trusted(v)
    PROVE  \/ visit[v].token.key \in published
           \/ now <= withdrawnAt[visit[v].token.key] + FetchTimeout + CacheTTL
<1>1. visit[v].pc \in {"key", "known"} /\ visit'[v].pc = "claims"
  BY DEF Trusted
<1>2. PublicKey(v) \/ KeyIsKnown(v)
  <2>1. \/ \E token \in tokens : AuthenticateSeller(v, token)
        \/ PublicKey(v) \/ VerifyLocally(v) \/ RefreshKeys(v) \/ KeyIsKnown(v)
        \/ ValidateClaims(v) \/ Authenticate(v)
    BY <1>1, WhoMoves
  <2>2. ~VerifyLocally(v)
    <3>1. SUFFICES ASSUME VerifyLocally(v) PROVE FALSE
      OBVIOUS
    <3>2. ~TurnAway(v)
      BY <1>1 DEF TurnAway, Away, SessionsInv, SessionsTypeOK
    <3>3. VisitGoes(v, "revocation") /\ VisitAt(v, "key")
      BY <3>1, <3>2 DEF VerifyLocally
    <3>4. PICK x \in VisitRecords : x.pc = "revocation" /\ visit' = [visit EXCEPT ![v] = x]
      BY <3>3, GoesType
    <3> QED BY <1>1, <3>4 DEF SessionsInv, SessionsTypeOK
  <2> QED BY <1>1, <2>1, <2>2
      DEF AuthenticateSeller, RefreshKeys, ValidateClaims, Authenticate, VisitAt, Away
<1>3. visit[v].token \in TokenRecords
  BY <1>1, TokenType DEF Away
<1>4. PICK k \in SigningKeys : k = visit[v].token.key
  BY <1>3 DEF TokenRecords
<1>5. k \in cache.keys /\ now < cache.until
  <2>1. CASE PublicKey(v)
    BY <1>1, <1>4, <2>1 DEF PublicKey, Fresh, SessionsInv, SessionsTypeOK
  <2>2. CASE KeyIsKnown(v)
    <3>1. now < cache.until
      BY <2>2 DEF KeyIsKnown, VisitAt, SessionsInv, CacheOK
    <3>2. ~TurnAway(v)
      BY <1>1 DEF TurnAway, Away, SessionsInv, SessionsTypeOK
    <3> QED BY <1>4, <2>2, <3>1, <3>2 DEF KeyIsKnown
  <2> QED BY <1>2, <2>1, <2>2
<1>6. k \in published \/ cache.until <= withdrawnAt[k] + FetchTimeout + CacheTTL
  BY <1>5 DEF SessionsInv, CacheOK
<1>7. /\ now \in Nat /\ cache.until \in Nat /\ withdrawnAt[k] \in Nat
      /\ FetchTimeout \in Nat /\ CacheTTL \in Nat
  BY SessionsAssumption DEF SessionsInv, SessionsTypeOK
<1> QED BY <1>4, <1>5, <1>6, <1>7

\* A token that logged out, with the tokens of its family that expire no later,
\* is not admitted again, and a withdrawn key is trusted no longer than the
\* cache lives, in whatever order logouts and key documents arrive.
THEOREM WithdrawnTrustEnds == SessionsSpec => WithdrawnTrustIsRefused
<1>1. SessionsInv /\ [SessionsNext]_sessionVars =>
        [\A v \in Visits :
           LET token == visit[v].token
           IN  /\ Admitted(v) =>
                     token.expires <= now \/ token.expires > loggedOut[token.family]
               /\ Trusted(v) =>
                     \/ token.key \in published
                     \/ now <= withdrawnAt[token.key] + FetchTimeout + CacheTTL]_sessionVars
  BY AdmissionOK, TrustOK
<1>2. SessionsSpec => []SessionsInv
  BY SessionsInitOK, SessionsNextOK, PTL DEF SessionsSpec
<1> QED BY <1>1, <1>2, PTL DEF SessionsSpec, WithdrawnTrustIsRefused

-----------------------------------------------------------------------------
(* Usage: invoices over consecutive periods *)

\* What a concatenation holds.
LEMMA CatOK ==
    ASSUME NEW p \in Seq(Int), NEW q \in Seq(Int),
           NEW m \in Nat, m = Len(p), NEW n \in Nat, n = Len(q)
    PROVE  /\ p \o q \in Seq(Int) /\ Len(p \o q) = m + n
           /\ \A i \in 1..m : (p \o q)[i] = p[i]
           /\ \A i \in m+1..m+n : (p \o q)[i] = q[i - m]
OBVIOUS

\* An instant is rendered as its second and then the fraction, or at once the "Z".
LEMMA RenderedOK ==
    ASSUME NEW instant, instant.second \in Int, instant.fraction \in 0..99,
           NEW r, r = Rendered(instant)
    PROVE  /\ r \in Seq(Int)
           /\ Len(r) \in Nat /\ Len(r) >= 2 /\ (instant.fraction = 0 => Len(r) = 2)
           /\ r[1] = instant.second
           /\ r[2] = IF instant.fraction = 0 THEN 90 ELSE 46
<1>0. PICK s \in Int, f \in 0..99 : s = instant.second /\ f = instant.fraction
  OBVIOUS
<1>1. PICK tens \in Nat, ones \in Nat : tens = f \div 10 /\ ones = f % 10
  OBVIOUS
<1>2. PICK x : x = CASE f = 0 -> <<>>
                     [] f # 0 /\ ones = 0 -> <<46, 48 + tens>>
                     [] OTHER -> <<46, 48 + tens, 48 + ones>>
  OBVIOUS
<1>3. Rendered(instant) = (<<s>> \o x) \o <<90>>
  BY <1>0, <1>1, <1>2 DEF Rendered, Dot, Zero, Zed
<1>4. PICK n \in Nat : /\ n = Len(x) /\ x \in Seq(Int)
                       /\ IF f = 0 THEN n = 0 ELSE n >= 2 /\ x[1] = 46
  <2>1. CASE f = 0
    <3>1. x = <<>>
      BY <1>2, <2>1
    <3> QED BY <2>1, <3>1
  <2>2. CASE f # 0 /\ ones = 0
    <3>1. x = <<46, 48 + tens>>
      BY <1>2, <2>2
    <3>2. Len(x) = 2 /\ x \in Seq(Int) /\ x[1] = 46
      BY <3>1
    <3> QED BY <2>2, <3>2
  <2>3. CASE f # 0 /\ ones # 0
    <3>1. x = <<46, 48 + tens, 48 + ones>>
      BY <1>2, <2>3
    <3>2. Len(x) = 3 /\ x \in Seq(Int) /\ x[1] = 46
      BY <3>1
    <3> QED BY <2>3, <3>2
  <2> QED BY <2>1, <2>2, <2>3
<1>5. PICK p : p = <<s>> \o x
  OBVIOUS
<1>6. /\ p \in Seq(Int) /\ Len(p) = 1 + n /\ p[1] = s
      /\ f # 0 => p[2] = 46
  <2>1. <<s>> \in Seq(Int) /\ Len(<<s>>) = 1 /\ <<s>>[1] = s
    OBVIOUS
  <2>2. /\ p \in Seq(Int) /\ Len(p) = 1 + n
        /\ \A i \in 1..1 : p[i] = <<s>>[i]
        /\ \A i \in 1+1..1+n : p[i] = x[i - 1]
    BY <1>4, <1>5, <2>1, CatOK
  <2> QED BY <1>4, <2>1, <2>2
<1>7. PICK k \in Nat : k = Len(p) /\ k = 1 + n
  BY <1>6
<1>8. <<90>> \in Seq(Int) /\ Len(<<90>>) = 1 /\ <<90>>[1] = 90
  OBVIOUS
<1>9. r = p \o <<90>>
  BY <1>3, <1>5
<1>10. /\ r \in Seq(Int) /\ Len(r) = k + 1
       /\ \A i \in 1..k : r[i] = p[i]
       /\ \A i \in k+1..k+1 : r[i] = <<90>>[i - k]
  BY <1>6, <1>7, <1>8, <1>9, CatOK
<1>11. r[k + 1] = 90
  <2>1. (k + 1) - k = 1 /\ k + 1 \in k+1..k+1
    BY <1>7
  <2> QED BY <1>8, <1>10, <2>1
<1>12. r[1] = s /\ r[2] = IF f = 0 THEN 90 ELSE 46
  <2>1. 1 \in 1..k /\ r[1] = p[1]
    BY <1>7, <1>10
  <2>2. CASE f = 0
    <3>1. k + 1 = 2
      BY <1>4, <1>7, <2>2
    <3> QED BY <1>6, <1>11, <2>1, <2>2, <3>1
  <2>3. CASE f # 0
    <3>1. 2 \in 1..k
      BY <1>4, <1>7, <2>3
    <3> QED BY <1>6, <1>10, <2>1, <2>3, <3>1
  <2> QED BY <2>2, <2>3
<1> QED BY <1>0, <1>4, <1>7, <1>10, <1>12

\* A whole second is written without a fraction.
LEMMA RenderedSecond ==
    ASSUME NEW s \in Int, NEW r, r = Rendered(WholeSecond(s))
    PROVE  Len(r) = 2 /\ r[1] = s /\ r[2] = 90
<1>1. WholeSecond(s).fraction = 0 /\ WholeSecond(s).second = s
  BY DEF WholeSecond
<1>2. PICK w : w = WholeSecond(s)
  OBVIOUS
<1>3. w.second \in Int /\ w.fraction \in 0..99
  BY <1>1, <1>2
<1> QED BY <1>1, <1>2, <1>3, RenderedOK

\* What decides how the key of an event compares with a bound of a window.
LEMMA EventKeyOK ==
    ASSUME NEW instant \in Instants, NEW id \in Nat,
           NEW key, key = EventKey(instant, id)
    PROVE  /\ \E n \in Nat : n = Len(key) /\ n >= 3
           /\ key[1] = instant.second
           /\ key[2] = IF instant.fraction = 0 THEN 90 ELSE 46
<1>1. instant.second \in Int /\ instant.fraction \in 0..99
  <2>1. Fractions \subseteq 0..99 /\ 0..LastSecond \subseteq Int
    BY UsageAssumption
  <2>2. instant.second \in 0..LastSecond /\ instant.fraction \in Fractions
    BY DEF Instants
  <2> QED BY <2>1, <2>2
<1>2. PICK r : r = Rendered(instant)
  OBVIOUS
<1>3. PICK m \in Nat : m = Len(r) /\ m >= 2
  BY <1>1, <1>2, RenderedOK
<1>4. /\ r \in Seq(Int) /\ r[1] = instant.second
      /\ r[2] = IF instant.fraction = 0 THEN 90 ELSE 46
  BY <1>1, <1>2, RenderedOK
<1>5. <<35, id>> \in Seq(Int) /\ Len(<<35, id>>) = 2
  OBVIOUS
<1>6. key = r \o <<35, id>>
  BY <1>2 DEF EventKey, Hash
<1>7. Len(key) = m + 2 /\ \A i \in 1..m : key[i] = r[i]
  BY <1>3, <1>4, <1>5, <1>6, CatOK
<1> QED BY <1>1, <1>3, <1>4, <1>7

\* Byte order against a bound of two bytes, from either side.
LEMMA BeforeBound ==
    ASSUME NEW key, NEW n \in Nat, n = Len(key), n >= 3,
           NEW a \in Int, a = key[1], NEW b \in Int, b = key[2],
           NEW s \in Int, NEW r, Len(r) = 2, r[1] = s, r[2] = 90
    PROVE  Precedes(key, r) <=> a < s \/ (a = s /\ b < 90)
<1>2. Len(r) = 2 /\ r[1] = s /\ r[2] = 90
  OBVIOUS
<1>3. ASSUME NEW m \in 0..2
      PROVE  (/\ m <= n
              /\ \A i \in 1..m : key[i] = r[i]
              /\ \/ m = n /\ m < 2
                 \/ m < n /\ m < 2 /\ key[m + 1] < r[m + 1])
             <=> (m = 0 /\ a < s) \/ (m = 1 /\ a = s /\ b < 90)
  <2>1. m = 0 \/ m = 1 \/ m = 2
    OBVIOUS
  <2>2. CASE m = 0
    BY <1>2, <2>2
  <2>3. CASE m = 1
    <3>1. (\A i \in 1..1 : key[i] = r[i]) <=> a = s
      BY <1>2
    <3> QED BY <1>2, <2>3, <3>1
  <2>4. CASE m = 2
    BY <2>4
  <2> QED BY <2>1, <2>2, <2>3, <2>4
<1>4. Precedes(key, r) <=> \E m \in 0..2 : (m = 0 /\ a < s) \/ (m = 1 /\ a = s /\ b < 90)
  BY <1>2, <1>3 DEF Precedes
<1> QED BY <1>4

\* The same from the other side.
LEMMA AfterBound ==
    ASSUME NEW key, NEW n \in Nat, n = Len(key), n >= 3,
           NEW a \in Int, a = key[1], NEW b \in Int, b = key[2],
           NEW s \in Int, NEW r, Len(r) = 2, r[1] = s, r[2] = 90
    PROVE  Precedes(r, key) <=> s < a \/ (a = s /\ b >= 90)
<1>2. Len(r) = 2 /\ r[1] = s /\ r[2] = 90
  OBVIOUS
<1>3. ASSUME NEW m \in 0..n
      PROVE  (/\ m <= 2
              /\ \A i \in 1..m : r[i] = key[i]
              /\ \/ m = 2 /\ m < n
                 \/ m < 2 /\ m < n /\ r[m + 1] < key[m + 1])
             <=> \/ m = 0 /\ s < a
                 \/ m = 1 /\ a = s /\ 90 < b
                 \/ m = 2 /\ a = s /\ b = 90
  <2>1. m = 0 \/ m = 1 \/ m = 2 \/ m > 2
    OBVIOUS
  <2>2. CASE m = 0
    BY <1>2, <2>2
  <2>3. CASE m = 1
    <3>1. (\A i \in 1..1 : r[i] = key[i]) <=> a = s
      BY <1>2
    <3> QED BY <1>2, <2>3, <3>1
  <2>4. CASE m = 2
    <3>1. (\A i \in 1..2 : r[i] = key[i]) <=> a = s /\ b = 90
      BY <1>2
    <3> QED BY <2>4, <3>1
  <2>5. CASE m > 2
    BY <2>5
  <2> QED BY <2>1, <2>2, <2>3, <2>4, <2>5
<1>4. Precedes(r, key) <=> \E m \in 0..n : \/ m = 0 /\ s < a
                                           \/ m = 1 /\ a = s /\ 90 < b
                                           \/ m = 2 /\ a = s /\ b = 90
  BY <1>2, <1>3 DEF Precedes
<1>5. 0 \in 0..n /\ 1 \in 0..n /\ 2 \in 0..n
  OBVIOUS
<1> QED BY <1>4, <1>5

\* An event lies on one side of a whole second, in one of the two windows that
\* meet there: at the second itself its key comes first with a fraction, last
\* without.
LEMMA OneSide ==
    ASSUME NEW instant \in Instants, NEW id \in Nat, NEW key, key = EventKey(instant, id),
           NEW s \in Int, NEW r, r = Rendered(WholeSecond(s))
    PROVE  /\ Precedes(key, r) <=> ~Precedes(r, key)
           /\ s = -1 => ~Precedes(key, r)
           /\ s = LastSecond + 1 => ~Precedes(r, key)
<1>1. Len(r) = 2 /\ r[1] = s /\ r[2] = 90
  BY RenderedSecond
<1>2. PICK n \in Nat : n = Len(key) /\ n >= 3
  BY EventKeyOK
<1>3. key[1] = instant.second /\ key[2] = IF instant.fraction = 0 THEN 90 ELSE 46
  BY EventKeyOK
<1>4. PICK a \in 0..LastSecond : a = key[1]
  BY <1>3 DEF Instants
<1>5. PICK b \in {46, 90} : b = key[2]
  BY <1>3
<1>6. a \in Int /\ b \in Int /\ a >= 0 /\ a <= LastSecond /\ LastSecond \in Nat
  BY UsageAssumption
<1>7. Precedes(key, r) <=> a < s \/ (a = s /\ b < 90)
  BY <1>1, <1>2, <1>4, <1>5, <1>6, BeforeBound
<1>8. Precedes(r, key) <=> s < a \/ (a = s /\ b >= 90)
  BY <1>1, <1>2, <1>4, <1>5, <1>6, AfterBound
<1> QED BY <1>6, <1>7, <1>8

\* What the meter, its claims and the calls in progress hold: an event has a
\* claim, and no two events are of the same transaction.
UsageInv ==
    /\ IsFiniteSet(meter)
    /\ fulfilledAt \in [MeteredTransactions -> Instants \cup {Never}]
    /\ plan \in UsagePlans
    /\ sources \in [MeteredTransactions -> Nat]
    /\ recorder \in [Recorders -> {NoRecorder} \cup
          [pc : {"create"}, source : MeteredTransactions, plan : UsagePlans, at : Instants]]
    /\ \A e \in meter : /\ e.id \in Nat /\ e.at \in Instants
                        /\ e.source \in MeteredTransactions /\ sources[e.source] # 0
    /\ \A e, f \in meter : e.source = f.source => e = f

\* The meter starts empty.
LEMMA UsageInitOK == UsageInit => UsageInv
BY FS_EmptySet DEF UsageInit, UsageInv

\* Every step preserves the invariant; the one that matters stores an event
\* only where no claim was.
LEMMA UsageNextOK == UsageInv /\ [UsageNext]_usageVars => UsageInv'
<1> SUFFICES ASSUME UsageInv, [UsageNext]_usageVars PROVE UsageInv'
  OBVIOUS
<1>1. CASE UNCHANGED usageVars
  BY <1>1 DEF UsageInv, usageVars
<1>2. ASSUME NEW t \in MeteredTransactions, NEW i \in Instants, Fulfilled(t, i) PROVE UsageInv'
  BY <1>2 DEF Fulfilled, UsageInv
<1>3. ASSUME NEW p \in UsagePlans, PlanChanges(p) PROVE UsageInv'
  BY <1>3 DEF PlanChanges, UsageInv
<1>4. ASSUME NEW c \in Recorders, NEW t \in MeteredTransactions, PrepareUsage(c, t) PROVE UsageInv'
  <2>1. fulfilledAt[t] \in Instants
    BY <1>4 DEF PrepareUsage, UsageInv
  <2>2. [pc |-> "create", source |-> t, plan |-> plan, at |-> fulfilledAt[t]]
          \in [pc : {"create"}, source : MeteredTransactions, plan : UsagePlans, at : Instants]
    BY <2>1 DEF UsageInv
  <2> QED BY <1>4, <2>2 DEF PrepareUsage, UsageInv
<1>5. ASSUME NEW c \in Recorders, CreateUsageIfAbsent(c) PROVE UsageInv'
  <2>1. PICK t : t = recorder[c].source
    OBVIOUS
  <2>2. PICK id : id = Cardinality(meter) + 1
    OBVIOUS
  <2>3. t \in MeteredTransactions /\ recorder[c].at \in Instants
    <3>1. recorder[c] # NoRecorder
      BY <1>5 DEF CreateUsageIfAbsent, NoRecorder
    <3> QED BY <2>1, <3>1 DEF UsageInv
  <2>4. id \in Nat /\ id # 0
    BY <2>2, FS_CardinalityType DEF UsageInv
  <2>5. recorder' \in [Recorders -> {NoRecorder} \cup
          [pc : {"create"}, source : MeteredTransactions, plan : UsagePlans, at : Instants]]
    BY <1>5 DEF CreateUsageIfAbsent, UsageInv
  <2>6. CASE SourceIsNew(t)
    <3>1. PICK new : new = [id |-> id, source |-> t, plan |-> recorder[c].plan, at |-> recorder[c].at]
      OBVIOUS
    <3>2. /\ sources' = [sources EXCEPT ![t] = id] /\ meter' = meter \cup {new}
          /\ UNCHANGED <<fulfilledAt, plan>>
      BY <1>5, <2>1, <2>2, <2>6, <3>1 DEF CreateUsageIfAbsent
    <3>3. \A e \in meter : e.source # t
      BY <2>6 DEF SourceIsNew, UsageInv
    <3>4. IsFiniteSet(meter')
      BY <3>2, FS_AddElement DEF UsageInv
    <3>5. sources' \in [MeteredTransactions -> Nat] /\ sources'[t] # 0
          /\ \A u \in MeteredTransactions : u # t => sources'[u] = sources[u]
      BY <2>3, <2>4, <3>2 DEF UsageInv
    <3>6. \A e \in meter' : /\ e.id \in Nat /\ e.at \in Instants
                            /\ e.source \in MeteredTransactions /\ sources'[e.source] # 0
      BY <2>3, <2>4, <3>1, <3>2, <3>5 DEF UsageInv
    <3>7. \A e, f \in meter' : e.source = f.source => e = f
      BY <3>1, <3>2, <3>3 DEF UsageInv
    <3> QED BY <2>5, <3>2, <3>4, <3>5, <3>6, <3>7 DEF UsageInv
  <2>7. CASE ~SourceIsNew(t)
    <3>1. UNCHANGED <<fulfilledAt, plan, sources, meter>>
      BY <1>5, <2>1, <2>7 DEF CreateUsageIfAbsent
    <3> QED BY <2>5, <3>1 DEF UsageInv
  <2> QED BY <2>6, <2>7
<1>6. ASSUME NEW c \in Recorders, UsageIsLost(c) PROVE UsageInv'
  BY <1>6 DEF UsageIsLost, UsageInv
<1> QED BY <1>1, <1>2, <1>3, <1>4, <1>5, <1>6 DEF UsageNext

\* Two sets that share nothing, counted together.
LEMMA CountsAddUp ==
    ASSUME NEW S, IsFiniteSet(S), NEW T, IsFiniteSet(T), S \cap T = {}
    PROVE  Cardinality(S) + Cardinality(T) = Cardinality(S \cup T)
<1>1. Cardinality(S \cup T) = Cardinality(S) + Cardinality(T) - Cardinality(S \cap T)
  BY FS_Union
<1>2. Cardinality(S \cap T) = 0
  BY FS_EmptySet
<1>3. PICK m \in Nat, n \in Nat : m = Cardinality(S) /\ n = Cardinality(T)
  BY FS_CardinalityType
<1> QED BY <1>1, <1>2, <1>3

\* The windows of two consecutive periods share no event, and together are the
\* window of both.
LEMMA WindowsSplit ==
    ASSUME UsageInv, NEW s \in 0..LastSecond, NEW before, before = WholeSecond(-1),
           NEW after, after = WholeSecond(LastSecond + 1)
    PROVE  /\ ListBySellerWindow(before, WholeSecond(s)) \cup
                 ListBySellerWindow(WholeSecond(s), after) = ListBySellerWindow(before, after)
           /\ ListBySellerWindow(before, WholeSecond(s)) \cap
                 ListBySellerWindow(WholeSecond(s), after) = {}
<1>1. -1 \in Int /\ LastSecond + 1 \in Int /\ s \in Int
  BY UsageAssumption
<1>2. ASSUME NEW e \in meter
      PROVE  LET key == EventKey(e.at, e.id) IN
             /\ Precedes(key, Rendered(WholeSecond(s))) <=> ~Precedes(Rendered(WholeSecond(s)), key)
             /\ ~Precedes(key, Rendered(before))
             /\ ~Precedes(Rendered(after), key)
  <2>1. e.at \in Instants /\ e.id \in Nat
    BY DEF UsageInv
  <2>2. PICK key : key = EventKey(e.at, e.id)
    OBVIOUS
  <2>3. PICK r : r = Rendered(WholeSecond(s))
    OBVIOUS
  <2>4. Precedes(key, r) <=> ~Precedes(r, key)
    BY <1>1, <2>1, <2>2, <2>3, OneSide
  <2>5. PICK b : b = Rendered(before)
    OBVIOUS
  <2>6. ~Precedes(key, b)
    BY <1>1, <2>1, <2>2, <2>5, OneSide
  <2>7. PICK a : a = Rendered(after)
    OBVIOUS
  <2>8. ~Precedes(a, key)
    BY <1>1, <2>1, <2>2, <2>7, OneSide
  <2> QED BY <2>2, <2>3, <2>4, <2>5, <2>6, <2>7, <2>8
<1> QED BY <1>2 DEF ListBySellerWindow, Between

\* Every unit is on exactly one of two consecutive invoices, and no delivery is
\* billed twice: CreateIfAbsent, ListBySellerWindow, ExportInvoice.
THEOREM InvoicesAreExact == UsageSpec => []InvoicesAddUp
<1>1. UsageInv => InvoicesAddUp
  <2> SUFFICES ASSUME UsageInv PROVE InvoicesAddUp
    OBVIOUS
  <2>1. PICK before, after : before = WholeSecond(-1) /\ after = WholeSecond(LastSecond + 1)
    OBVIOUS
  <2>2. ASSUME NEW s \in 0..LastSecond, NEW p \in UsagePlans
        PROVE  ExportInvoice(before, WholeSecond(s))[p] + ExportInvoice(WholeSecond(s), after)[p]
                 = ExportInvoice(before, after)[p]
    <3>1. PICK S, T, W : /\ S = ListBySellerWindow(before, WholeSecond(s))
                         /\ T = ListBySellerWindow(WholeSecond(s), after)
                         /\ W = ListBySellerWindow(before, after)
      OBVIOUS
    <3>2. S \cup T = W /\ S \cap T = {} /\ S \subseteq meter /\ T \subseteq meter
      <4>1. S \subseteq meter /\ T \subseteq meter
        BY <3>1 DEF ListBySellerWindow
      <4> QED BY <2>1, <3>1, <4>1, WindowsSplit
    <3>3. PICK SP, TP, WP : /\ SP = {e \in S : e.plan = p} /\ TP = {e \in T : e.plan = p}
                            /\ WP = {e \in W : e.plan = p}
      OBVIOUS
    <3>4. SP \cup TP = WP /\ SP \cap TP = {} /\ SP \subseteq meter /\ TP \subseteq meter
      BY <3>2, <3>3
    <3>5. IsFiniteSet(SP) /\ IsFiniteSet(TP)
      BY <3>4, FS_Subset DEF UsageInv
    <3>6. Cardinality(SP) + Cardinality(TP) = Cardinality(WP)
      BY <3>4, <3>5, CountsAddUp
    <3> QED BY <3>1, <3>3, <3>6 DEF ExportInvoice, aggregateInvoiceLineItems
  <2>3. \A e, f \in ListBySellerWindow(before, after) : e.source = f.source => e = f
    BY DEF ListBySellerWindow, UsageInv
  <2> QED BY <2>1, <2>2, <2>3 DEF InvoicesAddUp
<1> QED BY <1>1, UsageInitOK, UsageNextOK, PTL DEF UsageSpec

-----------------------------------------------------------------------------
(* Listing: walks along cursors *)

\* The less-than relation of the natural numbers, and its induction for sets.
LEMMA LeastNatural ==
    ASSUME NEW T \in SUBSET Nat, T # {}
    PROVE  \E m \in T : \A k \in T : m <= k
<1> DEFINE R == OpToRel(<, Nat)
<1>1. \A x, y \in Nat : <<x, y>> \in R <=> x < y
  BY DEF OpToRel
<1>2. IsWellFoundedOn(R, Nat)
  BY NatLessThanWellFounded
<1> HIDE DEF R
<1>3. PICK m \in T : \A k \in T : <<k, m>> \notin R
  BY <1>2, WFMin
<1>4. ASSUME NEW k \in T PROVE m <= k
  <2>1. k \in Nat /\ m \in Nat
    OBVIOUS
  <2>2. ~(k < m)
    BY <1>1, <1>3, <2>1
  <2> QED BY <2>1, <2>2
<1> QED BY <1>4

-----------------------------------------------------------------------------
\* Scans

\* The greatest of some keys exists.
LEMMA MaxOK ==
    ASSUME NEW T \in SUBSET Keys, T # {}
    PROVE  Max(T) \in T /\ \A k \in T : k <= Max(T)
<1>1. Keys \subseteq Nat /\ LastKey \in Nat /\ \A k \in Keys : LastKey - k \in Nat
  BY ListingAssumption DEF Keys
<1> DEFINE U == {LastKey - k : k \in T}
<1>2. U \in SUBSET Nat /\ U # {}
  BY <1>1
<1>3. PICK m \in U : \A u \in U : m <= u
  BY <1>2, LeastNatural
<1>4. PICK x \in T : m = LastKey - x
  BY <1>3
<1>5. \A k \in T : k <= x
  BY <1>1, <1>3, <1>4
<1>6. \E y \in T : \A k \in T : y >= k
  BY <1>1, <1>5
<1>7. Max(T) \in T /\ \A k \in T : Max(T) >= k
  BY <1>6 DEF Max
<1> QED BY <1>1, <1>7

\* The least of some keys exists.
LEMMA MinOK ==
    ASSUME NEW T \in SUBSET Keys, T # {}
    PROVE  Min(T) \in T /\ \A k \in T : Min(T) <= k
<1>1. T \in SUBSET Nat
  BY ListingAssumption DEF Keys
<1>2. \E y \in T : \A k \in T : y <= k
  BY <1>1, LeastNatural
<1> QED BY <1>2 DEF Min

\* Keys are finite in number.
LEMMA KeysFinite ==
    ASSUME NEW T \in SUBSET Keys
    PROVE  IsFiniteSet(T) /\ Cardinality(T) \in Nat
<1>1. IsFiniteSet(Keys)
  BY FS_Interval, ListingAssumption DEF Keys
<1> QED BY <1>1, FS_Subset, FS_CardinalityType

\* A page is a beginning of the scan, and all of it if the page is short.
LEMMA LeadingOK ==
    ASSUME NEW T \in SUBSET Keys, NEW limit \in Nat
    PROVE  /\ Leading(T, limit) \subseteq T
           /\ \A k \in Leading(T, limit), j \in T : j < k => j \in Leading(T, limit)
           /\ Cardinality(Leading(T, limit)) < limit => Leading(T, limit) = T
           /\ Cardinality(Leading(T, limit)) >= Cardinality(T) => Leading(T, limit) = T
<1> DEFINE Before(k) == {j \in T : j < k}
<1>1. PICK L : L = {k \in T : Cardinality(Before(k)) < limit}
  OBVIOUS
<1>2. L = Leading(T, limit)
  BY <1>1 DEF Leading
<1>k. Keys \subseteq Nat
  BY ListingAssumption DEF Keys
<1>3. L \subseteq T /\ T \subseteq Nat /\ L \subseteq Keys
  BY <1>1, <1>k
<1>4. ASSUME NEW k \in L, NEW j \in T, j < k PROVE j \in L
  <2>0. j \in Nat /\ k \in Nat /\ k \in T /\ \A x \in T : x \in Nat
    BY <1>3
  <2>1. Before(j) \subseteq Before(k) /\ Before(k) \subseteq Keys
    <3>1. \A x \in T : x < j => x < k
      BY <1>4, <2>0
    <3> QED BY <3>1
  <2>2. Cardinality(Before(j)) <= Cardinality(Before(k))
    BY <2>1, KeysFinite, FS_Subset
  <2>3. Cardinality(Before(j)) \in Nat /\ Cardinality(Before(k)) \in Nat
    BY <2>1, KeysFinite
  <2>4. Cardinality(Before(k)) < limit
    BY <1>1
  <2> QED BY <1>1, <2>2, <2>3, <2>4
<1>5. ASSUME Cardinality(L) < limit, L # T PROVE FALSE
  <2>1. PICK k \in T \ L : \A j \in T \ L : k <= j
    BY <1>3, <1>5, LeastNatural
  <2>2. Before(k) \subseteq L
    <3>1. \A j \in T : j \in Nat
      BY <1>3
    <3> QED BY <2>1, <3>1
  <2>3. Cardinality(Before(k)) <= Cardinality(L)
    BY <1>3, <2>2, KeysFinite, FS_Subset
  <2>4. Cardinality(Before(k)) \in Nat /\ Cardinality(L) \in Nat
    BY <1>3, <2>2, KeysFinite
  <2> QED BY <1>1, <1>5, <2>1, <2>3, <2>4
<1>6. ASSUME Cardinality(L) >= Cardinality(T) PROVE L = T
  <2>1. IsFiniteSet(T) /\ Cardinality(T) \in Nat /\ Cardinality(L) \in Nat
    BY <1>3, KeysFinite
  <2>2. Cardinality(L) <= Cardinality(T)
    BY <1>3, <2>1, FS_Subset
  <2>3. Cardinality(T) = Cardinality(L)
    BY <1>6, <2>1, <2>2
  <2> QED BY <1>3, <2>1, <2>3, FS_Subset
<1> QED BY <1>2, <1>3, <1>4, <1>5, <1>6

-----------------------------------------------------------------------------
\* The walk

\* The lists that are walked.
Lists == {"directory", "audit", "deliveries", "transactions", "memory"}

\* The reader was shown nothing after its cursor, and before it what was there
\* all along.
ListingInv ==
    /\ kind \in Lists
    /\ hidden \subseteq entries /\ entries \subseteq Keys
    /\ kind \notin Filtered => hidden = {}
    /\ steady \subseteq entries \ hidden
    /\ walk \in [pc : {"page", "end", "refused"}, after : Nat, batch : Nat, count : Nat]
    /\ shown \in [Keys -> Nat]
    /\ \A k \in Keys :
         /\ shown[k] <= 1
         /\ k > walk.after => shown[k] = 0
         /\ k \in steady /\ (k <= walk.after \/ walk.pc = "end") => shown[k] = 1

\* The walk goes on after the keys it has shown, which are all that could be
\* shown up to its new cursor, or all there are when it ends.
Shows(keys) ==
    /\ shown' = Show(keys)
    /\ walk' \in [pc : {"page", "end"}, after : Nat, batch : Nat, count : Nat]
    /\ walk'.after >= walk.after
    /\ keys \subseteq {k \in entries \ hidden : k > walk.after /\ k <= walk'.after}
    /\ \A k \in entries \ hidden :
         k > walk.after /\ (k <= walk'.after \/ walk'.pc = "end") => k \in keys
    /\ UNCHANGED <<kind, entries, hidden, steady>>

\* Such a page preserves the invariant.
LEMMA ShowsOK ==
    ASSUME ListingInv, NEW keys, Shows(keys)
    PROVE  ListingInv'
<1>1. \A k \in Keys : k \in Nat
  BY ListingAssumption DEF Keys
<1>2. PICK c : c = walk'.after
  OBVIOUS
<1>3. walk.after \in Nat /\ c \in Nat /\ c >= walk.after /\ keys \subseteq Keys
  BY <1>2 DEF Shows, ListingInv
<1>4. ASSUME NEW k \in Keys
      PROVE  /\ shown'[k] \in Nat /\ shown'[k] <= 1
             /\ k > c => shown'[k] = 0
             /\ k \in steady /\ (k <= c \/ walk'.pc = "end") => shown'[k] = 1
  <2>1. shown'[k] = IF k \in keys THEN shown[k] + 1 ELSE shown[k]
    BY DEF Shows, Show
  <2>2. k \in Nat /\ shown[k] \in Nat /\ shown[k] <= 1 /\ (k > walk.after => shown[k] = 0)
        /\ (k \in steady /\ k <= walk.after => shown[k] = 1)
    BY <1>1 DEF ListingInv
  <2>3. k \in steady => k \in entries \ hidden
    BY DEF ListingInv
  <2>4. k \in steady /\ k > walk.after /\ (k <= c \/ walk'.pc = "end") => k \in keys
    BY <1>2, <2>3 DEF Shows
  <2>5. k \in keys => k > walk.after /\ k <= c
    BY <1>2 DEF Shows
  <2> QED BY <1>3, <2>1, <2>2, <2>4, <2>5
<1>5. shown' \in [Keys -> Nat]
  BY <1>4 DEF Shows, Show
<1> QED BY <1>2, <1>4, <1>5 DEF Shows, ListingInv

\* The cursor after the first keys of a scan stands between them and the rest.
LEMMA CursorOK ==
    ASSUME ListingInv, NEW scan \in SUBSET {k \in entries : k > walk.after},
           NEW keys \in SUBSET scan, \A k \in keys, j \in scan : j < k => j \in keys
    PROVE  /\ CursorAfter(keys) \in Nat /\ CursorAfter(keys) >= walk.after
           /\ \A k \in keys : k <= CursorAfter(keys)
           /\ \A k \in scan : k <= CursorAfter(keys) => k \in keys
<1>1. Keys \subseteq Nat /\ walk.after \in Nat /\ scan \subseteq Keys
  BY ListingAssumption DEF Keys, ListingInv
<1>2. \A k \in scan : k \in Nat /\ k > walk.after
  BY <1>1
<1>3. CASE keys = {}
  BY <1>1, <1>2, <1>3 DEF CursorAfter
<1>4. CASE keys # {}
  <2>1. PICK c \in keys : c = Max(keys) /\ \A k \in keys : k <= c
    BY <1>1, <1>4, MaxOK
  <2>2. CursorAfter(keys) = c
    BY <1>4, <2>1 DEF CursorAfter
  <2>3. \A k \in scan : k <= c => k \in keys
    BY <1>2, <2>1
  <2> QED BY <1>1, <1>2, <2>1, <2>2, <2>3
<1> QED BY <1>3, <1>4

\* The candidates of a query are the next entries, all of them if it is exhausted.
LEMMA CandidatesOK ==
    ASSUME ListingInv, NEW limit \in Nat \ {0}, NEW page, page = Candidates(walk.after, limit)
    PROVE  /\ page \subseteq {k \in entries : k > walk.after}
           /\ \A k \in page : \A j \in entries : j > walk.after /\ j < k => j \in page
           /\ Exhausted(page, limit) \/ page = {} => page = {k \in entries : k > walk.after}
<1>1. PICK T : T = {k \in entries : k > walk.after}
  OBVIOUS
<1>2. T \in SUBSET Keys /\ page = Leading(T, limit) /\ limit \in Nat
  BY <1>1 DEF ListingInv, Candidates
<1>3. page = {} => Cardinality(page) < limit
  BY FS_EmptySet
<1> QED BY <1>1, <1>2, <1>3, LeadingOK DEF Exhausted

\* A page that shows what is visible of the first keys of a scan, in which
\* everything visible is.
LEMMA PageOK ==
    ASSUME ListingInv, UNCHANGED <<kind, entries, hidden, steady>>,
           NEW scan \in SUBSET {k \in entries : k > walk.after},
           {k \in entries \ hidden : k > walk.after} \subseteq scan,
           NEW keys \in SUBSET scan, \A k \in keys, j \in scan : j < k => j \in keys,
           shown' = Show(keys \ hidden),
           walk' \in [pc : {"page", "end"}, after : Nat, batch : Nat, count : Nat],
           walk'.after = CursorAfter(keys),
           walk'.pc = "end" => keys = scan
    PROVE  ListingInv'
<1>1. /\ CursorAfter(keys) >= walk.after
      /\ \A k \in keys : k <= CursorAfter(keys)
      /\ \A k \in scan : k <= CursorAfter(keys) => k \in keys
  BY CursorOK
<1>2. keys \ hidden \subseteq {k \in entries \ hidden : k > walk.after /\ k <= walk'.after}
  BY <1>1
<1>3. \A k \in entries \ hidden :
         k > walk.after /\ (k <= walk'.after \/ walk'.pc = "end") => k \in keys \ hidden
  BY <1>1
<1>4. Shows(keys \ hidden)
  BY <1>1, <1>2, <1>3 DEF Shows
<1> QED BY <1>4, ShowsOK

\* What EndPage makes of the walk.
LEMMA EndPageOK ==
    ASSUME NEW more, NEW cursor \in Nat, EndPage(more, cursor)
    PROVE  /\ walk'.after = cursor
           /\ walk'.pc = (IF more THEN "page" ELSE "end")
           /\ walk' \in [pc : {"page", "end"}, after : Nat, batch : Nat, count : Nat]
BY DEF EndPage

\* A page that is one query.
LEMMA QueryOK ==
    ASSUME ListingInv, NEW page, page = Candidates(walk.after, PageLimit),
           shown' = Show(page \ hidden),
           EndPage(~Exhausted(page, PageLimit) /\ page # {}, CursorAfter(page)),
           UNCHANGED <<kind, entries, hidden, steady>>
    PROVE  ListingInv'
<1>1. PICK scan : scan = {k \in entries : k > walk.after}
  OBVIOUS
<1>2. PageLimit \in Nat \ {0}
  BY ListingAssumption
<1>3. /\ page \subseteq scan
      /\ \A k \in page, j \in scan : j < k => j \in page
      /\ Exhausted(page, PageLimit) \/ page = {} => page = scan
  BY <1>1, <1>2, CandidatesOK
<1>4. CursorAfter(page) \in Nat
  BY <1>1, <1>3, CursorOK
<1>5. /\ walk'.after = CursorAfter(page)
      /\ walk'.pc = "end" => page = scan
      /\ walk' \in [pc : {"page", "end"}, after : Nat, batch : Nat, count : Nat]
  BY <1>3, <1>4, EndPageOK
<1> QED BY <1>1, <1>3, <1>5, PageOK

\* At first nothing is shown, and everything visible is steady.
LEMMA ListingInitOK == ListingInit => ListingInv
<1> SUFFICES ASSUME ListingInit PROVE ListingInv
  OBVIOUS
<1>1. hidden \subseteq entries
  <2>1. CASE kind \in Filtered
    BY <2>1 DEF ListingInit
  <2>2. CASE kind \notin Filtered
    BY <2>2 DEF ListingInit
  <2> QED BY <2>1, <2>2
<1>2. \A k \in Keys : shown[k] = 0 /\ k > 0
  BY ListingAssumption DEF ListingInit, Keys
<1>3. /\ walk \in [pc : {"page", "end", "refused"}, after : Nat, batch : Nat, count : Nat]
      /\ walk.after = 0 /\ walk.pc = "page"
      /\ shown \in [Keys -> Nat]
  BY DEF ListingInit
<1>4. /\ kind \in Lists /\ entries \subseteq Keys /\ steady \subseteq entries \ hidden
      /\ kind \notin Filtered => hidden = {}
  BY DEF ListingInit, Lists
<1>5. \A k \in Keys : k \in Nat
  BY ListingAssumption DEF Keys
<1> QED BY <1>1, <1>2, <1>3, <1>4, <1>5 DEF ListingInv

\* Every step of a writer or of the reader preserves the invariant.
LEMMA ListingNextOK == ListingInv /\ [ListingNext]_listingVars => ListingInv'
<1> SUFFICES ASSUME ListingInv, [ListingNext]_listingVars PROVE ListingInv'
  OBVIOUS
<1>1. CASE UNCHANGED listingVars
  BY <1>1 DEF ListingInv, listingVars
<1>2. ASSUME NEW k \in Keys, AddEntry(k) PROVE ListingInv'
  BY <1>2 DEF AddEntry, ListingInv
<1>3. ASSUME NEW k \in Keys, RemoveEntry(k) PROVE ListingInv'
  BY <1>3 DEF RemoveEntry, ListingInv
<1>4. ASSUME NEW k \in Keys, HideEntry(k) PROVE ListingInv'
  BY <1>4 DEF HideEntry, ListingInv
<1>5. ASSUME NEW k \in Keys, RevealEntry(k) PROVE ListingInv'
  BY <1>5 DEF RevealEntry, ListingInv
<1>6. CASE AuditListBySeller \/ DeliveriesListBySeller
  <2>1. PICK page : page = Candidates(walk.after, PageLimit)
    OBVIOUS
  <2>2. /\ shown' = Show(page) /\ UNCHANGED <<kind, entries, hidden, steady>>
        /\ EndPage(~Exhausted(page, PageLimit) /\ page # {}, CursorAfter(page))
        /\ kind \notin Filtered
    BY <1>6, <2>1 DEF AuditListBySeller, DeliveriesListBySeller, Filtered
  <2>3. page = page \ hidden
    BY <2>2 DEF ListingInv
  <2>4. shown' = Show(page \ hidden)
    BY <2>2, <2>3
  <2> QED BY <2>1, <2>2, <2>4, QueryOK
<1>7. CASE QueryTable
  <2>1. PICK page : page = Candidates(walk.after, PageLimit)
    OBVIOUS
  <2>2. /\ shown' = Show(page \ hidden) /\ UNCHANGED <<kind, entries, hidden, steady>>
        /\ EndPage(~Exhausted(page, PageLimit) /\ page # {}, CursorAfter(page))
    <3>1. {k \in page : Matches(k)} = page \ hidden
      BY DEF Matches
    <3> QED BY <1>7, <2>1, <3>1 DEF QueryTable
  <2> QED BY <2>1, <2>2, QueryOK
<1>8. CASE QueryMemory
  <2>1. PICK rest : rest = {k \in entries \ hidden : k > walk.after}
    OBVIOUS
  <2>2. PICK page : page = Leading(rest, PageLimit)
    OBVIOUS
  <2>3. rest = {k \in {j \in entries : Matches(j)} : k > walk.after}
    BY <2>1 DEF Matches
  <2>4. UNCHANGED <<kind, entries, hidden, steady>>
    BY <1>8 DEF QueryMemory
  <2>5. CASE /\ shown' = Show(page)
             /\ EndPage(Cardinality(page) < Cardinality(rest), CursorAfter(page))
    <3>1. rest \in SUBSET Keys /\ PageLimit \in Nat
      BY <2>1, ListingAssumption DEF ListingInv
    <3>2. /\ page \subseteq rest
          /\ \A k \in page, j \in rest : j < k => j \in page
          /\ Cardinality(page) >= Cardinality(rest) => page = rest
      BY <2>2, <3>1, LeadingOK
    <3>3. Cardinality(page) \in Nat /\ Cardinality(rest) \in Nat /\ page \in SUBSET Keys
      BY <3>1, <3>2, KeysFinite
    <3>4. rest \in SUBSET {k \in entries : k > walk.after} /\ page \ hidden = page
      BY <2>1, <3>2
    <3>5. CursorAfter(page) \in Nat
      BY <3>2, <3>4, CursorOK
    <3>6. /\ walk'.after = CursorAfter(page)
          /\ walk'.pc = "end" => page = rest
          /\ walk' \in [pc : {"page", "end"}, after : Nat, batch : Nat, count : Nat]
      <4>1. PICK more : more = (Cardinality(page) < Cardinality(rest))
        OBVIOUS
      <4>2. PICK cursor \in Nat : cursor = CursorAfter(page)
        BY <3>5
      <4>3. EndPage(more, cursor)
        BY <2>5, <4>1, <4>2
      <4>4. /\ walk'.after = cursor
            /\ walk'.pc = (IF more THEN "page" ELSE "end")
            /\ walk' \in [pc : {"page", "end"}, after : Nat, batch : Nat, count : Nat]
        BY <4>3, EndPageOK
      <4>5. ~more => page = rest
        <5>1. PICK m \in Nat, n \in Nat : m = Cardinality(page) /\ n = Cardinality(rest)
          BY <3>3
        <5>2. m < n \/ m >= n
          OBVIOUS
        <5>3. m >= n => page = rest
          BY <3>2, <5>1
        <5> QED BY <4>1, <5>1, <5>2, <5>3
      <4> QED BY <4>2, <4>4, <4>5
    <3> QED BY <2>1, <2>4, <2>5, <3>2, <3>4, <3>6, PageOK
  <2>6. CASE walk' = [walk EXCEPT !.pc = "refused"] /\ UNCHANGED shown
    BY <2>4, <2>6 DEF ListingInv
  <2> QED BY <1>8, <2>2, <2>3, <2>5, <2>6 DEF QueryMemory
<1>9. CASE ListPublicProducts
  <2>1. PICK candidates : candidates = Candidates(walk.after, BatchSize)
    OBVIOUS
  <2>2. PICK full : full = {k \in candidates :
                              walk.count + Cardinality({j \in candidates : j <= k /\ Available(j)}) = PageLimit}
    OBVIOUS
  <2>3. PICK looked : looked = IF full = {} THEN candidates ELSE {j \in candidates : j <= Min(full)}
    OBVIOUS
  <2>4. PICK scan : scan = {k \in entries : k > walk.after}
    OBVIOUS
  <2>5. /\ candidates \subseteq scan
        /\ \A k \in candidates, j \in scan : j < k => j \in candidates
        /\ Exhausted(candidates, BatchSize) \/ candidates = {} => candidates = scan
    BY <2>1, <2>4, CandidatesOK, ListingAssumption
  <2>6. scan \in SUBSET Keys /\ \A k \in scan : k \in Nat
    <3>1. Keys \subseteq Nat
      BY ListingAssumption DEF Keys
    <3>2. scan \subseteq Keys
      BY <2>4 DEF ListingInv
    <3> QED BY <3>1, <3>2
  <2>7. looked \subseteq scan /\ \A k \in looked, j \in scan : j < k => j \in looked
    <3>1. full # {} => Min(full) \in Nat
      BY <2>2, <2>5, <2>6, MinOK
    <3> QED BY <2>3, <2>5, <2>6, <3>1
  <2>8. CursorAfter(looked) \in Nat
    BY <2>4, <2>7, CursorOK
  <2>9. {k \in looked : Available(k)} = looked \ hidden
    BY DEF Available
  <2>10. Cardinality(looked \ hidden) \in Nat
    BY <2>6, <2>7, KeysFinite
  <2>11. /\ shown' = Show(looked \ hidden)
         /\ UNCHANGED <<kind, entries, hidden, steady>>
         /\ \/ /\ full # {}
               /\ EndPage(FullPageHasMore(candidates, looked), CursorAfter(looked))
            \/ /\ full = {}
               /\ EndPage(~Exhausted(candidates, BatchSize) /\ candidates # {}, CursorAfter(looked))
            \/ walk' = [walk EXCEPT !.after = CursorAfter(looked), !.batch = @ + 1,
                                    !.count = @ + Cardinality(looked \ hidden)]
    BY <1>9, <2>1, <2>2, <2>3, <2>9 DEF ListPublicProducts
  <2>12. /\ walk'.after = CursorAfter(looked)
         /\ walk'.pc = "end" => looked = scan
         /\ walk' \in [pc : {"page", "end"}, after : Nat, batch : Nat, count : Nat]
    <3>1. CASE /\ full # {}
               /\ EndPage(FullPageHasMore(candidates, looked), CursorAfter(looked))
      <4>1. PICK more : more = FullPageHasMore(candidates, looked)
        OBVIOUS
      <4>2. ~more => looked = scan
        BY <2>5, <4>1 DEF FullPageHasMore
      <4> QED BY <2>8, <3>1, <4>1, <4>2, EndPageOK
    <3>2. CASE /\ full = {}
               /\ EndPage(~Exhausted(candidates, BatchSize) /\ candidates # {}, CursorAfter(looked))
      <4>1. PICK more : more = (~Exhausted(candidates, BatchSize) /\ candidates # {})
        OBVIOUS
      <4>2. ~more => looked = scan
        BY <2>3, <2>5, <3>2, <4>1
      <4>3. EndPage(more, CursorAfter(looked))
        BY <3>2, <4>1
      <4> QED BY <2>8, <4>2, <4>3, EndPageOK
    <3>3. CASE walk' = [walk EXCEPT !.after = CursorAfter(looked), !.batch = @ + 1,
                                    !.count = @ + Cardinality(looked \ hidden)]
      <4>1. walk \in [pc : {"page", "end", "refused"}, after : Nat, batch : Nat, count : Nat]
            /\ walk.pc = "page"
        BY <1>9 DEF ListingInv, ListPublicProducts
      <4>2. PICK a \in Nat, b \in Nat, c \in Nat :
               /\ a = CursorAfter(looked) /\ b = walk.batch + 1
               /\ c = walk.count + Cardinality(looked \ hidden)
        BY <2>8, <2>10, <4>1
      <4>3. walk' = [walk EXCEPT !.after = a, !.batch = b, !.count = c]
        BY <3>3, <4>1, <4>2
      <4> QED BY <4>1, <4>2, <4>3
    <3> QED BY <2>11, <3>1, <3>2, <3>3
  <2> QED BY <2>4, <2>7, <2>11, <2>12, PageOK
<1> QED BY <1>1, <1>2, <1>3, <1>4, <1>5, <1>6, <1>7, <1>8, <1>9 DEF ListingNext, ListSellerFiltered

\* A walk that follows the cursors shows each entry once, whatever comes and
\* goes between its pages: AuditListBySeller, DeliveriesListBySeller,
\* ListPublicProducts, ListSellerFiltered.
THEOREM ListsAreComplete == ListingSpec => []PagesMissNothing
<1>1. ListingInv => PagesMissNothing
  BY DEF ListingInv, PagesMissNothing
<1> QED BY <1>1, ListingInitOK, ListingNextOK, PTL DEF ListingSpec

-----------------------------------------------------------------------------
(* DevSeed: the development profile *)

\* What is stored of the profile: all but what ordinary requests made.
HeldIds == {<<o.in, o.id>> : o \in {p \in store : p.by # "api"}}

\* What the objects of the profile are made of.
ProfileKinds ==
    {"sellers", "entitlements", "destinations", "routes", "intents", "transactions", "evidence",
     "disputes", "subscriptions", "secrets", "deliveries", "credentials", "workspaces"}

\* Their names.
ProfileIds ==
    {"launchReady", "incomplete", "USDC", "EURC", "belowThreshold", "approvalRequired", "inactive",
     "pending", "fulfilled", "failed", "disputed", "hook"}

\* Their states.
ProfileStates ==
    {"local-seller", "local-incomplete-owner", "active", "suspended", "published", "paused",
     "created", "valid", "invalid", "open", "stored", "delivered", "retry_scheduled",
     "dead_letter", "live", "verified", advancePaymentPending.status, advanceFulfilled.status,
     advanceFailed.status, advanceDisputed.status}

\* The objects a profile is written of.
ProfileObjects ==
    [in : ProfileKinds, id : ProfileIds, is : ProfileStates, by : {"seed"}, version : {1}]

\* The profile is a sequence of such objects.
LEMMA ProfileOK == Profile \in Seq(ProfileObjects)
<1>1. SeededSellers \in Seq(ProfileObjects)
  <2>1. /\ Object("sellers", "launchReady", "local-seller") \in ProfileObjects
        /\ Object("sellers", "incomplete", "local-incomplete-owner") \in ProfileObjects
    BY DEF Object, ProfileObjects, ProfileKinds, ProfileIds, ProfileStates
  <2> QED BY <2>1 DEF SeededSellers
<1>2. SeededEntitlements \in Seq(ProfileObjects)
  <2>1. /\ Object("entitlements", "launchReady", "active") \in ProfileObjects
        /\ Object("entitlements", "incomplete", "suspended") \in ProfileObjects
    BY DEF Object, ProfileObjects, ProfileKinds, ProfileIds, ProfileStates
  <2> QED BY <2>1 DEF SeededEntitlements
<1>3. SeededDestinations \in Seq(ProfileObjects)
  <2>1. /\ Object("destinations", "USDC", "active") \in ProfileObjects
        /\ Object("destinations", "EURC", "active") \in ProfileObjects
    BY DEF Object, ProfileObjects, ProfileKinds, ProfileIds, ProfileStates
  <2> QED BY <2>1 DEF SeededDestinations
<1>4. SeededRoutes \in Seq(ProfileObjects)
  <2>1. /\ Object("routes", "belowThreshold", "published") \in ProfileObjects
        /\ Object("routes", "approvalRequired", "published") \in ProfileObjects
        /\ Object("routes", "inactive", "paused") \in ProfileObjects
    BY DEF Object, ProfileObjects, ProfileKinds, ProfileIds, ProfileStates
  <2> QED BY <2>1 DEF SeededRoutes
<1>5. SeededTransactions \in Seq(ProfileObjects)
  <2>1. ASSUME NEW id \in {"pending", "fulfilled", "failed", "disputed"}, NEW t,
               t.status \in ProfileStates
        PROVE  SeededPurchase(id, t) \in Seq(ProfileObjects)
    <3>1. Object("intents", id, "created") \in ProfileObjects
      BY DEF Object, ProfileObjects, ProfileKinds, ProfileIds, ProfileStates
    <3>2. Object("transactions", id, t.status) \in ProfileObjects
      BY <2>1 DEF Object, ProfileObjects, ProfileKinds, ProfileIds
    <3> QED BY <3>1, <3>2 DEF SeededPurchase
  <2>2. /\ advancePaymentPending.status \in ProfileStates /\ advanceFulfilled.status \in ProfileStates
        /\ advanceFailed.status \in ProfileStates /\ advanceDisputed.status \in ProfileStates
    BY DEF ProfileStates
  <2>3. /\ SeededPurchase("pending", advancePaymentPending) \in Seq(ProfileObjects)
        /\ SeededPurchase("fulfilled", advanceFulfilled) \in Seq(ProfileObjects)
        /\ SeededPurchase("failed", advanceFailed) \in Seq(ProfileObjects)
        /\ SeededPurchase("disputed", advanceDisputed) \in Seq(ProfileObjects)
    BY <2>1, <2>2
  <2> QED BY <2>3 DEF SeededTransactions
<1>6. SeededEvidence \in Seq(ProfileObjects)
  <2>1. /\ Object("evidence", "fulfilled", "valid") \in ProfileObjects
        /\ Object("evidence", "failed", "invalid") \in ProfileObjects
    BY DEF Object, ProfileObjects, ProfileKinds, ProfileIds, ProfileStates
  <2> QED BY <2>1 DEF SeededEvidence
<1>7. SeededDispute \in Seq(ProfileObjects)
  <2>1. Object("disputes", "disputed", "open") \in ProfileObjects
    BY DEF Object, ProfileObjects, ProfileKinds, ProfileIds, ProfileStates
  <2> QED BY <2>1 DEF SeededDispute
<1>8. SeededWebhookHistory \in Seq(ProfileObjects)
  <2>1. /\ Object("subscriptions", "hook", "active") \in ProfileObjects
        /\ Object("secrets", "hook", "stored") \in ProfileObjects
        /\ Object("deliveries", "fulfilled", "delivered") \in ProfileObjects
        /\ Object("deliveries", "failed", "retry_scheduled") \in ProfileObjects
        /\ Object("deliveries", "disputed", "dead_letter") \in ProfileObjects
    BY DEF Object, ProfileObjects, ProfileKinds, ProfileIds, ProfileStates
  <2> QED BY <2>1 DEF SeededWebhookHistory
<1>9. SeededLaunchReadiness \in Seq(ProfileObjects)
  <2>1. /\ Object("credentials", "launchReady", "live") \in ProfileObjects
        /\ Object("workspaces", "launchReady", "verified") \in ProfileObjects
    BY DEF Object, ProfileObjects, ProfileKinds, ProfileIds, ProfileStates
  <2> QED BY <2>1 DEF SeededLaunchReadiness
<1>10. ASSUME NEW p \in Seq(ProfileObjects), NEW q \in Seq(ProfileObjects)
       PROVE  p \o q \in Seq(ProfileObjects)
  OBVIOUS
<1> QED BY <1>1, <1>2, <1>3, <1>4, <1>5, <1>6, <1>7, <1>8, <1>9, <1>10 DEF Profile

\* Every kind of the profile is emptied by a reset.
LEMMA ResetCoversProfile ==
    ASSUME NEW k \in ProfileKinds
    PROVE  \E n \in 1..21 : k \in ResetOrder[n]
<1>1. /\ ResetOrder[1] = {"sellers", "routes"} /\ ResetOrder[2] = {"intents"}
      /\ ResetOrder[4] = {"transactions"} /\ ResetOrder[5] = {"evidence"}
      /\ ResetOrder[6] = {"disputes"} /\ ResetOrder[9] = {"destinations"}
      /\ ResetOrder[10] = {"subscriptions"} /\ ResetOrder[11] = {"deliveries"}
      /\ ResetOrder[12] = {"secrets"} /\ ResetOrder[13] = {"credentials"}
      /\ ResetOrder[15] = {"entitlements"} /\ ResetOrder[20] = {"workspaces"}
  BY DEF ResetOrder
<1> QED BY <1>1 DEF ProfileKinds

\* The number of groups of repositories a reset empties.
LEMMA ResetOrderOK == Len(ResetOrder) = 21
BY DEF ResetOrder

\* The number of an object of the profile.
Size == Len(Profile)
\* Where an object of the profile is found.
KeyOf(i) == <<Profile[i].in, Profile[i].id>>

\* Every entry of the profile is one of these objects.
LEMMA SizeOK ==
    /\ Size \in Nat
    /\ \A i \in 1..Size : Profile[i] \in ProfileObjects
BY ProfileOK DEF Size

\* The whole profile is there.
ProfileWhole == \A i \in 1..Size : KeyOf(i) \in HeldIds
\* Nothing of the profile is there.
ProfileAbsent == \A i \in 1..Size : KeyOf(i) \notin HeldIds

\* Holds in terms of what is held.
LEMMA HoldsOK ==
    ASSUME NEW o
    PROVE  Holds(o) <=> <<o.in, o.id>> \in HeldIds
BY DEF Holds, Stored, HeldIds

\* No object of the first n - 1 groups of repositories is left.
Cleaned(n) == \A m \in 1..21 : m < n => \A h \in HeldIds : h[1] \notin ResetOrder[m]

\* The first n - 1 objects of the profile are written.
Written(n) == \A i \in 1..Size : i < n => KeyOf(i) \in HeldIds

\* When every group is emptied, nothing of the profile is left.
LEMMA CleanedIsAbsent == Cleaned(22) => ProfileAbsent
<1> SUFFICES ASSUME Cleaned(22), NEW i \in 1..Size, KeyOf(i) \in HeldIds PROVE FALSE
  BY DEF ProfileAbsent
<1>1. Profile[i].in \in ProfileKinds
  BY SizeOK DEF ProfileObjects
<1>2. PICK n \in 1..21 : Profile[i].in \in ResetOrder[n]
  BY <1>1, ResetCoversProfile
<1>3. n < 22 /\ KeyOf(i)[1] = Profile[i].in
  BY DEF KeyOf
<1> QED BY <1>2, <1>3 DEF Cleaned

\* A record of the stores.
IsObject(o) == o = [in |-> o.in, id |-> o.id, is |-> o.is, by |-> o.by, version |-> o.version]

\* The control points at which a call has the seeder's mutex.
Busy == {"clearing", "undoing", "seeding", "failed", "cancelling"}

\* What a call holds and what it has done so far.
CallOK(c) ==
    LET k == call[c] IN
    /\ k.pc \in Busy => mutex = c
    /\ k.pc \in {"clearing", "undoing"} =>
         k = [pc |-> k.pc, at |-> k.at] /\ k.at \in 1..21 /\ Cleaned(k.at)
    /\ k.pc = "seeding" =>
         k = [pc |-> k.pc, at |-> k.at] /\ k.at \in Nat /\ k.at >= 1 /\ Written(k.at)
    /\ k.pc = "failed" => ProfileAbsent
    /\ k.pc = "cancelling" =>
         /\ k = [pc |-> k.pc, at |-> k.at, entitlements |-> k.entitlements,
                 credentials |-> k.credentials]
         /\ k.at \in Nat /\ k.at >= 1
         /\ IsObject(k.entitlements) /\ k.entitlements.in = "entitlements"
         /\ IsObject(k.credentials) /\ k.credentials.in = "credentials"
         /\ ProfileWhole \/ ProfileAbsent
    /\ k.pc = "revoking" =>
         /\ IsObject(k.credential) /\ k.credential.in = "credentials"
         /\ k.credential.by # "api"

\* The invariant: what calls hold, and the profile whole or absent at rest.
SeedInv ==
    /\ call = [c \in SeedCalls |-> call[c]]
    /\ \A o \in store : IsObject(o) /\ (o.by = "api" => o.in \in {"sellers", "workspaces"})
    /\ server = "off" => mutex = Unlocked /\ \A c \in SeedCalls : call[c] = Waiting
    /\ \A c \in SeedCalls : CallOK(c)
    /\ mutex = Unlocked /\ server = "serving" => ProfileWhole \/ ProfileAbsent

\* It holds before the process starts.
LEMMA SeedInitOK == DevSeedInit => SeedInv
<1> SUFFICES ASSUME DevSeedInit PROVE SeedInv
  OBVIOUS
<1>1. /\ call = [c \in SeedCalls |-> Waiting] /\ store = {} /\ server = "off" /\ mutex = Unlocked
  BY DEF DevSeedInit
<1>2. \A c \in SeedCalls : CallOK(c)
  BY <1>1 DEF CallOK, Waiting, Busy
<1> QED BY <1>1, <1>2 DEF SeedInv

-----------------------------------------------------------------------------
\* What the writes do to what is held

\* An ordinary request adds an object of its own.
LEMMA ApiWriteOK ==
    ASSUME NEW o, o.by = "api", Stored(o.in, o.id) = {},
           store' = With(o)
    PROVE  HeldIds' = HeldIds
BY DEF With, HeldIds, Stored

\* A record that the profile, or its cancellation, wrote is written again.
LEMMA RewriteOK ==
    ASSUME SeedInv, NEW read, read.in \in {"entitlements", "credentials"}, Unchanged(read),
           NEW o, o.in = read.in, o.id = read.id, o.by # "api", store' = With(o)
    PROVE  HeldIds' = HeldIds
<1>1. PICK p \in store : p.in = o.in /\ p.id = o.id
  BY DEF Unchanged, Stored
<1>2. p.by # "api"
  BY <1>1 DEF SeedInv
<1>3. HeldIds' = HeldIds \cup {<<o.in, o.id>>}
  BY DEF With, HeldIds, Stored
<1>4. <<o.in, o.id>> \in HeldIds
  BY <1>1, <1>2 DEF HeldIds
<1> QED BY <1>3, <1>4

\* An object of the profile is written.
LEMMA SeedWriteOK ==
    ASSUME NEW o, o.by # "api", store' = With(o)
    PROVE  HeldIds' = HeldIds \cup {<<o.in, o.id>>}
BY DEF With, HeldIds, Stored

\* A group of repositories is emptied.
LEMMA ClearOK ==
    ASSUME NEW group, store' = {o \in store : o.in \notin group}
    PROVE  HeldIds' = {h \in HeldIds : h[1] \notin group}
BY DEF HeldIds

-----------------------------------------------------------------------------
\* The steps

\* What ordinary requests make is of two kinds.
ObjectsOK == \A o \in store : IsObject(o) /\ (o.by = "api" => o.in \in {"sellers", "workspaces"})

\* What is held, and the mutex, decide about a call.
LEMMA SameHeldOK ==
    ASSUME NEW d, CallOK(d), call'[d] = call[d],
           call[d].pc \in Busy => HeldIds' = HeldIds /\ mutex' = mutex
    PROVE  CallOK(d)'
<1>1. CASE call[d].pc \in Busy
  <2>1. /\ \A n : Cleaned(n)' <=> Cleaned(n)
        /\ \A n : Written(n)' <=> Written(n)
        /\ ProfileAbsent' <=> ProfileAbsent
        /\ ProfileWhole' <=> ProfileWhole
    BY <1>1 DEF Cleaned, Written, ProfileAbsent, ProfileWhole
  <2>2. PICK k : k = call[d] /\ k = call'[d]
    OBVIOUS
  <2> QED BY <1>1, <2>1, <2>2 DEF CallOK
<1>2. CASE call[d].pc \notin Busy
  BY <1>2 DEF CallOK, Busy
<1> QED BY <1>1, <1>2

\* A step beside the seeder's mutex that leaves what is held.
LEMMA QuietStep ==
    ASSUME SeedInv, NEW c \in SeedCalls, NEW next, Step(c, next),
           HeldIds' = HeldIds, mutex' = mutex, server' = server, server # "off",
           CallOK(c)', ObjectsOK'
    PROVE  SeedInv'
<1>1. /\ call' = [d \in SeedCalls |-> call'[d]]
      /\ \A d \in SeedCalls : d # c => call'[d] = call[d]
  BY DEF SeedInv, Step
<1>2. ASSUME NEW d \in SeedCalls PROVE CallOK(d)'
  <2>1. CASE d = c
    BY <2>1
  <2>2. CASE d # c
    BY <1>1, <2>2, SameHeldOK DEF SeedInv
  <2> QED BY <2>1, <2>2
<1>3. (ProfileWhole \/ ProfileAbsent)' <=> (ProfileWhole \/ ProfileAbsent)
  BY DEF ProfileWhole, ProfileAbsent
<1> QED BY <1>1, <1>2, <1>3 DEF SeedInv, ObjectsOK

\* A step of the call that has the mutex, or takes it.
LEMMA HolderStep ==
    ASSUME SeedInv, NEW c \in SeedCalls, NEW next, Step(c, next),
           mutex \in {Unlocked, c}, server' # "off",
           CallOK(c)', ObjectsOK',
           mutex' = Unlocked /\ server' = "serving" => (ProfileWhole \/ ProfileAbsent)'
    PROVE  SeedInv'
<1>1. /\ call' = [d \in SeedCalls |-> call'[d]]
      /\ \A d \in SeedCalls : d # c => call'[d] = call[d]
  BY DEF SeedInv, Step
<1>2. ASSUME NEW d \in SeedCalls PROVE CallOK(d)'
  <2>1. CASE d = c
    BY <2>1
  <2>2. CASE d # c
    <3>1. CallOK(d) /\ d # Unlocked
      BY DevSeedAssumption DEF SeedInv
    <3>2. call[d].pc \notin Busy
      BY <2>2, <3>1 DEF CallOK
    <3> QED BY <1>1, <2>2, <3>1, <3>2, SameHeldOK
  <2> QED BY <2>1, <2>2
<1> QED BY <1>1, <1>2 DEF SeedInv, ObjectsOK

\* A busy call has the mutex, and the process is up.
LEMMA BusyOK ==
    ASSUME SeedInv, NEW c \in SeedCalls, call[c].pc \in Busy
    PROVE  mutex = c /\ server # "off" /\ CallOK(c) /\ mutex # Unlocked
<1>1. CallOK(c) /\ mutex = c
  BY DEF SeedInv, CallOK
<1>2. call[c] # Waiting
  BY DEF Waiting, Busy
<1> QED BY <1>1, <1>2, DevSeedAssumption DEF SeedInv

\* The process starts with a reset of its own, or refuses to.
LEMMA StartOK ==
    ASSUME SeedInv, StartProcess
    PROVE  SeedInv'
<1>1. CASE /\ server' = "starting" /\ mutex' = Boot
           /\ Step(Boot, [pc |-> "clearing", at |-> 1])
  <2>1. Boot \in SeedCalls /\ mutex = Unlocked /\ ObjectsOK'
    BY DEF SeedInv, StartProcess, SeedCalls, Seeders, ObjectsOK
  <2>2. call'[Boot] = [pc |-> "clearing", at |-> 1]
    BY <1>1, <2>1 DEF Step, SeedInv
  <2>3. CallOK(Boot)'
    <3>1. Cleaned(1)'
      BY DEF Cleaned
    <3> QED BY <1>1, <2>2, <3>1 DEF CallOK
  <2> QED BY <1>1, <2>1, <2>3, HolderStep, DevSeedAssumption
<1>2. CASE server' = "refused" /\ UNCHANGED <<mutex, call>>
  <2>1. UNCHANGED store
    BY DEF StartProcess
  <2>2. \A c \in SeedCalls : call[c] = Waiting
    BY DEF StartProcess, SeedInv
  <2>3. \A c \in SeedCalls : CallOK(c)'
    BY <1>2, <2>2 DEF CallOK, Waiting, Busy
  <2> QED BY <1>2, <2>1, <2>3 DEF SeedInv
<1> QED BY <1>1, <1>2 DEF StartProcess, Step

\* A reset takes the mutex.
LEMMA BeginResetOK ==
    ASSUME SeedInv, NEW c \in SeedCalls, BeginReset(c)
    PROVE  SeedInv'
<1>1. mutex = Unlocked /\ mutex' = c /\ server' = "serving" /\ UNCHANGED store
      /\ Step(c, [pc |-> "clearing", at |-> 1])
  BY DEF BeginReset, TakesMutex
<1>2. call'[c] = [pc |-> "clearing", at |-> 1]
  BY <1>1 DEF Step, SeedInv
<1>3. CallOK(c)'
  <2>1. Cleaned(1)'
    BY DEF Cleaned
  <2> QED BY <1>1, <1>2, <2>1 DEF CallOK
<1>4. ObjectsOK'
  BY <1>1 DEF ObjectsOK, SeedInv
<1> QED BY <1>1, <1>3, <1>4, HolderStep, DevSeedAssumption

\* After the last group the profile is absent.
LEMMA ResetRepositoryOK ==
    ASSUME SeedInv, NEW c \in SeedCalls, ResetRepository(c)
    PROVE  SeedInv'
<1>1. PICK p \in {"clearing", "undoing"}, n \in 1..21 : call[c] = [pc |-> p, at |-> n]
  BY DEF ResetRepository, SeedInv, CallOK
<1>2. p \in Busy /\ call[c].pc = p /\ call[c].at = n
  BY <1>1 DEF Busy
<1>3. mutex = c /\ server # "off" /\ CallOK(c) /\ mutex # Unlocked
  BY <1>2, BusyOK
<1>4. UNCHANGED <<server, mutex>> /\ store' = {o \in store : o.in \notin ResetOrder[n]}
  BY <1>2 DEF ResetRepository
<1>5. Cleaned(n)
  BY <1>2, <1>3 DEF CallOK
<1>6. Cleaned(n + 1)'
  <2>1. HeldIds' = {h \in HeldIds : h[1] \notin ResetOrder[n]}
    BY <1>4, ClearOK
  <2>2. \A m \in 1..21 : m < n + 1 => m < n \/ m = n
    BY <1>1
  <2> QED BY <1>5, <2>1, <2>2 DEF Cleaned
<1>7. ObjectsOK'
  BY <1>4 DEF ObjectsOK, SeedInv
<1>8. CASE n < 21
  <2>1. Step(c, [pc |-> p, at |-> n + 1])
    BY <1>1, <1>2, <1>8, ResetOrderOK DEF ResetRepository
  <2>2. call'[c] = [pc |-> p, at |-> n + 1]
    BY <2>1 DEF Step, SeedInv
  <2>3. n + 1 \in 1..21
    BY <1>8
  <2>4. CallOK(c)'
    BY <1>1, <1>3, <1>4, <1>6, <2>2, <2>3 DEF CallOK, Busy
  <2> QED BY <1>3, <1>4, <1>7, <2>1, <2>4, HolderStep
<1>9. CASE n = 21
  <2>1. Step(c, [pc |-> Cleared(p), at |-> 1])
    BY <1>1, <1>2, <1>9, ResetOrderOK DEF ResetRepository
  <2>2. call'[c] = [pc |-> Cleared(p), at |-> 1]
    BY <2>1 DEF Step, SeedInv
  <2>3. ProfileAbsent' /\ Written(1)'
    <3>1. (Cleaned(22) => ProfileAbsent)'
      BY CleanedIsAbsent, PTL
    <3> QED BY <1>6, <1>9, <3>1 DEF Written
  <2>4. CallOK(c)'
    BY <1>1, <1>3, <1>4, <2>2, <2>3 DEF CallOK, Busy, Cleared
  <2> QED BY <1>3, <1>4, <1>7, <2>1, <2>4, HolderStep
<1> QED BY <1>1, <1>8, <1>9

\* A write adds its object; a refused one begins to undo.
LEMMA SeedObjectOK ==
    ASSUME SeedInv, NEW c \in SeedCalls, SeedObject(c)
    PROVE  SeedInv'
<1>1. PICK n \in 1..Size : call[c] = [pc |-> "seeding", at |-> n]
  <2>1. call[c].pc = "seeding" /\ call[c].at <= Size
    BY DEF SeedObject, Size
  <2>2. call[c] = [pc |-> call[c].pc, at |-> call[c].at] /\ call[c].at \in Nat /\ call[c].at >= 1
    BY <2>1 DEF SeedInv, CallOK
  <2> QED BY <2>1, <2>2, SizeOK
<1>2. call[c].pc = "seeding" /\ call[c].at = n /\ call[c].pc \in Busy
  BY <1>1 DEF Busy
<1>3. mutex = c /\ server # "off" /\ CallOK(c) /\ mutex # Unlocked
  BY <1>2, BusyOK
<1>4. UNCHANGED <<server, mutex>>
  BY DEF SeedObject
<1>5. PICK o \in ProfileObjects : o = Profile[n]
  BY SizeOK
<1>6. CASE store' = With(o) /\ Step(c, [call[c] EXCEPT !.at = @ + 1])
  <2>1. IsObject(o) /\ o.by = "seed"
    BY <1>5 DEF ProfileObjects, IsObject
  <2>2. HeldIds' = HeldIds \cup {KeyOf(n)}
    BY <1>5, <1>6, <2>1, SeedWriteOK DEF KeyOf
  <2>3. Step(c, [pc |-> "seeding", at |-> n + 1])
    BY <1>1, <1>6
  <2>4. call'[c] = [pc |-> "seeding", at |-> n + 1]
    BY <2>3 DEF Step, SeedInv
  <2>5. Written(n + 1)'
    <3>1. \A i \in 1..Size : i < n + 1 => i < n \/ i = n
      BY SizeOK
    <3>2. Written(n)
      BY <1>2, <1>3 DEF CallOK
    <3> QED BY <2>2, <3>1, <3>2 DEF Written
  <2>6. n + 1 \in Nat /\ n + 1 >= 1
    BY SizeOK
  <2>7. CallOK(c)'
    BY <1>3, <1>4, <2>4, <2>5, <2>6 DEF CallOK
  <2>8. ObjectsOK'
    BY <1>6, <2>1 DEF ObjectsOK, SeedInv, With
  <2> QED BY <1>3, <1>4, <2>3, <2>7, <2>8, HolderStep
<1>7. CASE Step(c, [pc |-> AfterRefusal, at |-> 1]) /\ UNCHANGED store
  <2>1. call'[c] = [pc |-> "undoing", at |-> 1]
    BY <1>7 DEF Step, SeedInv, AfterRefusal
  <2>2. CallOK(c)'
    <3>1. Cleaned(1)'
      BY DEF Cleaned
    <3> QED BY <1>3, <1>4, <2>1, <3>1 DEF CallOK
  <2>3. ObjectsOK'
    BY <1>7 DEF ObjectsOK, SeedInv
  <2> QED BY <1>3, <1>4, <1>7, <2>2, <2>3, HolderStep
<1> QED BY <1>2, <1>5, <1>6, <1>7 DEF SeedObject

\* A reset ends with the whole profile, or with none of it.
LEMMA AnswerResetOK ==
    ASSUME SeedInv, NEW c \in SeedCalls, AnswerReset(c)
    PROVE  SeedInv'
<1>1. PICK seeded \in BOOLEAN : seeded = (call[c].pc = "seeding" /\ call[c].at > Size)
  OBVIOUS
<1>2. /\ seeded \/ call[c].pc = "failed"
      /\ Step(c, [pc |-> IF seeded THEN "seeded" ELSE "error"])
      /\ server' = IF c # Boot THEN server ELSE IF seeded THEN "serving" ELSE "refused"
      /\ UNCHANGED store
  BY <1>1 DEF AnswerReset, Size
<1>3. call[c].pc \in Busy
  BY <1>1, <1>2 DEF Busy
<1>4. mutex = c /\ server # "off" /\ CallOK(c) /\ server' # "off"
  BY <1>2, <1>3, BusyOK
<1>5. ProfileWhole \/ ProfileAbsent
  <2>1. CASE seeded
    <3>1. call[c].at \in Nat /\ Written(call[c].at) /\ call[c].at > Size
      BY <1>1, <1>4, <2>1 DEF CallOK
    <3>2. \A i \in 1..Size : i < call[c].at
      BY <3>1, SizeOK
    <3> QED BY <3>1, <3>2 DEF Written, ProfileWhole
  <2>2. CASE call[c].pc = "failed"
    BY <1>4, <2>2 DEF CallOK
  <2> QED BY <1>2, <2>1, <2>2
<1>6. (ProfileWhole \/ ProfileAbsent)'
  BY <1>2, <1>5 DEF ProfileWhole, ProfileAbsent, HeldIds
<1>7. call'[c].pc \in {"seeded", "error"}
  BY <1>2 DEF Step, SeedInv
<1>8. CallOK(c)'
  BY <1>7 DEF CallOK, Busy
<1>9. ObjectsOK'
  BY <1>2 DEF ObjectsOK, SeedInv
<1> QED BY <1>2, <1>4, <1>6, <1>8, <1>9, HolderStep

\* A cancellation finds the profile as a reset left it.
LEMMA BeginCancelOK ==
    ASSUME SeedInv, NEW c \in SeedCalls, BeginCancel(c)
    PROVE  SeedInv'
<1>1. mutex = Unlocked /\ mutex' = c /\ server = "serving" /\ UNCHANGED <<server, store>>
  BY DEF BeginCancel, TakesMutex
<1>2. PICK e \in Stored("entitlements", "launchReady"), k \in Stored("credentials", "launchReady") :
         Step(c, [pc |-> "cancelling", at |-> 1, entitlements |-> e, credentials |-> k])
  BY DEF BeginCancel
<1>3. IsObject(e) /\ e.in = "entitlements" /\ IsObject(k) /\ k.in = "credentials"
  BY DEF Stored, SeedInv
<1>4. call'[c] = [pc |-> "cancelling", at |-> 1, entitlements |-> e, credentials |-> k]
  BY <1>2 DEF Step, SeedInv
<1>5. (ProfileWhole \/ ProfileAbsent)'
  BY <1>1 DEF SeedInv, ProfileWhole, ProfileAbsent, HeldIds
<1>6. CallOK(c)'
  BY <1>1, <1>3, <1>4, <1>5 DEF CallOK
<1>7. ObjectsOK'
  BY <1>1 DEF ObjectsOK, SeedInv
<1> QED BY <1>1, <1>2, <1>5, <1>6, <1>7, HolderStep

\* A cancellation with nothing to cancel writes nothing.
LEMMA CancelFindsNothingOK ==
    ASSUME SeedInv, NEW c \in SeedCalls, CancelFindsNothing(c)
    PROVE  SeedInv'
<1>1. UNCHANGED <<server, store, mutex>> /\ server # "off" /\ Step(c, [pc |-> "error"])
  BY DEF CancelFindsNothing
<1>2. call'[c] = [pc |-> "error"]
  BY <1>1 DEF Step, SeedInv
<1>3. CallOK(c)' /\ ObjectsOK' /\ HeldIds' = HeldIds
  BY <1>1, <1>2 DEF CallOK, Busy, ObjectsOK, SeedInv, HeldIds
<1> QED BY <1>1, <1>3, QuietStep

\* A cancellation writes over records it has read.
LEMMA CancelNextOK ==
    ASSUME SeedInv, NEW c \in SeedCalls, CancelNext(c)
    PROVE  SeedInv'
<1>1. call[c].pc = "cancelling" /\ call[c].pc \in Busy /\ UNCHANGED server
  BY DEF CancelNext, Busy
<1>2. mutex = c /\ server # "off" /\ CallOK(c)
  BY <1>1, BusyOK
<1>3. PICK n, e, k : call[c] = [pc |-> "cancelling", at |-> n, entitlements |-> e, credentials |-> k]
  BY <1>1, <1>2 DEF CallOK
<1>4. /\ n \in Nat /\ n >= 1
      /\ IsObject(e) /\ e.in = "entitlements" /\ IsObject(k) /\ k.in = "credentials"
      /\ ProfileWhole \/ ProfileAbsent
  BY <1>1, <1>2, <1>3 DEF CallOK
<1>5. PICK which \in {"entitlements", "credentials"} : which = CancellationOrder[n]
  <2>1. n = 1 \/ n = 2
    BY <1>3, <1>4 DEF CancelNext, CancellationOrder
  <2> QED BY <2>1 DEF CancellationOrder
<1>6. PICK read \in {e, k} : read = call[c][which] /\ IsObject(read) /\ read.in = which
  BY <1>3, <1>4, <1>5
<1>7. [call[c] EXCEPT !.at = @ + 1] =
        [pc |-> "cancelling", at |-> n + 1, entitlements |-> e, credentials |-> k]
  BY <1>3
<1>8. ASSUME HeldIds' = HeldIds, mutex' = mutex, ObjectsOK',
             Step(c, [call[c] EXCEPT !.at = @ + 1])
      PROVE  SeedInv'
  <2>1. call'[c] = [pc |-> "cancelling", at |-> n + 1, entitlements |-> e, credentials |-> k]
    BY <1>7, <1>8 DEF Step, SeedInv
  <2>2. (ProfileWhole \/ ProfileAbsent)'
    BY <1>4, <1>8 DEF ProfileWhole, ProfileAbsent
  <2>3. n + 1 \in Nat /\ n + 1 >= 1
    BY <1>4
  <2>4. CallOK(c)'
    BY <1>2, <1>4, <1>8, <2>1, <2>2, <2>3 DEF CallOK
  <2> QED BY <1>1, <1>2, <1>8, <2>2, <2>4, HolderStep
<1>9. CASE UNCHANGED <<store, mutex>> /\ Step(c, [call[c] EXCEPT !.at = @ + 1])
  BY <1>8, <1>9 DEF ObjectsOK, SeedInv, HeldIds
<1>10. CASE /\ Unchanged(read)
            /\ store' = With([read EXCEPT !.is = Ended(which), !.by = "cancel", !.version = @ + 1])
            /\ Step(c, [call[c] EXCEPT !.at = @ + 1]) /\ UNCHANGED mutex
  <2>1. PICK o : o = [read EXCEPT !.is = Ended(which), !.by = "cancel", !.version = @ + 1]
    OBVIOUS
  <2>2. PICK v : v = read.version + 1
    OBVIOUS
  <2>3. o = [in |-> which, id |-> read.id, is |-> Ended(which), by |-> "cancel", version |-> v]
    BY <1>6, <2>1, <2>2 DEF IsObject
  <2>4. HeldIds' = HeldIds
    <3>1. o.in = read.in /\ o.id = read.id /\ o.by # "api"
      BY <1>6, <2>3
    <3>2. store' = With(o) /\ Unchanged(read) /\ read.in \in {"entitlements", "credentials"}
      BY <1>5, <1>6, <1>10, <2>1
    <3> QED BY <3>1, <3>2, RewriteOK
  <2>5. ObjectsOK'
    BY <1>10, <2>1, <2>3 DEF ObjectsOK, SeedInv, With, IsObject
  <2> QED BY <1>8, <1>10, <2>4, <2>5
<1>11. CASE Step(c, [pc |-> "error"]) /\ mutex' = Unlocked /\ UNCHANGED store
  <2>1. call'[c] = [pc |-> "error"]
    BY <1>11 DEF Step, SeedInv
  <2>2. CallOK(c)' /\ ObjectsOK' /\ (ProfileWhole \/ ProfileAbsent)'
    BY <1>4, <1>11, <2>1 DEF CallOK, Busy, ObjectsOK, SeedInv, HeldIds, ProfileWhole, ProfileAbsent
  <2> QED BY <1>1, <1>2, <1>11, <2>2, HolderStep
<1> QED BY <1>3, <1>5, <1>6, <1>9, <1>10, <1>11 DEF CancelNext

\* It leaves the profile as it found it.
LEMMA AnswerCancelOK ==
    ASSUME SeedInv, NEW c \in SeedCalls, AnswerCancel(c)
    PROVE  SeedInv'
<1>1. call[c].pc = "cancelling" /\ call[c].pc \in Busy /\ UNCHANGED <<server, store>>
      /\ Step(c, [pc |-> "cancelled"]) /\ mutex' = Unlocked
  BY DEF AnswerCancel, Busy
<1>2. mutex = c /\ server # "off" /\ CallOK(c)
  BY <1>1, BusyOK
<1>3. (ProfileWhole \/ ProfileAbsent)'
  BY <1>1, <1>2 DEF CallOK, HeldIds, ProfileWhole, ProfileAbsent
<1>4. call'[c] = [pc |-> "cancelled"]
  BY <1>1 DEF Step, SeedInv
<1>5. CallOK(c)' /\ ObjectsOK'
  BY <1>1, <1>4 DEF CallOK, Busy, ObjectsOK, SeedInv
<1> QED BY <1>1, <1>2, <1>3, <1>5, HolderStep

\* A write of an ordinary request: a new object, or none.
LEMMA ApiStepOK ==
    ASSUME SeedInv, NEW q \in SeedCalls, NEW o, IsObject(o), o.by = "api",
           o.in \in {"sellers", "workspaces"},
           store' = IF Accepts(o) THEN With(o) ELSE store,
           Step(q, [pc |-> "answered"]), UNCHANGED <<server, mutex>>, server # "off"
    PROVE  SeedInv'
<1>1. Accepts(o) => Stored(o.in, o.id) = {}
  BY DEF Accepts, AcceptsSeller, Stored
<1>2. HeldIds' = HeldIds
  <2>1. CASE Accepts(o)
    BY <1>1, <2>1, ApiWriteOK
  <2>2. CASE ~Accepts(o)
    BY <2>2 DEF HeldIds
  <2> QED BY <2>1, <2>2
<1>3. ObjectsOK'
  BY DEF ObjectsOK, SeedInv, With
<1>4. call'[q] = [pc |-> "answered"]
  BY DEF Step, SeedInv
<1>5. CallOK(q)'
  BY <1>4 DEF CallOK, Busy
<1> QED BY <1>2, <1>3, <1>5, QuietStep

\* The seller's own store is no part of the profile.
LEMMA CreateOwnSellerOK ==
    ASSUME SeedInv, NEW q \in SeedCalls, CreateOwnSeller(q)
    PROVE  SeedInv'
<1>1. PICK o : o = [Object("sellers", "own", "local-seller") EXCEPT !.by = "api"]
  OBVIOUS
<1>2. o = [in |-> "sellers", id |-> "own", is |-> "local-seller", by |-> "api", version |-> 1]
  BY <1>1 DEF Object
<1>3. /\ store' = IF Accepts(o) THEN With(o) ELSE store
      /\ Step(q, [pc |-> "answered"]) /\ UNCHANGED <<server, mutex>> /\ server # "off"
  BY <1>1 DEF CreateOwnSeller
<1>4. IsObject(o) /\ o.by = "api" /\ o.in \in {"sellers", "workspaces"}
  BY <1>2 DEF IsObject
<1> QED BY <1>3, <1>4, ApiStepOK

\* Nor is a workspace that onboarding creates.
LEMMA CreateWorkspaceOK ==
    ASSUME SeedInv, NEW q \in SeedCalls, CreateWorkspace(q)
    PROVE  SeedInv'
<1>1. PICK s : s = call[q].seller
  OBVIOUS
<1>2. PICK o : o = [Object("workspaces", s, "blank") EXCEPT !.by = "api"]
  OBVIOUS
<1>3. o = [in |-> "workspaces", id |-> s, is |-> "blank", by |-> "api", version |-> 1]
  BY <1>2 DEF Object
<1>4. /\ store' = IF Accepts(o) THEN With(o) ELSE store
      /\ Step(q, [pc |-> "answered"]) /\ UNCHANGED <<server, mutex>>
      /\ call[q].pc = "onboarding"
  BY <1>1, <1>2 DEF CreateWorkspace
<1>5. server # "off"
  <2>1. call[q] # Waiting
    BY <1>4 DEF Waiting
  <2> QED BY <2>1 DEF SeedInv
<1>6. IsObject(o) /\ o.by = "api" /\ o.in \in {"sellers", "workspaces"}
  BY <1>3 DEF IsObject
<1> QED BY <1>4, <1>5, <1>6, ApiStepOK

\* Onboarding reads.
LEMMA BeginOnboardingOK ==
    ASSUME SeedInv, NEW q \in SeedCalls, BeginOnboarding(q)
    PROVE  SeedInv'
<1>1. UNCHANGED <<server, store, mutex>> /\ server # "off"
  BY DEF BeginOnboarding
<1>2. PICK s \in store : Step(q, [pc |-> "onboarding", seller |-> s.id])
  BY DEF BeginOnboarding
<1>3. call'[q] = [pc |-> "onboarding", seller |-> s.id]
  BY <1>2 DEF Step, SeedInv
<1>4. CallOK(q)' /\ ObjectsOK' /\ HeldIds' = HeldIds
  BY <1>1, <1>3 DEF CallOK, Busy, ObjectsOK, SeedInv, HeldIds
<1> QED BY <1>1, <1>2, <1>4, QuietStep

\* Revoking a key reads it first.
LEMMA BeginRevokeOK ==
    ASSUME SeedInv, NEW q \in SeedCalls, BeginRevoke(q)
    PROVE  SeedInv'
<1>1. UNCHANGED <<server, store, mutex>> /\ server # "off"
  BY DEF BeginRevoke
<1>2. PICK k \in Stored("credentials", "launchReady") : Step(q, [pc |-> "revoking", credential |-> k])
  BY DEF BeginRevoke
<1>3. IsObject(k) /\ k.in = "credentials" /\ k.by # "api"
  BY DEF Stored, SeedInv
<1>4. call'[q] = [pc |-> "revoking", credential |-> k]
  BY <1>2 DEF Step, SeedInv
<1>5. CallOK(q)' /\ ObjectsOK' /\ HeldIds' = HeldIds
  BY <1>1, <1>3, <1>4 DEF CallOK, Busy, ObjectsOK, SeedInv, HeldIds
<1> QED BY <1>1, <1>2, <1>5, QuietStep

\* A key is revoked at the version that was read, so only if it is still there.
LEMMA RevokeKeyOK ==
    ASSUME SeedInv, NEW q \in SeedCalls, RevokeKey(q)
    PROVE  SeedInv'
<1>1. PICK read : read = call[q].credential
  OBVIOUS
<1>2. /\ call[q].pc = "revoking" /\ UNCHANGED <<server, mutex>> /\ Step(q, [pc |-> "answered"])
      /\ store' = IF Unchanged(read)
                    THEN With([read EXCEPT !.is = "revoked", !.version = @ + 1])
                    ELSE store
  BY <1>1 DEF RevokeKey
<1>3. server # "off"
  <2>1. call[q] # Waiting
    BY <1>2 DEF Waiting
  <2> QED BY <2>1 DEF SeedInv
<1>4. IsObject(read) /\ read.in = "credentials" /\ read.by # "api"
  BY <1>1, <1>2 DEF SeedInv, CallOK
<1>5. call'[q] = [pc |-> "answered"]
  BY <1>2 DEF Step, SeedInv
<1>6. CallOK(q)'
  BY <1>5 DEF CallOK, Busy
<1>7. CASE Unchanged(read)
  <2>1. PICK o : o = [read EXCEPT !.is = "revoked", !.version = @ + 1]
    OBVIOUS
  <2>2. PICK v : v = read.version + 1
    OBVIOUS
  <2>3. o = [in |-> "credentials", id |-> read.id, is |-> "revoked", by |-> read.by, version |-> v]
    BY <1>4, <2>1, <2>2 DEF IsObject
  <2>4. store' = With(o)
    BY <1>2, <1>7, <2>1
  <2>5. HeldIds' = HeldIds
    BY <1>4, <1>7, <2>3, <2>4, RewriteOK
  <2>6. ObjectsOK'
    BY <1>4, <2>3, <2>4 DEF ObjectsOK, SeedInv, With, IsObject
  <2> QED BY <1>2, <1>3, <1>6, <2>5, <2>6, QuietStep
<1>8. CASE ~Unchanged(read)
  <2>1. ObjectsOK' /\ HeldIds' = HeldIds
    BY <1>2, <1>8 DEF ObjectsOK, SeedInv, HeldIds
  <2> QED BY <1>2, <1>3, <1>6, <2>1, QuietStep
<1> QED BY <1>7, <1>8

\* Every step preserves the invariant.
LEMMA SeedNextOK == SeedInv /\ [DevSeedNext]_seedVars => SeedInv'
<1> SUFFICES ASSUME SeedInv, [DevSeedNext]_seedVars PROVE SeedInv'
  OBVIOUS
<1>1. CASE UNCHANGED seedVars
  <2>1. HeldIds' = HeldIds
    BY <1>1 DEF seedVars, HeldIds
  <2>2. \A c \in SeedCalls : CallOK(c)'
    BY <1>1, <2>1, SameHeldOK DEF seedVars, SeedInv
  <2> QED BY <1>1, <2>1, <2>2 DEF SeedInv, seedVars, ProfileWhole, ProfileAbsent
<1>2. CASE StartProcess
  BY <1>2, StartOK
<1>3. Resets \subseteq SeedCalls /\ Seeders \subseteq SeedCalls /\ Cancels \subseteq SeedCalls
      /\ SellerCalls \subseteq SeedCalls
  BY DEF SeedCalls, Seeders
<1>4. ASSUME NEW c \in Resets, BeginReset(c) PROVE SeedInv'
  BY <1>3, <1>4, BeginResetOK
<1>5. ASSUME NEW c \in Seeders, ResetRepository(c) \/ SeedObject(c) \/ AnswerReset(c) PROVE SeedInv'
  BY <1>3, <1>5, ResetRepositoryOK, SeedObjectOK, AnswerResetOK
<1>6. ASSUME NEW c \in Cancels,
             BeginCancel(c) \/ CancelFindsNothing(c) \/ CancelNext(c) \/ AnswerCancel(c)
      PROVE  SeedInv'
  BY <1>3, <1>6, BeginCancelOK, CancelFindsNothingOK, CancelNextOK, AnswerCancelOK
<1>7. ASSUME NEW q \in SellerCalls,
             \/ CreateOwnSeller(q) \/ BeginOnboarding(q) \/ CreateWorkspace(q)
             \/ BeginRevoke(q) \/ RevokeKey(q)
      PROVE  SeedInv'
  BY <1>3, <1>7, CreateOwnSellerOK, BeginOnboardingOK, CreateWorkspaceOK, BeginRevokeOK,
     RevokeKeyOK
<1> QED BY <1>1, <1>2, <1>4, <1>5, <1>6, <1>7 DEF DevSeedNext

\* Between two resets or cancellations a serving process holds the profile or
\* none of it, whatever ordinary requests wrote during a reset: ResetAndSeed,
\* cancelLaunchReadySeller.
THEOREM ProfileIsWhole == DevSeedSpec => []ProfileIsWholeOrAbsent
<1>1. SeedInv => ProfileIsWholeOrAbsent
  <2>1. (\A i \in 1..Len(Profile) : Holds(Profile[i])) <=> ProfileWhole
    BY HoldsOK DEF ProfileWhole, Size, KeyOf
  <2>2. (\A i \in 1..Len(Profile) : ~Holds(Profile[i])) <=> ProfileAbsent
    BY HoldsOK DEF ProfileAbsent, Size, KeyOf
  <2> QED BY <2>1, <2>2 DEF SeedInv, ProfileIsWholeOrAbsent
<1> QED BY <1>1, SeedInitOK, SeedNextOK, PTL DEF DevSeedSpec
=============================================================================

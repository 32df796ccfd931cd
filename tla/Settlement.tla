------------------------------ MODULE Settlement ------------------------------
(***************************************************************************)
(* Payment destinations of a seller (internal/settlement): created         *)
(* pending, proved to belong to the seller by a signed challenge, and then *)
(* activated, which rotates the destination that was active for the same   *)
(* asset and network.  All reads are consistent, but a request reads the   *)
(* destination, then the list, and writes last.                            *)
(***************************************************************************)
EXTENDS Naturals

CONSTANTS
    Destinations,    \* destination identifiers of one seller
    Pairs,           \* exact pairs of asset and network
    PairOf,          \* PairOf[d]: the pair of a destination, which never changes
    Proofs,          \* requests that issue a challenge or prove ownership
    MaxChallenges,   \* bound: challenges issued over all
    NoDestination

ASSUME SettlementAssumption ==
    /\ NoDestination \notin Destinations
    /\ PairOf \in [Destinations -> Pairs]
    /\ MaxChallenges \in Nat

VARIABLES
    destination,   \* destination[d]: the stored PaymentDestination
    activeClaim,   \* activeClaim[p]: the destination that holds the active-pair claim
    issued,        \* number of challenges issued; challenge n is the n-th
    lapsed,        \* challenges whose time is over
    proof          \* proof[q]: what request q has read

settlementVars == <<destination, activeClaim, issued, lapsed, proof>>
-----------------------------------------------------------------------------
Absent == [status |-> "absent", challenge |-> 0, version |-> 0]
NoProof == [pc |-> "idle"]

SettlementInit ==
    /\ destination = [d \in Destinations |-> Absent]
    /\ activeClaim = [p \in Pairs |-> NoDestination]
    /\ issued = 0
    /\ lapsed = {}
    /\ proof = [q \in Proofs |-> NoProof]

\* versionedDestinationPut
DestinationUnchanged(d, version) == destination[d].version = version
-----------------------------------------------------------------------------
NewPaymentDestination == [status |-> "pending_verification", challenge |-> 0, version |-> 1]

CreateDestination(d) ==
    /\ destination[d] = Absent
    /\ destination' = [destination EXCEPT ![d] = NewPaymentDestination]
    /\ UNCHANGED <<activeClaim, issued, lapsed, proof>>

\* IssueOwnershipChallenge reads a pending destination and replaces any prior
\* challenge.
ReadForChallenge(q, d) ==
    /\ proof[q] = NoProof
    /\ destination[d].status = "pending_verification"
    /\ proof' = [proof EXCEPT ![q] = [pc |-> "challenge", target |-> d,
                                      version |-> destination[d].version]]
    /\ UNCHANGED <<destination, activeClaim, issued, lapsed>>

SaveChallenge(q) ==
    /\ proof[q].pc = "challenge"
    /\ issued < MaxChallenges
    /\ LET d == proof[q].target IN
       /\ DestinationUnchanged(d, proof[q].version)
       /\ destination' = [destination EXCEPT ![d] =
                            [status |-> "pending_verification", challenge |-> issued + 1,
                             version |-> proof[q].version + 1]]
    /\ issued' = issued + 1
    /\ proof' = [proof EXCEPT ![q] = NoProof]
    /\ UNCHANGED <<activeClaim, lapsed>>

\* OwnershipChallengeLifetime passes.
ChallengeLapses(n) ==
    /\ n \in 1..issued \ lapsed
    /\ lapsed' = lapsed \cup {n}
    /\ UNCHANGED <<destination, activeClaim, issued, proof>>

\* VerifyOwnership up to the check of the signature.  The signed challenge n
\* belongs to the destination: it names it.
ReadForProof(q, d, n, confirm) ==
    /\ proof[q] = NoProof
    /\ destination[d].status = "pending_verification"
    /\ destination[d].challenge = n /\ n # 0
    /\ n \notin lapsed
    /\ proof' = [proof EXCEPT ![q] = [pc |-> "find", target |-> d, challenge |-> n,
                                      version |-> destination[d].version,
                                      confirm |-> confirm]]
    /\ UNCHANGED <<destination, activeClaim, issued, lapsed>>

ActiveFor(d) == {e \in Destinations \ {d} : /\ PairOf[e] = PairOf[d]
                                            /\ destination[e].status = "active"}

\* findActiveDestination; a rotation needs consent.
FindActiveDestination(q) ==
    /\ proof[q].pc = "find"
    /\ LET d == proof[q].target IN
       \/ /\ ActiveFor(d) = {}
          /\ proof' = [proof EXCEPT ![q] =
                         [pc |-> "activate", target |-> d, version |-> proof[q].version,
                          rotated |-> NoDestination, rotatedVersion |-> 0]]
       \/ \E e \in ActiveFor(d) :
          /\ proof[q].confirm
          /\ proof' = [proof EXCEPT ![q] =
                         [pc |-> "activate", target |-> d, version |-> proof[q].version,
                          rotated |-> e, rotatedVersion |-> destination[e].version]]
    /\ UNCHANGED <<destination, activeClaim, issued, lapsed>>

\* Faulty variant: the claim of the pair is put without a condition.
FaultyClaimHeldBy(p, d) == TRUE

\* The condition on the active-pair claim: none yet, or the destination that
\* this activation rotates.
ClaimHeldBy(p, d) == activeClaim[p] = d

\* The new records of VerifyOwnership: the one activated, the one it rotates.
Activated(version) == [status |-> "active", challenge |-> 0, version |-> version + 1]
Rotated(d, version) ==
    [status |-> "rotated", challenge |-> destination[d].challenge, version |-> version + 1]

\* Activate: claim, destination and rotated destination in one transaction.
\* The audit events that follow change nothing here.
Activate(q) ==
    /\ proof[q].pc = "activate"
    /\ LET d == proof[q].target
           e == proof[q].rotated
       IN  /\ ClaimHeldBy(PairOf[d], e)
           /\ DestinationUnchanged(d, proof[q].version)
           /\ e # NoDestination => DestinationUnchanged(e, proof[q].rotatedVersion)
           /\ destination' = [x \in Destinations |->
                 IF x = d THEN Activated(proof[q].version)
                 ELSE IF x = e THEN Rotated(e, proof[q].rotatedVersion)
                 ELSE destination[x]]
           /\ activeClaim' = [activeClaim EXCEPT ![PairOf[d]] = d]
    /\ proof' = [proof EXCEPT ![q] = NoProof]
    /\ UNCHANGED <<issued, lapsed>>

\* A refusal, a lost race or a cut-off: nothing is written.
AbandonProof(q) ==
    /\ proof[q] # NoProof
    /\ proof' = [proof EXCEPT ![q] = NoProof]
    /\ UNCHANGED <<destination, activeClaim, issued, lapsed>>
-----------------------------------------------------------------------------
SettlementNext ==
    \/ \E d \in Destinations : CreateDestination(d)
    \/ \E n \in 1..MaxChallenges : ChallengeLapses(n)
    \/ \E q \in Proofs :
          \/ \E d \in Destinations : ReadForChallenge(q, d)
          \/ \E d \in Destinations, n \in 1..MaxChallenges, confirm \in BOOLEAN :
                ReadForProof(q, d, n, confirm)
          \/ SaveChallenge(q) \/ FindActiveDestination(q) \/ Activate(q) \/ AbandonProof(q)

SettlementSpec == SettlementInit /\ [][SettlementNext]_settlementVars
-----------------------------------------------------------------------------
\* Money for an asset and a network has one place to go: however proofs race,
\* at most one destination of a pair is active, and it is the one that the claim
\* of the pair names.
OneActiveDestination ==
    \A p \in Pairs :
        {d \in Destinations : PairOf[d] = p /\ destination[d].status = "active"}
            = {activeClaim[p]} \ {NoDestination}
=============================================================================

--------------------------- MODULE MCRemediation ---------------------------
(***************************************************************************)
(* Instance of Remediation, with what is reported of a purchase, for TLC:  *)
(* two explorations in one run.  With the focus on delivery, requests race *)
(* each other and nobody complains: three with the original body, or two   *)
(* with any body.  With the focus on remedies, requests come one at a time *)
(* and race with the clerks.                                               *)
(***************************************************************************)
EXTENDS Remediation, Reporting, TLC

CONSTANTS b1, p1, id1, alice

VARIABLE focus

OnePayment    == (p1 :> id1)
SignedByAlice == (id1 :> alice)

Anywhere      == PCs \ {"idle"}
AnyClerkCall  == ClerkPCs \ {"idle"}

ThreeAreAlike ==
    (\A r \in Requests : pc[r] # "idle") =>
        \A r \in Requests : req[r].body = OriginalBody
OneRequest == \A r, s \in Requests : pc[r] # "idle" /\ pc[s] # "idle" => r = s

DeliveryInit == RemediationInit /\ focus \in {"delivery", "remedies"}
DeliveryNext ==
    /\ UNCHANGED focus
    /\ \/ focus = "delivery" /\ Next /\ ThreeAreAlike' /\ UNCHANGED remedies
       \/ focus = "remedies" /\ RemediationNext /\ OneRequest'
DeliverySpec == DeliveryInit /\ [][DeliveryNext]_<<allVars, focus>>

RemediationSymmetry ==
    Permutations(Requests) \cup Permutations(Clerks) \cup Permutations(References)
=============================================================================

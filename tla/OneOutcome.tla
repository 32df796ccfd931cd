----------------------------- MODULE OneOutcome -----------------------------
(***************************************************************************)
(* What the life of a purchase intent promises to its buyer: an intent     *)
(* gets at most one outcome, once and for all, and every answer about it   *)
(* reports that outcome.                                                   *)
(***************************************************************************)
CONSTANT Subjects

VARIABLES
    outcome,  \* "open" or the outcome decided for each subject
    told      \* the outcomes callers have been told of

Outcomes == {"executed", "cancelled", "expired"}

Init ==
    /\ outcome = [s \in Subjects |-> "open"]
    /\ told    = [s \in Subjects |-> {}]

\* The outcome is decided; the caller that decided it may hear of it or not.
Decide(s, o) ==
    /\ outcome[s] = "open"
    /\ outcome' = [outcome EXCEPT ![s] = o]
    /\ \/ UNCHANGED told
       \/ told' = [told EXCEPT ![s] = @ \cup {o}]

\* Another caller is told the outcome.
Tell(s) ==
    /\ outcome[s] \in Outcomes
    /\ told' = [told EXCEPT ![s] = @ \cup {outcome[s]}]
    /\ UNCHANGED outcome

Next == \E s \in Subjects : Tell(s) \/ \E o \in Outcomes : Decide(s, o)

Spec == Init /\ [][Next]_<<outcome, told>>
=============================================================================

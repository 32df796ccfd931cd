--------------------------- MODULE MCProjectKeys ---------------------------
(***************************************************************************)
(* Instance of ProjectKeys for TLC: one session of a paying seller.        *)
(***************************************************************************)
EXTENDS ProjectKeys

Paid == { [status |-> "active", paid |-> TRUE, cancels |-> FALSE, paidThrough |-> 1] }
=============================================================================

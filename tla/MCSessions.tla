----------------------------- MODULE MCSessions -----------------------------
(***************************************************************************)
(* Instance of SellerSessions for TLC: one login with two tokens.          *)
(***************************************************************************)
EXTENDS SellerSessions
=============================================================================

--------------------------- MODULE BrowserPurchase ---------------------------
(***************************************************************************)
(* Browser purchase sessions (internal/browserpurchase), with the part of  *)
(* the checkout that uses them: a browser holds an opaque grant for a      *)
(* session; each of its payment requests claims the session for one        *)
(* transaction before anything is paid, and binds the payer's wallet to it *)
(* after the payment is final.  Who lost the grant after that proves the   *)
(* wallet and gets another.                                                *)
(*                                                                         *)
(* The payment itself is one action here (module Checkout has its steps).  *)
(* The clock counts the shortest lifetime of the code; each reading of it  *)
(* is made by the step that uses it.                                       *)
(***************************************************************************)
EXTENDS Naturals, FiniteSets

CONSTANTS
    PurchaseSessions, \* session identifiers
    CreationKeys,     \* idempotency keys of the creation
    Purchases,        \* transactions, one for each intent
    SessionOf,        \* SessionOf[t]: the session whose browser made the intent
    Wallets,          \* payer addresses
    Challenges,       \* recovery challenges
    Checkouts,        \* payment requests in progress
    Recoveries,       \* recovery requests in progress
    CommerceLifetime, \* MaximumCommerceLifetime
    AccessLifetime,   \* RemediationAccessLifetime
    MaxClock,         \* bound: the clock
    Nothing           \* no transaction, no wallet

ASSUME BrowserAssumption ==
    /\ Nothing \notin Purchases \cup Wallets \cup [wallet : Wallets, at : Nat]
    /\ SessionOf \in [Purchases -> PurchaseSessions]
    /\ CommerceLifetime \in Nat \ {0} /\ AccessLifetime \in Nat /\ MaxClock \in Nat

VARIABLES
    clock,
    purchaseSession,  \* purchaseSession[s]: the record, Missing before
    creation,         \* creation[k]: the session created with this key, or Nothing
    grantIndex,       \* the grant records: <<grant, session>>
    challenge,        \* challenge[h]: the record, Missing before
    payer,            \* payer[t]: the wallet that paid t and when, or Nothing
    forwarded,        \* transactions whose request reached the seller
    checkout,         \* checkout[p]: a payment request
    recovery          \* recovery[q]: a recovery request and what it read

browserVars == <<clock, purchaseSession, creation, grantIndex, challenge, payer,
                 forwarded, checkout, recovery>>
-----------------------------------------------------------------------------
Missing == [status |-> "missing"]
NoCheckout == [pc |-> "idle"]
NoRecovery == [pc |-> "idle"]

\* A grant is named by how it came about: the creation, or a challenge.
Grant == {"created"} \cup Challenges

BrowserInit ==
    /\ clock = 0
    /\ purchaseSession = [s \in PurchaseSessions |-> Missing]
    /\ creation = [k \in CreationKeys |-> Nothing]
    /\ grantIndex = {}
    /\ challenge = [h \in Challenges |-> Missing]
    /\ payer = [t \in Purchases |-> Nothing]
    /\ forwarded = {}
    /\ checkout = [p \in Checkouts |-> NoCheckout]
    /\ recovery = [q \in Recoveries |-> NoRecovery]

ClockTicks ==
    /\ clock < MaxClock
    /\ clock' = clock + 1
    /\ UNCHANGED <<purchaseSession, creation, grantIndex, challenge, payer, forwarded,
                   checkout, recovery>>
-----------------------------------------------------------------------------
(* The session *)

\* The conditions of the three puts of the repository; a grant is always fresh.
CreationIsNew(s, k) == creation[k] = Nothing /\ purchaseSession[s] = Missing

\* Service.Create.  A second request with the key finds the first session, at once
\* or after the puts failed, and is given no grant.
CreatePurchaseSession(s, k) ==
    /\ CreationIsNew(s, k)
    /\ purchaseSession' = [purchaseSession EXCEPT ![s] =
          [status |-> "active", transaction |-> Nothing, wallet |-> Nothing,
           grant |-> "created", commerceExpiresAt |-> clock + CommerceLifetime,
           accessExpiresAt |-> clock + CommerceLifetime]]
    /\ creation' = [creation EXCEPT ![k] = s]
    /\ grantIndex' = grantIndex \cup {<<"created", s>>}
    /\ UNCHANGED <<clock, challenge, payer, forwarded, checkout, recovery>>

\* Service.Authorize with the cookie of session s.
GrantIsValid(g, s) == <<g, s>> \in grantIndex /\ purchaseSession[s].grant = g
AuthorizeCommerce(g, s) ==
    /\ GrantIsValid(g, s)
    /\ purchaseSession[s].status = "active"
    /\ clock < purchaseSession[s].commerceExpiresAt

\* The checks of Service.ClaimTransaction.
CommerceOpen(s) ==
    /\ purchaseSession[s].status = "active"
    /\ clock < purchaseSession[s].commerceExpiresAt

\* Faulty variant: a session that is claimed already may be claimed again.
FaultyCanClaim(s, t) == purchaseSession[s].status = "active"

\* The condition of the repository's ClaimTransaction, or the claim exists.
CanClaim(s, t) ==
    /\ purchaseSession[s].status = "active"
    /\ purchaseSession[s].transaction \in {Nothing, t}
-----------------------------------------------------------------------------
(* One payment request *)

\* A session may have made several intents.
BeginCheckout(p, t) ==
    /\ checkout[p] = NoCheckout
    /\ \E g \in Grant : AuthorizeCommerce(g, SessionOf[t])
    /\ checkout' = [checkout EXCEPT ![p] =
                      [pc |-> "claim", session |-> SessionOf[t], transaction |-> t]]
    /\ UNCHANGED <<clock, purchaseSession, creation, grantIndex, challenge, payer,
                   forwarded, recovery>>

EndCheckout(p) == checkout' = [checkout EXCEPT ![p] = NoCheckout]
AtCheckout(p, pc) == checkout[p].pc = pc

\* claimBrowserTransaction
ClaimTransaction(p) ==
    /\ AtCheckout(p, "claim")
    /\ LET s == checkout[p].session
           t == checkout[p].transaction
       IN  /\ CommerceOpen(s)
           /\ CanClaim(s, t)
           /\ purchaseSession' = [purchaseSession EXCEPT ![s].transaction = t]
    /\ checkout' = [checkout EXCEPT ![p].pc = "pay"]
    /\ UNCHANGED <<clock, creation, grantIndex, challenge, payer, forwarded, recovery>>

\* The payment becomes final; it is made once (module Checkout).
Pay(p, w) ==
    /\ AtCheckout(p, "pay")
    /\ payer[checkout[p].transaction] = Nothing
    /\ payer' = [payer EXCEPT ![checkout[p].transaction] = [wallet |-> w, at |-> clock]]
    /\ checkout' = [checkout EXCEPT ![p].pc = "complete"]
    /\ UNCHANGED <<clock, purchaseSession, creation, grantIndex, challenge, forwarded, recovery>>

\* A request for a final payment: with the proof the payer is verified again,
\* without it the session is not completed.
PaidBefore(p) ==
    /\ AtCheckout(p, "pay")
    /\ payer[checkout[p].transaction] # Nothing
    /\ \E next \in {"complete", "forward"} : checkout' = [checkout EXCEPT ![p].pc = next]
    /\ UNCHANGED <<clock, purchaseSession, creation, grantIndex, challenge, payer,
                   forwarded, recovery>>

\* Service.Complete and the condition of the repository.
CanComplete(s, t) ==
    /\ CommerceOpen(s)
    /\ purchaseSession[s].transaction = t

\* A session that is completed for the same transaction and wallet stays so.
AlreadyComplete(s, t) ==
    /\ purchaseSession[s].status = "completed"
    /\ purchaseSession[s].transaction = t
    /\ purchaseSession[s].wallet = payer[t].wallet

CompletePurchase(p) ==
    /\ AtCheckout(p, "complete")
    /\ LET s == checkout[p].session
           t == checkout[p].transaction
       IN  \/ /\ CanComplete(s, t)
              /\ purchaseSession' = [purchaseSession EXCEPT
                    ![s].status = "completed", ![s].wallet = payer[t].wallet,
                    ![s].accessExpiresAt = payer[t].at + AccessLifetime]
           \/ AlreadyComplete(s, t) /\ UNCHANGED purchaseSession
    /\ checkout' = [checkout EXCEPT ![p].pc = "forward"]
    /\ UNCHANGED <<clock, creation, grantIndex, challenge, payer, forwarded, recovery>>

Forward(p) ==
    /\ AtCheckout(p, "forward")
    /\ forwarded' = forwarded \cup {checkout[p].transaction}
    /\ EndCheckout(p)
    /\ UNCHANGED <<clock, purchaseSession, creation, grantIndex, challenge, payer, recovery>>

\* A refused step, an error or a crash.
StopCheckout(p) ==
    /\ checkout[p] # NoCheckout
    /\ EndCheckout(p)
    /\ UNCHANGED <<clock, purchaseSession, creation, grantIndex, challenge, payer,
                   forwarded, recovery>>
-----------------------------------------------------------------------------
(* Recovery by the wallet *)

CanRecover(session, w) ==
    /\ session.status = "completed"
    /\ session.wallet = w
    /\ clock < session.accessExpiresAt

\* Its lifetime is one tick, or what is left of the access.
CreateRecoveryChallenge(h, s, w) ==
    /\ challenge[h] = Missing
    /\ purchaseSession[s] # Missing
    /\ CanRecover(purchaseSession[s], w)
    /\ challenge' = [challenge EXCEPT ![h] =
          [status |-> "open", session |-> s, wallet |-> w, expiresAt |-> clock + 1]]
    /\ UNCHANGED <<clock, purchaseSession, creation, grantIndex, payer, forwarded,
                   checkout, recovery>>

\* Recover reads the session and the challenge and verifies the signature of w.
BeginRecovery(q, h, w) ==
    /\ recovery[q] = NoRecovery
    /\ challenge[h].status = "open"
    /\ clock < challenge[h].expiresAt
    /\ challenge[h].wallet = w
    /\ CanRecover(purchaseSession[challenge[h].session], w)
    /\ recovery' = [recovery EXCEPT ![q] =
          [pc |-> "write", challenge |-> h, read |-> purchaseSession[challenge[h].session]]]
    /\ UNCHANGED <<clock, purchaseSession, creation, grantIndex, challenge, payer,
                   forwarded, checkout>>

\* Faulty variant: only the challenge is checked at the write.
FaultyRecoverHolds(s, h, previous) == challenge[h].status = "open"

\* The conditions of the transaction of the repository's Recover.
RecoverHolds(s, h, previous) ==
    /\ <<previous, s>> \in grantIndex
    /\ purchaseSession[s].status = "completed" /\ purchaseSession[s].grant = previous
    /\ challenge[h].status = "open"

\* The session is written back as it was read, with the new grant.
FinishRecovery(q) ==
    /\ recovery[q].pc = "write"
    /\ LET h == recovery[q].challenge
           s == challenge[h].session
           previous == recovery[q].read.grant
       IN  /\ RecoverHolds(s, h, previous)
           /\ purchaseSession' = [purchaseSession EXCEPT ![s] = [recovery[q].read EXCEPT !.grant = h]]
           /\ grantIndex' = (grantIndex \ {<<previous, s>>}) \cup {<<h, s>>}
           /\ challenge' = [challenge EXCEPT ![h].status = "used"]
    /\ recovery' = [recovery EXCEPT ![q] = NoRecovery]
    /\ UNCHANGED <<clock, creation, payer, forwarded, checkout>>

StopRecovery(q) ==
    /\ recovery[q] # NoRecovery
    /\ recovery' = [recovery EXCEPT ![q] = NoRecovery]
    /\ UNCHANGED <<clock, purchaseSession, creation, grantIndex, challenge, payer,
                   forwarded, checkout>>
-----------------------------------------------------------------------------
BrowserNext ==
    \/ ClockTicks
    \/ \E s \in PurchaseSessions :
          \/ \E k \in CreationKeys : CreatePurchaseSession(s, k)
          \/ \E h \in Challenges, w \in Wallets : CreateRecoveryChallenge(h, s, w)
    \/ \E p \in Checkouts :
          \/ ClaimTransaction(p) \/ PaidBefore(p) \/ CompletePurchase(p)
          \/ Forward(p) \/ StopCheckout(p) \/ \E w \in Wallets : Pay(p, w)
          \/ \E t \in Purchases : BeginCheckout(p, t)
    \/ \E q \in Recoveries :
          \/ FinishRecovery(q) \/ StopRecovery(q)
          \/ \E h \in Challenges, w \in Wallets : BeginRecovery(q, h, w)

BrowserSpec == BrowserInit /\ [][BrowserNext]_browserVars
-----------------------------------------------------------------------------
\* A session pays for one purchase: whatever intents and requests it started,
\* only the transaction it is claimed for is paid, and a bound wallet is the
\* wallet that paid.
SessionPaysOnce ==
    \A s \in PurchaseSessions :
        /\ \A t \in Purchases : SessionOf[t] = s /\ payer[t] # Nothing
                => purchaseSession[s].transaction = t
        /\ purchaseSession[s].status = "completed"
                => purchaseSession[s].wallet = payer[purchaseSession[s].transaction].wallet

\* One grant opens a session at any time: recoveries that race, each with a
\* challenge of its own, leave exactly one grant record, the session's, and no
\* earlier grant opens the session again.
OneGrantOpensSession ==
    \A s \in PurchaseSessions : purchaseSession[s] # Missing =>
        {g \in Grant : <<g, s>> \in grantIndex} = {purchaseSession[s].grant}

=============================================================================

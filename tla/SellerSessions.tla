---------------------------- MODULE SellerSessions ----------------------------
(***************************************************************************)
(* Seller sessions (internal/identity).  The identity provider issues      *)
(* access tokens; all tokens that were refreshed from one login form a     *)
(* family.  Every request presents one: its signing key is looked up in a  *)
(* cache of the provider's keys, its claims are checked, and then the      *)
(* revocation record of its family.  A logout is such a request, and       *)
(* stores the record.  Time passes between any two of these steps.         *)
(***************************************************************************)
EXTENDS Naturals, FiniteSets

CONSTANTS
    Families,       \* logins
    SigningKeys,    \* keys of the provider
    Visits,         \* requests in progress
    TokenLifetime,  \* lifetime of an access token
    CacheTTL,       \* defaultJWKSCacheTTL
    FetchTimeout,   \* longest time a key fetch takes
    MaxTokens,      \* bound: tokens issued
    MaxNow          \* bound: the clock

ASSUME SessionsAssumption ==
    /\ TokenLifetime \in Nat \ {0} /\ CacheTTL \in Nat \ {0}
    /\ {FetchTimeout, MaxTokens, MaxNow} \subseteq Nat

VARIABLES
    verifier,      \* which verifier the server was configured with
    now,           \* the clock, never behind
    tokens,        \* the tokens that were issued
    published,     \* keys the provider publishes
    withdrawnAt,   \* ghost: when a key was withdrawn, 0 if it was not
    cache,         \* the verifier's keys and when they expire
    revokedUntil,  \* revokedUntil[f]: the revocation record of a family, 0 if none
    loggedOut,     \* ghost: loggedOut[f]: latest expiry among tokens that logged out
    visit          \* visit[v]: a request and how far its authentication is

sessionVars == <<verifier, now, tokens, published, withdrawnAt, cache, revokedUntil,
                 loggedOut, visit>>
-----------------------------------------------------------------------------
Tokens == [family : Families, key : SigningKeys, expires : 1..MaxNow + TokenLifetime]
Away == [pc |-> "away"]

SessionsInit ==
    /\ verifier \in {"cognito", "local"}
    /\ now = 1
    /\ tokens = {}
    /\ published \in {{k} : k \in SigningKeys}
    /\ withdrawnAt = [k \in SigningKeys |-> 0]
    /\ cache = [keys |-> {}, until |-> 0]
    /\ revokedUntil = [f \in Families |-> 0]
    /\ loggedOut = [f \in Families |-> 0]
    /\ visit = [v \in Visits |-> Away]
-----------------------------------------------------------------------------
(* The provider and the clock *)

VisitAt(v, pc) == visit[v].pc = pc

\* A fetch is given up after its timeout; the two lookups of a key in the cache
\* take no time.
TimePasses ==
    /\ now < MaxNow
    /\ \A v \in Visits : /\ VisitAt(v, "store") => now < visit[v].started + FetchTimeout
                         /\ ~VisitAt(v, "known")
    /\ now' = now + 1
    /\ UNCHANGED <<verifier, tokens, published, withdrawnAt, cache, revokedUntil, loggedOut, visit>>

\* A login, or a refresh by the browser: no refresh follows a logout.
IssueToken(f, k) ==
    /\ k \in published
    /\ loggedOut[f] = 0
    /\ Cardinality(tokens) < MaxTokens
    /\ tokens' = tokens \cup {[family |-> f, key |-> k, expires |-> now + TokenLifetime]}
    /\ UNCHANGED <<verifier, now, published, withdrawnAt, cache, revokedUntil, loggedOut, visit>>

RotateKeys(k) ==
    /\ verifier = "cognito"
    /\ k \notin published /\ withdrawnAt[k] = 0
    /\ published' = {k}
    /\ withdrawnAt' = [x \in SigningKeys |-> IF x \in published THEN now ELSE withdrawnAt[x]]
    /\ UNCHANGED <<verifier, now, tokens, cache, revokedUntil, loggedOut, visit>>
-----------------------------------------------------------------------------
(* CognitoVerifier *)

VisitGoes(v, pc) == visit' = [visit EXCEPT ![v].pc = pc]
TurnAway(v) == visit' = [visit EXCEPT ![v] = Away]

AuthenticateSeller(v, token) ==
    /\ visit[v] = Away
    /\ visit' = [visit EXCEPT ![v] = [pc |-> "key", token |-> token]]
    /\ UNCHANGED <<verifier, now, tokens, published, withdrawnAt, cache, revokedUntil, loggedOut>>

Fresh(k) == k \in cache.keys /\ now < cache.until

\* publicKey: a known and fresh key is used, else the keys are fetched.
PublicKey(v) ==
    /\ VisitAt(v, "key") /\ verifier = "cognito"
    /\ IF Fresh(visit[v].token.key) THEN VisitGoes(v, "claims")
       ELSE visit' = [visit EXCEPT ![v] = [pc |-> "store", token |-> @.token, started |-> now,
                                           document |-> published]]
    /\ UNCHANGED <<verifier, now, tokens, published, withdrawnAt, cache, revokedUntil, loggedOut>>

\* refreshKeys: the document, which may have been on its way for a while,
\* replaces the cache whole.
RefreshKeys(v) ==
    /\ VisitAt(v, "store")
    /\ cache' = [keys |-> visit[v].document, until |-> now + CacheTTL]
    /\ visit' = [visit EXCEPT ![v] = [pc |-> "known", token |-> @.token]]
    /\ UNCHANGED <<verifier, now, tokens, published, withdrawnAt, revokedUntil, loggedOut>>

\* The key is looked up again, in whatever the cache holds by now.
KeyIsKnown(v) ==
    /\ VisitAt(v, "known")
    /\ IF visit[v].token.key \in cache.keys THEN VisitGoes(v, "claims") ELSE TurnAway(v)
    /\ UNCHANGED <<verifier, now, tokens, published, withdrawnAt, cache, revokedUntil, loggedOut>>

ValidateClaims(v) ==
    /\ VisitAt(v, "claims")
    /\ IF visit[v].token.expires > now THEN VisitGoes(v, "revocation") ELSE TurnAway(v)
    /\ UNCHANGED <<verifier, now, tokens, published, withdrawnAt, cache, revokedUntil, loggedOut>>
\* LocalAdapter.Verify: one secret signs the tokens of a development server, so
\* only the claims are checked.
VerifyLocally(v) ==
    /\ VisitAt(v, "key") /\ verifier = "local"
    /\ IF visit[v].token.expires > now THEN VisitGoes(v, "revocation") ELSE TurnAway(v)
    /\ UNCHANGED <<verifier, now, tokens, published, withdrawnAt, cache, revokedUntil, loggedOut>>
-----------------------------------------------------------------------------
(* Service *)

IsRevoked(f) == revokedUntil[f] > now

Authenticate(v) ==
    /\ VisitAt(v, "revocation")
    /\ IF IsRevoked(visit[v].token.family) THEN TurnAway(v) ELSE VisitGoes(v, "admitted")
    /\ UNCHANGED <<verifier, now, tokens, published, withdrawnAt, cache, revokedUntil, loggedOut>>

\* Faulty variant: the record is replaced, also by an earlier expiry.
FaultyExtended(f, expires) == expires

\* The condition of the put: an expiry is never shortened.
Extended(f, expires) == IF revokedUntil[f] < expires THEN expires ELSE revokedUntil[f]

\* revokeCurrentSession with Service.Revoke: until the expiry of the token
\* that was presented.
Revoke(v) ==
    /\ VisitAt(v, "admitted")
    /\ visit[v].token.expires > now
    /\ LET f == visit[v].token.family
           expires == visit[v].token.expires
       IN  /\ revokedUntil' = [revokedUntil EXCEPT ![f] = Extended(f, expires)]
           /\ loggedOut' = [loggedOut EXCEPT ![f] = IF @ < expires THEN expires ELSE @]
    /\ TurnAway(v)
    /\ UNCHANGED <<verifier, now, tokens, published, withdrawnAt, cache>>

\* The request is served, or fails for another reason.
EndVisit(v) ==
    /\ visit[v] # Away
    /\ TurnAway(v)
    /\ UNCHANGED <<verifier, now, tokens, published, withdrawnAt, cache, revokedUntil, loggedOut>>
-----------------------------------------------------------------------------
SessionsNext ==
    \/ TimePasses
    \/ \E f \in Families, k \in SigningKeys : IssueToken(f, k)
    \/ \E k \in SigningKeys : RotateKeys(k)
    \/ \E v \in Visits :
          \/ \E token \in tokens : AuthenticateSeller(v, token)
          \/ PublicKey(v) \/ VerifyLocally(v) \/ RefreshKeys(v) \/ KeyIsKnown(v) \/ ValidateClaims(v)
          \/ Authenticate(v) \/ Revoke(v) \/ EndVisit(v)

SessionsSpec == SessionsInit /\ [][SessionsNext]_sessionVars
-----------------------------------------------------------------------------
Admitted(v) == VisitAt(v, "revocation") /\ visit'[v].pc = "admitted"
Trusted(v) == visit[v].pc \in {"key", "known"} /\ visit'[v].pc = "claims"

\* What was withdrawn is refused.  Once a token has logged out, no token of its
\* family that expires no later is admitted again, also when several tokens of the
\* family log out in any order and requests are in the middle of their
\* authentication.  A key that the provider withdrew is trusted no longer than the
\* cache lives, counted from the answer to the last fetch that can still contain
\* it, although answers may arrive late and replace newer ones.
WithdrawnTrustIsRefused ==
    [][\A v \in Visits :
         LET token == visit[v].token
         IN  /\ Admitted(v) =>
                   token.expires <= now \/ token.expires > loggedOut[token.family]
             /\ Trusted(v) =>
                   \/ token.key \in published
                   \/ now <= withdrawnAt[token.key] + FetchTimeout + CacheTTL]_sessionVars

\* What the comment of Service.Revoke says: a logout "invalidates the complete
\* token family represented by the current session".
RevokedFamilyStaysOut ==
    [][\A v \in Visits : Admitted(v) =>
         visit[v].token.expires <= now \/ loggedOut[visit[v].token.family] = 0]_sessionVars
=============================================================================

------------------------------- MODULE Auth47 -------------------------------
(***************************************************************************)
(* The challenge and session stores of the storefront: the class           *)
(* Auth47Sessions of src/src/auth47.ts.                                    *)
(*                                                                         *)
(* Both stores are partial functions to records with an expiry time, the   *)
(* Maps of the code.  A nonce record says whether a proof has consumed the *)
(* nonce and which session that minted; a session record says whose it is. *)
(***************************************************************************)
EXTENDS Integers, FiniteSets, Functions

CONSTANTS
  Nonces,         \* challenges; one is issued per page load
  SessionIds,     \* ids mint can draw
  NoSession,      \* a nonce without a session
  NonceTtl,       \* NONCE_TTL_MS
  SessionTtl,     \* SESSION_TTL_MS
  MaxLiveNonces   \* MAX_LIVE_NONCES

ASSUME Auth47Assumption ==
  /\ IsFiniteSet(Nonces)
  /\ NoSession \notin SessionIds
  /\ NonceTtl \in Nat
  /\ SessionTtl \in Nat
  /\ MaxLiveNonces \in Nat \ {0}

EmptyStore == [k \in {} |-> 0]

With(store, k, rec) == [j \in DOMAIN store \cup {k} |-> IF j = k THEN rec ELSE store[j]]

\* gc: what has expired goes, whenever a nonce is issued or a session minted.
Live(store, now) == Restrict(store, {k \in DOMAIN store : store[k].expires >= now})

CanIssue(nonces, now) == Cardinality(DOMAIN Live(nonces, now)) < MaxLiveNonces

\* Mutant: a consumed nonce makes room for the next challenge.
IssueEvicting(nonces, n, now) ==
  With(Restrict(nonces, {k \in DOMAIN nonces : ~nonces[k].used}), n,
       [expires |-> now + NonceTtl, used |-> FALSE, session |-> NoSession])

Issue(nonces, n, now) ==
  With(Live(nonces, now), n, [expires |-> now + NonceTtl, used |-> FALSE, session |-> NoSession])

\* Mutant: a consumed nonce still reads as live.
PeekUsed(nonces, n, now) == n \in DOMAIN nonces /\ nonces[n].expires >= now

Peek(nonces, n, now) ==
  /\ n \in DOMAIN nonces
  /\ ~nonces[n].used
  /\ nonces[n].expires >= now

\* take, of a nonce peek has just found live; it stays for the poll to claim.
Take(nonces, n, now) ==
  [nonces EXCEPT ![n] = [@ EXCEPT !.used = TRUE, !.expires = now + NonceTtl]]

\* mint collects garbage in both stores, then the caller claims the nonce.
MintedNonces(nonces, n, s, now) ==
  [Live(nonces, now) EXCEPT ![n] = [@ EXCEPT !.session = s]]

\* Mutant: the session inherits what is left of the nonce's time, at most.
MintedShort(sessions, s, c, now) ==
  With(Live(sessions, now), s, [code |-> c, expires |-> now])

Minted(sessions, s, c, now) ==
  With(Live(sessions, now), s, [code |-> c, expires |-> now + SessionTtl])

\* claimed: used, with a session; the expiry is not looked at.
Claimable(nonces, n) ==
  /\ n \in DOMAIN nonces
  /\ nonces[n].used
  /\ nonces[n].session # NoSession

\* Mutant: the nonce stays when its session has been handed out.
RetireNothing(nonces, n) == nonces

Retire(nonces, n) == Restrict(nonces, DOMAIN nonces \ {n})

SessionLive(sessions, s, now) == s \in DOMAIN sessions /\ sessions[s].expires >= now

\* session: looking an expired session up removes it.
Visited(sessions, s, now) ==
  IF SessionLive(sessions, s, now) THEN sessions ELSE Restrict(sessions, DOMAIN sessions \ {s})
=============================================================================

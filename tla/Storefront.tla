----------------------------- MODULE Storefront -----------------------------
(***************************************************************************)
(* The storefront (src/src/server.ts) and the page it serves               *)
(* (src/public/index.html), beside the receiver's two jobs in one process: *)
(* a page shows a challenge, a wallet posts its proof to the callback, the *)
(* page polls for the session the proof minted, shows the session's        *)
(* address and polls until it is paid.                                     *)
(*                                                                         *)
(* A handler runs to completion between two awaits.  The callback awaits   *)
(* the request's body before it looks at anything, the paid endpoint       *)
(* awaits the indexer; the other handlers are one step.  A page loads one  *)
(* challenge, so pages are named by their nonces.  Requests that change    *)
(* nothing - a refused proof, a poll answered "pending", a spent rate      *)
(* limit - are stutters.                                                   *)
(***************************************************************************)
EXTENDS Receiver, Auth47

CONSTANT PollDelay    \* bound: how late the page's last poll is answered

\* 5 minutes and a delay, 12 hours, 30 days.
ASSUME TtlAssumption ==
  /\ PollDelay \in Nat
  /\ NonceTtl + PollDelay <= SessionTtl
  /\ SessionTtl <= UnpaidTtl

VARIABLES
  nonces,       \* Auth47Sessions.nonces
  sessions,     \* Auth47Sessions.sessions
  page,         \* the state of each page load
  minted,       \* history: <<nonce, session>> of every callback that succeeded
  handed,       \* history: sessions a poll has handed out
  newcomers     \* history: sessions whose callback registered the customer

web == <<nonces, sessions, page, minted, handed, newcomers>>
shopVars == <<vars, web>>

\* What a page holds: the challenge's expiry while it polls, the session while
\* it opens it, the address it shows, and the index the paid endpoint is
\* looking up for it (-1 when it is not).
PageRecord == [at : {"closed", "polling", "opening", "paying", "paid", "idle"},
               expires : 0 .. (MaxNow + NonceTtl),
               session : SessionIds \cup {NoSession},
               code : Codes \cup {NoCode},
               index : 0 .. (MaxIndex + 1),
               asked : -1 .. (MaxIndex + 1)]

ClosedPage == [at |-> "closed", expires |-> 0, session |-> NoSession, code |-> NoCode,
               index |-> 0, asked |-> -1]
IdlePage == [ClosedPage EXCEPT !.at = "idle"]

ShopTypeOK ==
  /\ TypeOK
  /\ DOMAIN nonces \subseteq Nonces
  /\ \A n \in DOMAIN nonces :
       nonces[n] \in [expires : 0 .. (MaxNow + NonceTtl), used : BOOLEAN,
                      session : SessionIds \cup {NoSession}]
  /\ DOMAIN sessions \subseteq SessionIds
  /\ \A s \in DOMAIN sessions :
       sessions[s] \in [code : Codes, expires : 0 .. (MaxNow + SessionTtl)]
  /\ page \in [Nonces -> PageRecord]
  /\ minted \subseteq Nonces \X SessionIds
  /\ handed \subseteq SessionIds
  /\ newcomers \subseteq SessionIds

ShopInit ==
  /\ Init
  /\ nonces = EmptyStore
  /\ sessions = EmptyStore
  /\ page = [n \in Nonces |-> ClosedPage]
  /\ minted = {}
  /\ handed = {}
  /\ newcomers = {}

-----------------------------------------------------------------------------
(***************************************************************************)
(* The page asks for a challenge, and its wallet proves a payment code.    *)
(***************************************************************************)
OpenPage(n) ==
  /\ up
  /\ page[n].at = "closed"
  /\ CanIssue(nonces, now)
  /\ nonces' = Issue(nonces, n, now)
  /\ page' = [page EXCEPT ![n] = [ClosedPage EXCEPT !.at = "polling", !.expires = now + NonceTtl]]
  /\ UNCHANGED <<vars, sessions, minted, handed, newcomers>>

\* What the callback does with a good proof by c for nonce n: the wallet may
\* post it late, again, or after the page has gone.
GoodProof(n, c) == up /\ Peek(nonces, n, now)

Fresh(s) == \A m \in minted : m[2] # s

Mint(n, s, c) ==
  /\ Fresh(s)
  /\ nonces' = MintedNonces(Take(nonces, n, now), n, s, now)
  /\ sessions' = Minted(sessions, s, c, now)
  /\ minted' = minted \cup {<<n, s>>}
  /\ UNCHANGED <<page, handed>>

CallbackReturning(n, s, c) ==
  /\ GoodProof(n, c)
  /\ c \in DOMAIN mem
  /\ Mint(n, s, c)
  /\ UNCHANGED <<vars, newcomers>>

CallbackRegisters(n, s, c) ==
  /\ GoodProof(n, c)
  /\ StorefrontAdd(c)
  /\ Mint(n, s, c)
  /\ newcomers' = newcomers \cup {s}

\* No room for a new customer: the nonce is spent all the same.
CallbackFull(n, c) ==
  /\ GoodProof(n, c)
  /\ c \notin DOMAIN mem
  /\ IsFull(mem)
  /\ nonces' = Take(nonces, n, now)
  /\ UNCHANGED <<vars, sessions, page, minted, handed, newcomers>>

\* Mutant: the add is not undone when the write fails.
CallbackNotUndone(n, c) ==
  /\ GoodProof(n, c)
  /\ CanAdd(mem, c)
  /\ mem' = Add(mem, c, now)
  /\ SaveFails(mem')
  /\ Enrolled(c)
  /\ nonces' = Take(nonces, n, now)
  /\ UNCHANGED <<up, env, listen, scan, sessions, page, minted, handed, newcomers>>

CallbackNotSaved(n, c) ==
  /\ GoodProof(n, c)
  /\ StorefrontAddNotSaved(c)
  /\ nonces' = Take(nonces, n, now)
  /\ UNCHANGED <<sessions, page, minted, handed, newcomers>>

-----------------------------------------------------------------------------
(***************************************************************************)
(* The page polls for its session until its own copy of the expiry passes; *)
(* the last request is checked, then waits for its timer and the network.  *)
(***************************************************************************)
Polling(n) == page[n].at = "polling" /\ now <= page[n].expires + PollDelay

\* Handing the session out retires the nonce.
HandOut(n) ==
  /\ up
  /\ Polling(n)
  /\ Claimable(nonces, n)
  /\ nonces' = Retire(nonces, n)
  /\ handed' = handed \cup {nonces[n].session}
  /\ UNCHANGED <<vars, sessions, minted, newcomers>>

Poll(n) ==
  /\ HandOut(n)
  /\ page' = [page EXCEPT ![n] = [ClosedPage EXCEPT !.at = "opening", !.session = nonces[n].session]]

\* The answer is lost on the way: the page gives up, or the browser repeats
\* the request.
PollLost(n) ==
  /\ HandOut(n)
  /\ page' \in {page, [page EXCEPT ![n] = IdlePage]}

\* After the expiry a failed poll and the end of the polling are the same.
PollFails(n) ==
  /\ page[n].at = "polling"
  /\ now <= page[n].expires
  /\ page' = [page EXCEPT ![n] = IdlePage]
  /\ UNCHANGED <<vars, nonces, sessions, minted, handed, newcomers>>

PageExpires(n) ==
  /\ page[n].at = "polling"
  /\ now > page[n].expires
  /\ page' = [page EXCEPT ![n] = IdlePage]
  /\ UNCHANGED <<vars, nonces, sessions, minted, handed, newcomers>>

-----------------------------------------------------------------------------
(***************************************************************************)
(* The page shows the address of its session and waits for the payment.    *)
(***************************************************************************)
\* The session is live and its customer registered.
Serves(s) == up /\ SessionLive(sessions, s, now) /\ sessions[s].code \in DOMAIN mem

ShowAddress(n) ==
  LET s == page[n].session
      c == sessions[s].code
  IN  /\ page[n].at = "opening"
      /\ Serves(s)
      /\ page' = [page EXCEPT ![n] = [@ EXCEPT !.at = "paying", !.code = c,
                                               !.index = mem[c].nextIndex]]
      /\ UNCHANGED <<vars, nonces, sessions, minted, handed, newcomers>>

\* No such session any more, or no such customer: the page starts over.
SessionRefused(n) ==
  /\ up
  /\ page[n].at = "opening"
  /\ ~Serves(page[n].session)
  /\ sessions' = Visited(sessions, page[n].session, now)
  /\ page' = [page EXCEPT ![n] = IdlePage]
  /\ UNCHANGED <<vars, nonces, minted, handed, newcomers>>

\* The request fails after the poll's timer is gone: nothing runs any more.
SessionFails(n) ==
  /\ page[n].at = "opening"
  /\ up => Serves(page[n].session)
  /\ page' = [page EXCEPT ![n] = IdlePage]
  /\ UNCHANGED <<vars, nonces, sessions, minted, handed, newcomers>>

\* The paid endpoint derives the address from the cursor as it is now.
AskPaid(n) ==
  /\ page[n].at = "paying"
  /\ page[n].asked = -1
  /\ Serves(page[n].session)
  /\ page' = [page EXCEPT ![n] = [@ EXCEPT !.asked = mem[sessions[page[n].session].code].nextIndex]]
  /\ UNCHANGED <<vars, nonces, sessions, minted, handed, newcomers>>

PaidRefused(n) ==
  /\ up
  /\ page[n].at = "paying"
  /\ page[n].asked = -1
  /\ ~Serves(page[n].session)
  /\ Visited(sessions, page[n].session, now) # sessions
  /\ sessions' = Visited(sessions, page[n].session, now)
  /\ UNCHANGED <<vars, nonces, page, minted, handed, newcomers>>

\* Mutant: any answer of the indexer counts as a payment.
AnswerPaidAlways(n) ==
  /\ page[n].at = "paying"
  /\ page[n].asked # -1
  /\ page' = [page EXCEPT ![n] = [@ EXCEPT !.at = "paid", !.asked = -1]]
  /\ UNCHANGED <<vars, nonces, sessions, minted, handed, newcomers>>

\* The indexer answers from the chain as it is now.
AnswerPaid(n) ==
  /\ page[n].at = "paying"
  /\ page[n].asked # -1
  /\ page' = [page EXCEPT ![n] =
       [@ EXCEPT !.at = IF <<page[n].code, page[n].asked>> \in funded THEN "paid" ELSE "paying",
                 !.asked = -1]]
  /\ UNCHANGED <<vars, nonces, sessions, minted, handed, newcomers>>

\* A lookup that fails reads as unpaid, and so does a lost answer.
AnswerFails(n) ==
  /\ page[n].at = "paying"
  /\ page[n].asked # -1
  /\ <<page[n].code, page[n].asked>> \in funded
  /\ page' = [page EXCEPT ![n] = [@ EXCEPT !.asked = -1]]
  /\ UNCHANGED <<vars, nonces, sessions, minted, handed, newcomers>>

\* The splash is shown for a while, then the page resets.
SplashEnds(n) ==
  /\ page[n].at = "paid"
  /\ page' = [page EXCEPT ![n] = IdlePage]
  /\ UNCHANGED <<vars, nonces, sessions, minted, handed, newcomers>>

-----------------------------------------------------------------------------
(***************************************************************************)
(* The process: both stores live in memory only.                           *)
(***************************************************************************)
ProcessEnds ==
  /\ Ending
  /\ nonces' = EmptyStore
  /\ sessions' = EmptyStore
  /\ page' = [n \in Nonces |-> [page[n] EXCEPT !.asked = -1]]
  /\ UNCHANGED <<minted, handed, newcomers>>

ReceiverStep == Environment \/ Listen \/ Scan \/ Restart

Callback(n) ==
  \E c \in Codes :
    \/ CallbackFull(n, c)
    \/ \E s \in SessionIds : CallbackReturning(n, s, c) \/ CallbackRegisters(n, s, c)

PageStep(n) ==
  \/ Poll(n)
  \/ PageExpires(n)
  \/ ShowAddress(n)
  \/ SessionRefused(n)
  \/ AskPaid(n)
  \/ AnswerPaid(n)
  \/ SplashEnds(n)

PageFault(n) ==
  \/ \E c \in Codes : CallbackNotSaved(n, c)
  \/ PollLost(n)
  \/ PollFails(n)
  \/ SessionFails(n)
  \/ AnswerFails(n)

ShopFault ==
  \/ JobFault /\ UNCHANGED web
  \/ ProcessEnds
  \/ \E n \in Nonces : PageFault(n)

ShopNext ==
  \/ ReceiverStep /\ UNCHANGED web
  \/ \E n \in Nonces : OpenPage(n) \/ Callback(n) \/ PageStep(n) \/ PaidRefused(n)
  \/ ShopFault

ShopSpec == ShopInit /\ [][ShopNext]_shopVars

\* A page that has something to do does it: its timers and fetches go on for
\* as long as it is open.  Faults end, as in FairSpec.
ShopFairSpec ==
  /\ ShopSpec
  /\ Fairness
  /\ \A n \in Nonces : WF_shopVars(PageStep(n))
  /\ <>[][~ShopFault]_shopVars

-----------------------------------------------------------------------------
(***************************************************************************)
(* What makes the storefront correct.                                      *)
(***************************************************************************)
\* The storefront beside the jobs is the Receiver: it touches the registry and
\* the state file only as Receiver says, so what holds of the one holds of the
\* other.
ImplementsReceiver == Spec

\* A proof is good for one session, however often a wallet posts it.
OneSessionPerProof == \A m1, m2 \in minted : m1[1] = m2[1] => m1 = m2

\* A session is handed out once, to one poll (auth47.ts, claimed).
HandedOutOnce ==
  [][\A n \in Nonces : HandOut(n) => nonces[n].session \notin handed]_shopVars

\* A session a browser has yet to claim survives replays, garbage collection
\* and other customers: it goes only when it is handed out, when its window is
\* over, or with the process (auth47.ts, take).
UnclaimedSurvives ==
  [][\A n \in DOMAIN nonces :
       Claimable(nonces, n) /\ nonces[n].expires >= now /\ up' =>
         \/ Claimable(nonces', n) /\ nonces'[n].session = nonces[n].session
         \/ nonces[n].session \in handed']_shopVars

\* The session a page gets is a live one, although claimed looks at no expiry:
\* the page stops polling long before the session can run out.
HandedOutLive ==
  [][\A n \in Nonces : HandOut(n) => SessionLive(sessions, nonces[n].session, now)]_shopVars

\* A customer the callback registered is watched for as long as the session
\* lives: the prune of unpaid registrations cannot reach them first.
NewcomerIsWatched ==
  \A s \in newcomers : SessionLive(sessions, s, now) => sessions[s].code \in DOMAIN mem

\* An address is shown only when every address below it has been paid, so the
\* window reaches it, whatever a crash makes the cursor forget.
ShownLeavesNoGap ==
  \A n \in Nonces :
    page[n].at = "paying" => {page[n].code} \X (0 .. (page[n].index - 1)) \subseteq funded

\* The page never thanks for a payment that was not made: "paid" is computed
\* for the cursor as it is then, which may have left the address on the page
\* behind, but only across payments.
PaidIsFunded ==
  \A n \in Nonces : page[n].at = "paid" => <<page[n].code, page[n].index>> \in funded

-----------------------------------------------------------------------------
(***************************************************************************)
(* What comments of the code and the page say and the code does not do.    *)
(***************************************************************************)
\* server.ts:440-441: the address of a session is one "the watcher is already
\* watching".
ShownAddressIsWatched ==
  \A n \in Nonces :
    page[n].at = "paying" /\ SessionLive(sessions, page[n].session, now)
      => page[n].code \in DOMAIN mem

\* server.ts:457-458: "a payment entering the mempool is noticed within
\* seconds" by the page that shows its address.
PaymentShown ==
  \A n \in Nonces :
    (page[n].at = "paying" /\ <<page[n].code, page[n].index>> \in funded)
      ~> (page[n].at # "paying" \/ ~Serves(page[n].session))

\* index.html:179, 189, 198: a page that resets says "scan again", so it comes
\* to poll for what a scan would prove.
ScanAgainWorks ==
  \A n \in Nonces : page[n].at = "idle" ~> page[n].at = "polling"
=============================================================================

-------------------------- MODULE StorefrontProofs --------------------------
(***************************************************************************)
(* The storefront implements the receiver, so every theorem about the      *)
(* receiver holds of the two together.                                     *)
(***************************************************************************)
EXTENDS Storefront, ReceiverProofs

\* A callback is, to the registry and the file, a registration or nothing.
LEMMA CallbackIsRegistration ==
  ASSUME NEW n \in Nonces, Callback(n) \/ \E c \in Codes : CallbackNotSaved(n, c)
  PROVE  [Next]_vars
<1>1. ASSUME NEW c \in Codes, NEW s \in SessionIds, CallbackRegisters(n, s, c) PROVE Next
  BY <1>1 DEF CallbackRegisters, Next, Registration
<1>2. ASSUME NEW c \in Codes, CallbackNotSaved(n, c) PROVE Next
  BY <1>2 DEF CallbackNotSaved, Next, Fault
<1>3. ASSUME NEW c \in Codes, NEW s \in SessionIds, CallbackReturning(n, s, c) PROVE UNCHANGED vars
  BY <1>3 DEF CallbackReturning
<1>4. ASSUME NEW c \in Codes, CallbackFull(n, c) PROVE UNCHANGED vars
  BY <1>4 DEF CallbackFull
<1>5. QED BY <1>1, <1>2, <1>3, <1>4 DEF Callback

\* Nothing else a page does reaches the receiver.
LEMMA PageIsApart ==
  ASSUME NEW n \in Nonces,
         \/ OpenPage(n) \/ PageStep(n) \/ PaidRefused(n)
         \/ PollLost(n) \/ PollFails(n) \/ SessionFails(n) \/ AnswerFails(n)
  PROVE  UNCHANGED vars
BY DEF OpenPage, PageStep, PaidRefused, PollLost, PollFails, SessionFails, AnswerFails, Poll,
       HandOut, PageExpires, ShowAddress, SessionRefused, AskPaid, AnswerPaid, SplashEnds

\* A step of the storefront is one of the receiver, or leaves it alone.
LEMMA ShopStep == ASSUME [ShopNext]_shopVars PROVE [Next]_vars
<1>1. CASE ReceiverStep
  BY <1>1 DEF ReceiverStep, Next
<1>2. CASE JobFault \/ ProcessEnds
  BY <1>2 DEF ProcessEnds, Next, Fault
<1>3. CASE \E n \in Nonces : Callback(n) \/ \E c \in Codes : CallbackNotSaved(n, c)
  BY <1>3, CallbackIsRegistration
<1>4. CASE \E n \in Nonces :
             \/ OpenPage(n) \/ PageStep(n) \/ PaidRefused(n)
             \/ PollLost(n) \/ PollFails(n) \/ SessionFails(n) \/ AnswerFails(n)
  BY <1>4, PageIsApart
<1>5. CASE UNCHANGED shopVars
  BY <1>5 DEF shopVars
<1>6. QED BY <1>1, <1>2, <1>3, <1>4, <1>5 DEF ShopNext, ShopFault, PageFault

\* The storefront beside the jobs touches the registry and the state file only
\* as the receiver does.
THEOREM ShopIsReceiver == ShopSpec => ImplementsReceiver
<1>1. ShopInit => Init
  BY DEF ShopInit
<1>2. [ShopNext]_shopVars => [Next]_vars
  BY ShopStep
<1>3. QED BY <1>1, <1>2, PTL DEF ShopSpec, ImplementsReceiver, Spec

\* So pages, sessions and lost answers cost no customer and no payment: with
\* the storefront too the state file is a durable ledger, and what the process
\* watches survives its end.
THEOREM ShopIsDurable == ShopSpec => ImplementsLedger /\ [](MemIsOnDisk /\ DiskLagsSafely)
BY ShopIsReceiver, FileIsDurableLedger, WatchedSurvives, LagIsSafe, PTL DEF ImplementsReceiver
-----------------------------------------------------------------------------
(***************************************************************************)
(* The storefront's own invariant: what its stores, its history and the    *)
(* open pages have to do with each other and with the registry.            *)
(***************************************************************************)
Drawn == {m[2] : m \in minted}

\* The stores are gone with the process.
DownForgets == ~up => nonces = EmptyStore /\ sessions = EmptyStore

\* A session id is drawn once, and nothing speaks of one that was not drawn.
DrawnOnce ==
  /\ \A m1, m2 \in minted : m1[2] = m2[2] => m1 = m2
  /\ DOMAIN sessions \cup newcomers \cup handed \subseteq Drawn

\* A challenge belongs to a page that was opened; one that minted a session is
\* consumed, one that has a session minted it and has not handed it out.
NonceKeepsSession ==
  /\ \A n \in Nonces : page[n].at = "closed" => n \notin DOMAIN nonces /\ \A m \in minted : m[1] # n
  /\ \A m \in minted : m[1] \in DOMAIN nonces => nonces[m[1]].used
  /\ \A n \in DOMAIN nonces : nonces[n].session # NoSession =>
       /\ <<n, nonces[n].session>> \in minted
       /\ nonces[n].session \notin handed

\* A page gives up polling before the session its proof minted can run out.
PollEndsFirst ==
  \A n \in Nonces : page[n].at = "polling" =>
    /\ page[n].expires <= now + NonceTtl
    /\ Claimable(nonces, n) /\ now <= page[n].expires + PollDelay =>
         /\ nonces[n].session \in DOMAIN sessions
         /\ sessions[nonces[n].session].expires >= page[n].expires + PollDelay

\* The registration a live session came with cannot go stale under it.
NewcomerStays ==
  \A s \in newcomers : SessionLive(sessions, s, now) =>
    /\ sessions[s].code \in DOMAIN mem
    /\ \/ Paid(mem[sessions[s].code])
       \/ sessions[s].expires <= mem[sessions[s].code].firstSeen + UnpaidTtl

\* While a page's session is in the store, the cursor of its customer is not
\* behind the address it shows: a pruned customer had paid nothing and comes
\* back at 0, and a restart, which may take a cursor back, forgets the session.
CursorNotBehind(n) ==
  LET s == page[n].session
      c == page[n].code
  IN  page[n].at = "paying" /\ s \in DOMAIN sessions =>
        /\ sessions[s].code = c
        /\ IF c \in DOMAIN mem THEN page[n].index <= mem[c].nextIndex ELSE page[n].index = 0

\* The index being looked up is not below the one shown, and what lies below
\* it is paid.
AskedLeavesNoGap(n) ==
  page[n].asked # -1 =>
    /\ page[n].at = "paying"
    /\ page[n].index <= page[n].asked
    /\ {page[n].code} \X (0 .. (page[n].asked - 1)) \subseteq funded

PageInv(n) ==
  /\ page[n].at \in {"opening", "paying"} => page[n].session \in Drawn
  /\ page[n].at \in {"paying", "paid"} => page[n].code \in Codes
  /\ CursorNotBehind(n)
  /\ AskedLeavesNoGap(n)

StoreInv ==
  /\ DownForgets
  /\ DrawnOnce
  /\ NonceKeepsSession
  /\ OneSessionPerProof
  /\ PollEndsFirst

CustomerInv ==
  /\ NewcomerStays
  /\ ShownLeavesNoGap
  /\ PaidIsFunded
  /\ \A n \in Nonces : PageInv(n)

WebInv == ShopTypeOK /\ StoreInv /\ CustomerInv

-----------------------------------------------------------------------------
(***************************************************************************)
(* What a step of the receiver means to the web.                           *)
(***************************************************************************)
\* Time and the chain only grow.
LEMMA TimeAndChain ==
  ASSUME IInv, IInv', [Next]_vars
  PROVE  /\ now \in Nat /\ now' \in Nat /\ now <= now'
         /\ funded \subseteq funded'
<1>1. now \in Nat /\ now' \in Nat
  BY DEF IInv, TypeOK, Clock
<1>2. funded \subseteq funded'
  BY ChainStep DEF vars, env
<1>3. now <= now'
  <2>1. CASE UNCHANGED now
    BY <1>1, <2>1
  <2>2. CASE Tick
    BY <1>1, <2>2 DEF Tick
  <2>3. CASE \E e \in Entries : Post(e) \/ Expire(e)
    BY <1>1, <2>3 DEF Post, Expire
  <2>4. CASE \E c \in Codes, i \in Index : Pay(c, i)
    BY <1>1, <2>4 DEF Pay
  <2>5. CASE Listen
    <3>1. now' = now
      BY <2>5 DEF Listen, BeginListen, ListDirectory, NextDirectory, Drop, Defer, Accept, RemoveEntry, env
    <3>2. QED BY <1>1, <3>1
  <2>6. CASE Scan
    <3>1. now' = now
      BY <2>6 DEF Scan, BeginScan, Lookup, FindNothing, Credit, env
    <3>2. QED BY <1>1, <3>1
  <2>7. CASE Registration \/ Restart
    <3>1. now' = now
      BY <2>7 DEF Registration, StorefrontAdd, Restart, env
    <3>2. QED BY <1>1, <3>1
  <2>8. CASE Fault
    <3>1. now' = now
      BY <2>8 DEF Fault, JobFault, Ending, PruneNotSaved, ListReadsEmpty, ListFails, AcceptNotSaved,
                  RemoveRefused, RemoveFails, CallHangs, LookupFails, CreditNotSaved,
                  StorefrontAddNotSaved, Crash, CrashBeforeAnnounce, env
    <3>2. QED BY <1>1, <3>1
  <2>9. QED BY <2>1, <2>2, <2>3, <2>4, <2>5, <2>6, <2>7, <2>8 DEF Next, Environment, vars, env
<1>4. QED BY <1>1, <1>2, <1>3

\* What a step of a process that goes on does to memory.
LEMMA MemoryWrites ==
  ASSUME IInv, [Next]_vars, up, up'
  PROVE  \/ mem' = mem
         \/ \E c \in Codes : c \notin DOMAIN mem /\ mem' = Add(mem, c, now)
         \/ mem' = Prune(mem, now)
         \/ mem' = CreditAll(mem, scan.found)
<1> DEFINE Writes ==
      \/ mem' = mem
      \/ \E c \in Codes : c \notin DOMAIN mem /\ mem' = Add(mem, c, now)
      \/ mem' = Prune(mem, now)
      \/ mem' = CreditAll(mem, scan.found)
<1>1. CASE Environment \/ UNCHANGED vars
  BY <1>1 DEF Environment, Tick, Post, Expire, Pay, vars
<1>2. CASE BeginListen \/ PruneNotSaved
  BY <1>2 DEF BeginListen, PruneNotSaved
<1>3. ASSUME NEW e \in Entries, Accept(e) PROVE Writes
  <2>1. EntryCode[e] \in Codes /\ EntryCode[e] \notin DOMAIN mem
    BY <1>3, EntryAssumption DEF Accept, CanAdd
  <2>2. mem' = Add(mem, EntryCode[e], now)
    BY <1>3 DEF Accept
  <2>3. QED BY <2>1, <2>2
<1>4. ASSUME NEW c \in Codes, StorefrontAdd(c) PROVE Writes
  BY <1>4 DEF StorefrontAdd, CanAdd
<1>5. CASE Credit \/ CreditNotSaved
  BY <1>5 DEF Credit, CreditNotSaved
<1>6. CASE ListDirectory \/ NextDirectory \/ ListReadsEmpty \/ ListFails
  BY <1>6 DEF ListDirectory, NextDirectory, ListReadsEmpty, ListFails
<1>7. ASSUME NEW e \in Entries, Drop(e) \/ Defer(e) \/ AcceptNotSaved(e) PROVE Writes
  BY <1>7 DEF Drop, Defer, AcceptNotSaved
<1>8. CASE RemoveEntry \/ RemoveRefused \/ RemoveFails \/ CallHangs
  BY <1>8 DEF RemoveEntry, RemoveRefused, RemoveFails, CallHangs
<1>9. CASE BeginScan \/ FindNothing \/ LookupFails
  BY <1>9 DEF BeginScan, FindNothing, LookupFails
<1>10. ASSUME NEW w \in Watched, Lookup(w) PROVE Writes
  BY <1>10 DEF Lookup
<1>11. ASSUME NEW c \in Codes, StorefrontAddNotSaved(c) PROVE Writes
  BY <1>11 DEF StorefrontAddNotSaved
<1>12. CASE Ending \/ Restart
  BY <1>12 DEF Ending, Crash, CrashBeforeAnnounce, Stopped, Restart
<1> HIDE DEF Writes
<1>13. Writes
  BY <1>1, <1>2, <1>3, <1>4, <1>5, <1>6, <1>7, <1>8, <1>9, <1>10, <1>11, <1>12
     DEF Next, Listen, Scan, Registration, Fault, JobFault, Writes
<1>14. QED BY <1>13 DEF Writes

\* A registration that stays keeps its time and what was paid, and its cursor
\* does not move back; one that goes was unpaid and too old.
LEMMA RegistrationMoves ==
  ASSUME IInv, [Next]_vars, up, up', NEW c \in DOMAIN mem
  PROVE  IF c \in DOMAIN mem'
         THEN /\ mem[c].nextIndex <= mem'[c].nextIndex
              /\ mem'[c].firstSeen = mem[c].firstSeen
              /\ Paid(mem[c]) => Paid(mem'[c])
         ELSE ~Paid(mem[c]) /\ mem[c].firstSeen < now - UnpaidTtl
<1>1. mem \in Registries /\ now \in Clock /\ scan.found \in SUBSET (Codes \X Index)
  BY DEF IInv, TypeOK, Addresses
<1>2. mem[c] \in SenderRecord /\ mem[c].nextIndex \in Nat
  BY <1>1, RegistryFields, RecordFields
<1>3. CASE c \in DOMAIN mem' /\ mem'[c] = mem[c]
  BY <1>2, <1>3
<1>4. ASSUME NEW d \in Codes, mem' = Add(mem, d, now), d \notin DOMAIN mem
      PROVE  c \in DOMAIN mem' /\ mem'[c] = mem[c]
  BY <1>4 DEF Add
<1>5. CASE mem' = Prune(mem, now)
  <2>1. CASE c \in Stale(mem, now)
    BY <1>5, <2>1 DEF Prune, Restrict, Stale
  <2>2. CASE c \notin Stale(mem, now)
    <3>1. c \in DOMAIN mem' /\ mem'[c] = mem[c]
      BY <1>5, <2>2 DEF Prune, Restrict
    <3>2. QED BY <1>3, <3>1
  <2>3. QED BY <2>1, <2>2
<1>6. CASE mem' = CreditAll(mem, scan.found)
  <2> DEFINE of == {i \in Index : <<c, i>> \in scan.found}
  <2>1. c \in DOMAIN mem' /\ mem'[c] = Advance(mem[c], of)
    BY <1>6 DEF CreditAll
  <2>2. of \in SUBSET Index
    OBVIOUS
  <2> HIDE DEF of
  <2>3. QED BY <1>2, <2>1, <2>2, AdvanceForward
<1>7. QED BY <1>3, <1>4, <1>5, <1>6, MemoryWrites

-----------------------------------------------------------------------------
(***************************************************************************)
(* The steps, grouped by what they touch.                                  *)
(***************************************************************************)
\* What ShopTypeOK says of single fields.
LEMMA WebFields ==
  ASSUME ShopTypeOK
  PROVE  /\ now \in 0 .. MaxNow /\ now \in Nat
         /\ NonceTtl \in Nat /\ SessionTtl \in Nat /\ PollDelay \in Nat /\ UnpaidTtl \in Nat
         /\ MaxNow \in Nat /\ MaxIndex \in Nat
         /\ \A n \in DOMAIN nonces :
              /\ n \in Nonces
              /\ nonces[n].expires \in 0 .. (MaxNow + NonceTtl)
              /\ nonces[n].used \in BOOLEAN
              /\ nonces[n].session \in SessionIds \cup {NoSession}
         /\ \A s \in DOMAIN sessions :
              /\ s \in SessionIds
              /\ sessions[s].code \in Codes
              /\ sessions[s].expires \in 0 .. (MaxNow + SessionTtl)
         /\ \A n \in Nonces :
              /\ page[n] \in PageRecord
              /\ page[n].expires \in 0 .. (MaxNow + NonceTtl)
              /\ page[n].index \in 0 .. (MaxIndex + 1)
              /\ page[n].asked \in -1 .. (MaxIndex + 1)
         /\ NoSession \notin SessionIds
<1>1. now \in 0 .. MaxNow /\ MaxNow \in Nat /\ MaxIndex \in Nat /\ UnpaidTtl \in Nat
  BY RegistryAssumption DEF ShopTypeOK, TypeOK, Clock
<1>2. NonceTtl \in Nat /\ SessionTtl \in Nat /\ PollDelay \in Nat /\ NoSession \notin SessionIds
  BY Auth47Assumption, TtlAssumption
<1>3. \A n \in DOMAIN nonces :
        /\ n \in Nonces
        /\ nonces[n].expires \in 0 .. (MaxNow + NonceTtl)
        /\ nonces[n].used \in BOOLEAN
        /\ nonces[n].session \in SessionIds \cup {NoSession}
  BY DEF ShopTypeOK
<1>4. \A s \in DOMAIN sessions :
        /\ s \in SessionIds
        /\ sessions[s].code \in Codes
        /\ sessions[s].expires \in 0 .. (MaxNow + SessionTtl)
  BY DEF ShopTypeOK
<1>5. \A n \in Nonces :
        /\ page[n] \in PageRecord
        /\ page[n].expires \in 0 .. (MaxNow + NonceTtl)
        /\ page[n].index \in 0 .. (MaxIndex + 1)
        /\ page[n].asked \in -1 .. (MaxIndex + 1)
  BY DEF ShopTypeOK, PageRecord
<1>6. QED BY <1>1, <1>2, <1>3, <1>4, <1>5

\* Whatever the receiver does while the process goes on, or is started.
LEMMA ReceiverMoves ==
  ASSUME IInv, IInv', WebInv, [Next]_vars, UNCHANGED web, up => up'
  PROVE  WebInv'
<1>1. /\ now \in Nat /\ now' \in Nat /\ now <= now'
      /\ funded \subseteq funded'
  BY TimeAndChain
<1>w. UNCHANGED <<nonces, sessions, page, minted, handed, newcomers>>
  BY DEF web
<1>2. ShopTypeOK'
  BY <1>w DEF WebInv, ShopTypeOK, IInv
<1>3. DownForgets' /\ DrawnOnce' /\ NonceKeepsSession' /\ OneSessionPerProof'
  BY <1>w DEF WebInv, StoreInv, DownForgets, DrawnOnce, Drawn, NonceKeepsSession, OneSessionPerProof
<1>4. PollEndsFirst'
  <2> SUFFICES ASSUME NEW n \in Nonces, page[n].at = "polling"
               PROVE  /\ page[n].expires <= now' + NonceTtl
                      /\ Claimable(nonces, n) /\ now' <= page[n].expires + PollDelay =>
                           /\ nonces[n].session \in DOMAIN sessions
                           /\ sessions[nonces[n].session].expires >= page[n].expires + PollDelay
    BY <1>w DEF PollEndsFirst, Claimable
  <2>1. page[n].expires \in Nat /\ NonceTtl \in Nat /\ PollDelay \in Nat
    BY WebFields DEF WebInv
  <2>2. page[n].expires <= now + NonceTtl
    BY DEF WebInv, StoreInv, PollEndsFirst
  <2>3. now' <= page[n].expires + PollDelay => now <= page[n].expires + PollDelay
    BY <1>1, <2>1
  <2>4. QED BY <1>1, <2>1, <2>2, <2>3 DEF WebInv, StoreInv, PollEndsFirst
<1>5. NewcomerStays'
  <2> SUFFICES ASSUME NEW s \in newcomers, SessionLive(sessions, s, now')
               PROVE  /\ sessions[s].code \in DOMAIN mem'
                      /\ \/ Paid(mem'[sessions[s].code])
                         \/ sessions[s].expires <= mem'[sessions[s].code].firstSeen + UnpaidTtl
    BY <1>w DEF NewcomerStays, SessionLive
  <2> DEFINE c == sessions[s].code
  <2>1. s \in DOMAIN sessions /\ sessions[s].expires \in Nat /\ UnpaidTtl \in Nat
    BY WebFields DEF WebInv, SessionLive
  <2>2. SessionLive(sessions, s, now) /\ now' <= sessions[s].expires /\ now <= sessions[s].expires
    BY <1>1, <2>1 DEF SessionLive
  <2>3. up /\ up'
    BY <2>1 DEF WebInv, StoreInv, DownForgets, EmptyStore
  <2>4. /\ c \in DOMAIN mem
        /\ Paid(mem[c]) \/ sessions[s].expires <= mem[c].firstSeen + UnpaidTtl
    BY <2>2 DEF WebInv, CustomerInv, NewcomerStays
  <2>5. mem[c].firstSeen \in Nat
    BY <2>4, RegistryFields, RecordFields DEF IInv, TypeOK, Clock
  <2> HIDE DEF c
  <2>6. IF c \in DOMAIN mem'
        THEN mem'[c].firstSeen = mem[c].firstSeen /\ (Paid(mem[c]) => Paid(mem'[c]))
        ELSE ~Paid(mem[c]) /\ mem[c].firstSeen < now - UnpaidTtl
    BY <2>3, <2>4, RegistrationMoves
  <2>7. c \in DOMAIN mem'
    BY <1>1, <2>1, <2>2, <2>4, <2>5, <2>6
  <2>8. QED BY <2>4, <2>6, <2>7 DEF c
<1>6. ShownLeavesNoGap' /\ PaidIsFunded'
  BY <1>1, <1>w DEF WebInv, CustomerInv, ShownLeavesNoGap, PaidIsFunded
<1>7. ASSUME NEW n \in Nonces PROVE PageInv(n)'
  <2>1. PageInv(n)
    BY DEF WebInv, CustomerInv
  <2>2. CursorNotBehind(n)'
    <3> DEFINE s == page[n].session
               c == page[n].code
    <3> SUFFICES ASSUME page[n].at = "paying", s \in DOMAIN sessions
                 PROVE  /\ sessions[s].code = c
                        /\ IF c \in DOMAIN mem' THEN page[n].index <= mem'[c].nextIndex
                                                ELSE page[n].index = 0
      BY <1>w DEF CursorNotBehind
    <3>1. /\ sessions[s].code = c
          /\ IF c \in DOMAIN mem THEN page[n].index <= mem[c].nextIndex ELSE page[n].index = 0
      BY <2>1 DEF PageInv, CursorNotBehind
    <3>2. up /\ up'
      BY DEF WebInv, StoreInv, DownForgets, EmptyStore
    <3>3. page[n].index \in Nat
      BY WebFields DEF WebInv
    <3>4. \A d \in DOMAIN mem : mem[d].nextIndex \in Nat
      BY RegistryFields, RecordFields DEF IInv, TypeOK
    <3>5. \A d \in DOMAIN mem' : mem'[d].nextIndex \in Nat
      BY RegistryFields, RecordFields DEF IInv, TypeOK
    <3> HIDE DEF s, c
    <3>6. CASE c \in DOMAIN mem
      <4>1. IF c \in DOMAIN mem' THEN mem[c].nextIndex <= mem'[c].nextIndex ELSE ~Paid(mem[c])
        BY <3>2, <3>6, RegistrationMoves
      <4>2. CASE c \in DOMAIN mem'
        BY <3>1, <3>3, <3>4, <3>5, <3>6, <4>1, <4>2
      <4>3. CASE c \notin DOMAIN mem'
        <5>1. mem[c].nextIndex = 0
          BY <4>1, <4>3 DEF Paid
        <5>2. QED BY <3>1, <3>3, <3>6, <4>3, <5>1
      <4>4. QED BY <4>2, <4>3
    <3>7. CASE c \notin DOMAIN mem
      BY <3>1, <3>5, <3>7
    <3>8. QED BY <3>6, <3>7
  <2>3. AskedLeavesNoGap(n)'
    BY <1>1, <1>w, <2>1 DEF PageInv, AskedLeavesNoGap
  <2>4. QED BY <1>w, <2>1, <2>2, <2>3 DEF PageInv, Drawn
<1>8. QED BY <1>2, <1>3, <1>4, <1>5, <1>6, <1>7 DEF WebInv, StoreInv, CustomerInv

\* The end of the process takes both stores with it; the pages stay open.
LEMMA ProcessEndsMoves ==
  ASSUME IInv, IInv', WebInv, [Next]_vars, ProcessEnds
  PROVE  WebInv'
<1>1. /\ now \in Nat /\ now' = now /\ funded' = funded
      /\ up' = FALSE
  <2>1. now \in Nat
    BY DEF IInv, TypeOK, Clock
  <2>2. QED BY <2>1 DEF ProcessEnds, Ending, Crash, CrashBeforeAnnounce, Stopped, env
<1>2. /\ nonces' = EmptyStore /\ DOMAIN nonces' = {}
      /\ sessions' = EmptyStore /\ DOMAIN sessions' = {}
      /\ UNCHANGED <<minted, handed, newcomers>>
  BY DEF ProcessEnds, EmptyStore
<1>3. \A n \in Nonces :
        /\ page'[n].asked = -1
        /\ page'[n] \in PageRecord
        /\ page'[n].at = page[n].at /\ page'[n].expires = page[n].expires
        /\ page'[n].session = page[n].session
        /\ page'[n].code = page[n].code /\ page'[n].index = page[n].index
  <2>1. \A n \in Nonces : page'[n] = [page[n] EXCEPT !.asked = -1]
    BY DEF ProcessEnds
  <2>2. \A n \in Nonces : page[n] \in PageRecord
    BY WebFields DEF WebInv
  <2>3. -1 \in -1 .. (MaxIndex + 1)
    BY RegistryAssumption
  <2>4. QED BY <2>1, <2>2, <2>3 DEF PageRecord
<1>4. ShopTypeOK'
  <2>1. page' \in [Nonces -> PageRecord]
    BY <1>3 DEF ProcessEnds
  <2>2. QED BY <1>2, <2>1 DEF WebInv, ShopTypeOK, IInv
<1>5. StoreInv'
  <2>1. DownForgets' /\ DrawnOnce' /\ OneSessionPerProof'
    BY <1>2 DEF WebInv, StoreInv, DownForgets, DrawnOnce, Drawn, OneSessionPerProof
  <2>2. NonceKeepsSession'
    BY <1>2, <1>3 DEF WebInv, StoreInv, NonceKeepsSession
  <2>3. PollEndsFirst'
    BY <1>1, <1>2, <1>3 DEF WebInv, StoreInv, PollEndsFirst, Claimable
  <2>4. QED BY <2>1, <2>2, <2>3 DEF StoreInv
<1>6. NewcomerStays'
  BY <1>2 DEF NewcomerStays, SessionLive
<1>7. ShownLeavesNoGap' /\ PaidIsFunded'
  BY <1>1, <1>3 DEF WebInv, CustomerInv, ShownLeavesNoGap, PaidIsFunded
<1>8. ASSUME NEW n \in Nonces PROVE PageInv(n)'
  BY <1>2, <1>3 DEF WebInv, CustomerInv, PageInv, CursorNotBehind, AskedLeavesNoGap, Drawn
<1>9. QED BY <1>4, <1>5, <1>6, <1>7, <1>8 DEF WebInv, CustomerInv

\* A challenge is issued for a page that was never opened.
LEMMA OpenPageKeeps ==
  ASSUME IInv, WebInv, NEW n \in Nonces, OpenPage(n)
  PROVE  WebInv'
<1> DEFINE new == [expires |-> now + NonceTtl, used |-> FALSE, session |-> NoSession]
<1>1. /\ UNCHANGED <<vars, sessions, minted, handed, newcomers>>
      /\ page[n].at = "closed"
      /\ page' = [page EXCEPT ![n] = [ClosedPage EXCEPT !.at = "polling", !.expires = now + NonceTtl]]
      /\ nonces' = Issue(nonces, n, now)
      /\ up
  BY DEF OpenPage
<1>v. UNCHANGED <<up, now, funded, mem>>
  BY <1>1 DEF vars, env
<1>2. /\ DOMAIN nonces' = DOMAIN Live(nonces, now) \cup {n}
      /\ nonces'[n] = new
      /\ \A m \in DOMAIN nonces' \ {n} : m \in DOMAIN nonces /\ nonces'[m] = nonces[m]
  BY <1>1 DEF Issue, With, Live, Restrict
<1>3. n \notin DOMAIN nonces /\ \A m \in minted : m[1] # n
  BY <1>1 DEF WebInv, StoreInv, NonceKeepsSession
<1>4. /\ page'[n].at = "polling" /\ page'[n].expires = now + NonceTtl /\ page'[n].asked = -1
      /\ page'[n] \in PageRecord
      /\ \A m \in Nonces \ {n} : page'[m] = page[m]
  <2>1. page'[n] = [ClosedPage EXCEPT !.at = "polling", !.expires = now + NonceTtl]
        /\ \A m \in Nonces \ {n} : page'[m] = page[m]
    BY <1>1 DEF WebInv, ShopTypeOK
  <2>2. now + NonceTtl \in 0 .. (MaxNow + NonceTtl)
    BY WebFields DEF WebInv
  <2>3. 0 \in 0 .. (MaxIndex + 1) /\ -1 \in -1 .. (MaxIndex + 1)
    BY RegistryAssumption
  <2>4. QED BY <2>1, <2>2, <2>3 DEF ClosedPage, PageRecord
<1>5. ShopTypeOK'
  <2>1. TypeOK'
    BY <1>1 DEF WebInv, ShopTypeOK, TypeOK, vars, env
  <2>2. page' \in [Nonces -> PageRecord]
    BY <1>1, <1>4 DEF WebInv, ShopTypeOK
  <2>3. new \in [expires : 0 .. (MaxNow + NonceTtl), used : BOOLEAN, session : SessionIds \cup {NoSession}]
    BY WebFields DEF WebInv
  <2> HIDE DEF new
  <2>4. /\ DOMAIN nonces' \subseteq Nonces
        /\ \A m \in DOMAIN nonces' :
             nonces'[m] \in [expires : 0 .. (MaxNow + NonceTtl), used : BOOLEAN,
                             session : SessionIds \cup {NoSession}]
    BY <1>2, <2>3 DEF WebInv, ShopTypeOK
  <2>5. QED BY <1>1, <2>1, <2>2, <2>4 DEF WebInv, ShopTypeOK
<1>6. StoreInv'
  <2>1. DownForgets' /\ DrawnOnce' /\ OneSessionPerProof'
    BY <1>1, <1>v DEF WebInv, StoreInv, DownForgets, DrawnOnce, Drawn, OneSessionPerProof
  <2>2. NonceKeepsSession'
    BY <1>1, <1>2, <1>3, <1>4 DEF WebInv, StoreInv, NonceKeepsSession
  <2>3. PollEndsFirst'
    <3>1. PollEndsFirst /\ now \in Nat /\ NonceTtl \in Nat
      BY WebFields DEF WebInv, StoreInv
    <3>2. ~Claimable(nonces', n)
      BY <1>2 DEF Claimable
    <3>3. \A m \in Nonces \ {n} : Claimable(nonces', m) => Claimable(nonces, m) /\ nonces'[m] = nonces[m]
      BY <1>2 DEF Claimable
    <3>4. QED BY <1>1, <1>v, <1>4, <3>1, <3>2, <3>3 DEF PollEndsFirst
  <2>4. QED BY <2>1, <2>2, <2>3 DEF StoreInv
<1>7. CustomerInv'
  <2>1. NewcomerStays'
    BY <1>1, <1>v DEF WebInv, CustomerInv, NewcomerStays
  <2>2. ShownLeavesNoGap' /\ PaidIsFunded'
    BY <1>v, <1>4 DEF WebInv, CustomerInv, ShownLeavesNoGap, PaidIsFunded
  <2>3. ASSUME NEW m \in Nonces PROVE PageInv(m)'
    BY <1>1, <1>v, <1>4 DEF WebInv, CustomerInv, PageInv, CursorNotBehind, AskedLeavesNoGap, Drawn
  <2>4. QED BY <2>1, <2>2, <2>3 DEF CustomerInv
<1>8. QED BY <1>5, <1>6, <1>7 DEF WebInv

\* A look at the sessions drops an expired one at most.
LEMMA VisitedKeepsLive ==
  ASSUME NEW S, NEW s, NEW t, NEW T, T = S \/ T = Visited(S, s, t)
  PROVE  /\ DOMAIN T \subseteq DOMAIN S
         /\ \A k \in DOMAIN T : T[k] = S[k]
         /\ \A k \in DOMAIN S : S[k].expires >= t => k \in DOMAIN T
  BY DEF Visited, SessionLive, Restrict

\* A page turns to q, and some expired session may go.
LEMMA PageTurns ==
  ASSUME IInv, WebInv, NEW n \in Nonces, NEW q \in PageRecord, NEW s,
         UNCHANGED <<vars, nonces, minted, handed, newcomers>>,
         sessions' = sessions \/ sessions' = Visited(sessions, s, now),
         page' = [page EXCEPT ![n] = q],
         page[n].at # "closed", q.at # "closed", q.at = "polling" => q = page[n],
         q.at \in {"opening", "paying"} => q.session \in Drawn,
         q.at \in {"paying", "paid"} => q.code \in Codes,
         q.at = "paying" => {q.code} \X (0 .. (q.index - 1)) \subseteq funded,
         q.at = "paid" => <<q.code, q.index>> \in funded,
         q.at = "paying" /\ q.session \in DOMAIN sessions =>
           /\ sessions[q.session].code = q.code
           /\ IF q.code \in DOMAIN mem THEN q.index <= mem[q.code].nextIndex ELSE q.index = 0,
         q.asked # -1 =>
           /\ q.at = "paying"
           /\ q.index <= q.asked
           /\ {q.code} \X (0 .. (q.asked - 1)) \subseteq funded
  PROVE  WebInv'
<1>v. UNCHANGED <<up, now, funded, mem>>
  BY DEF vars, env
<1>1. page'[n] = q /\ \A m \in Nonces \ {n} : page'[m] = page[m]
  BY DEF WebInv, ShopTypeOK
<1>2. /\ DOMAIN sessions' \subseteq DOMAIN sessions
      /\ \A k \in DOMAIN sessions' : sessions'[k] = sessions[k]
      /\ \A k \in DOMAIN sessions : sessions[k].expires >= now => k \in DOMAIN sessions'
  BY VisitedKeepsLive
<1>3. ShopTypeOK'
  <2>1. TypeOK'
    BY DEF WebInv, ShopTypeOK, TypeOK, vars, env
  <2>2. page' \in [Nonces -> PageRecord]
    BY DEF WebInv, ShopTypeOK
  <2>3. QED BY <1>2, <2>1, <2>2 DEF WebInv, ShopTypeOK
<1>4. StoreInv'
  <2>1. DownForgets'
    <3>1. sessions = EmptyStore => sessions' = EmptyStore
      <4>1. sessions = EmptyStore => Visited(sessions, s, now) = EmptyStore
        BY DEF EmptyStore, Visited, SessionLive, Restrict
      <4>2. QED BY <4>1
    <3>2. QED BY <1>v, <3>1 DEF WebInv, StoreInv, DownForgets
  <2>2. DrawnOnce' /\ OneSessionPerProof'
    BY <1>2 DEF WebInv, StoreInv, DrawnOnce, Drawn, OneSessionPerProof
  <2>3. NonceKeepsSession'
    BY <1>1 DEF WebInv, StoreInv, NonceKeepsSession
  <2>4. PollEndsFirst'
    <3> SUFFICES ASSUME NEW m \in Nonces, page'[m].at = "polling"
                 PROVE  /\ page[m].expires <= now + NonceTtl
                        /\ Claimable(nonces, m) /\ now <= page[m].expires + PollDelay =>
                             /\ nonces[m].session \in DOMAIN sessions'
                             /\ sessions'[nonces[m].session].expires >= page[m].expires + PollDelay
      BY <1>v, <1>1 DEF PollEndsFirst, Claimable
    <3>1. page'[m] = page[m]
      BY <1>1
    <3>2. /\ page[m].expires <= now + NonceTtl
          /\ Claimable(nonces, m) /\ now <= page[m].expires + PollDelay =>
               /\ nonces[m].session \in DOMAIN sessions
               /\ sessions[nonces[m].session].expires >= page[m].expires + PollDelay
      BY <3>1 DEF WebInv, StoreInv, PollEndsFirst
    <3>3. now \in Nat /\ page[m].expires \in Nat /\ PollDelay \in Nat
          /\ \A k \in DOMAIN sessions : sessions[k].expires \in Nat
      BY WebFields DEF WebInv
    <3>4. QED BY <1>2, <3>2, <3>3
  <2>5. QED BY <2>1, <2>2, <2>3, <2>4 DEF StoreInv
<1>5. CustomerInv'
  <2>1. NewcomerStays'
    BY <1>v, <1>2 DEF WebInv, CustomerInv, NewcomerStays, SessionLive
  <2>2. ShownLeavesNoGap' /\ PaidIsFunded'
    BY <1>v, <1>1 DEF WebInv, CustomerInv, ShownLeavesNoGap, PaidIsFunded
  <2>3. ASSUME NEW m \in Nonces PROVE PageInv(m)'
    <3>1. CASE m = n
      BY <1>v, <1>1, <1>2, <3>1 DEF PageInv, CursorNotBehind, AskedLeavesNoGap, Drawn
    <3>2. CASE m # n
      BY <1>v, <1>1, <1>2, <3>2 DEF WebInv, CustomerInv, PageInv, CursorNotBehind, AskedLeavesNoGap, Drawn
    <3>3. QED BY <3>1, <3>2
  <2>4. QED BY <2>1, <2>2, <2>3 DEF CustomerInv
<1>6. QED BY <1>3, <1>4, <1>5 DEF WebInv

\* A page that starts over, whatever it was doing.
LEMMA PageResets ==
  ASSUME IInv, WebInv, NEW n \in Nonces, NEW s,
         UNCHANGED <<vars, nonces, minted, handed, newcomers>>,
         sessions' = sessions \/ sessions' = Visited(sessions, s, now),
         page[n].at # "closed",
         page' = [page EXCEPT ![n] = IdlePage]
  PROVE  WebInv'
<1>1. IdlePage.at = "idle" /\ IdlePage.asked = -1
  BY DEF IdlePage, ClosedPage
<1>2. IdlePage \in PageRecord
  <2>1. 0 \in 0 .. (MaxNow + NonceTtl) /\ 0 \in 0 .. (MaxIndex + 1) /\ -1 \in -1 .. (MaxIndex + 1)
    BY WebFields DEF WebInv
  <2>2. QED BY <2>1 DEF IdlePage, ClosedPage, PageRecord
<1> HIDE DEF IdlePage
<1>3. QED BY <1>1, <1>2, PageTurns

\* The address shown and the index looked up are the cursor of now, with every
\* index below it paid.
LEMMA CursorLeavesNoGap ==
  ASSUME IInv, NEW c \in DOMAIN mem
  PROVE  /\ mem[c].nextIndex \in 0 .. (MaxIndex + 1)
         /\ {c} \X (0 .. (mem[c].nextIndex - 1)) \subseteq funded
<1>1. mem[c].nextIndex \in Nat /\ mem[c].nextIndex <= MaxIndex + 1 /\ MaxIndex \in Nat
  BY RegistryFields, RecordFields, RegistryAssumption DEF IInv, TypeOK
<1>2. 0 .. (mem[c].nextIndex - 1) \subseteq KnownUsed(mem[c])
  BY <1>1 DEF KnownUsed, Index
<1>3. {c} \X KnownUsed(mem[c]) \subseteq funded
  BY DEF IInv, RegistryInv, KnownUsedIsFunded
<1>4. QED BY <1>1, <1>2, <1>3

\* The page shows the address of its session.
LEMMA ShowAddressKeeps ==
  ASSUME IInv, WebInv, NEW n \in Nonces, ShowAddress(n)
  PROVE  WebInv'
<1> DEFINE s == page[n].session
           c == sessions[s].code
           q == [page[n] EXCEPT !.at = "paying", !.code = c, !.index = mem[c].nextIndex]
<1>1. /\ page[n].at = "opening" /\ s \in DOMAIN sessions /\ c \in DOMAIN mem
      /\ page' = [page EXCEPT ![n] = q]
      /\ UNCHANGED <<vars, nonces, sessions, minted, handed, newcomers>>
  BY DEF ShowAddress, Serves, SessionLive
<1>2. mem[c].nextIndex \in 0 .. (MaxIndex + 1) /\ {c} \X (0 .. (mem[c].nextIndex - 1)) \subseteq funded
  BY <1>1, CursorLeavesNoGap
<1>3. c \in Codes /\ page[n] \in PageRecord
  BY <1>1, WebFields DEF WebInv
<1>4. s \in Drawn /\ page[n].asked = -1
  BY <1>1 DEF WebInv, CustomerInv, PageInv, AskedLeavesNoGap
<1>5. /\ q \in PageRecord /\ q.at = "paying" /\ q.session = s /\ q.code = c
      /\ q.index = mem[c].nextIndex /\ q.asked = -1
  BY <1>2, <1>3, <1>4 DEF PageRecord
<1>6. mem[c].nextIndex \in Nat /\ q.index <= mem[c].nextIndex /\ sessions[q.session].code = q.code
  BY <1>2, <1>5
<1> HIDE DEF q, c, s
<1>7. QED BY <1>1, <1>2, <1>3, <1>4, <1>5, <1>6, PageTurns

\* The paid endpoint asks about the cursor, which is not behind the page.
LEMMA AskPaidKeeps ==
  ASSUME IInv, WebInv, NEW n \in Nonces, AskPaid(n)
  PROVE  WebInv'
<1> DEFINE s == page[n].session
           c == page[n].code
           q == [page[n] EXCEPT !.asked = mem[sessions[s].code].nextIndex]
<1>1. /\ page[n].at = "paying" /\ s \in DOMAIN sessions /\ sessions[s].code \in DOMAIN mem
      /\ page' = [page EXCEPT ![n] = q]
      /\ UNCHANGED <<vars, nonces, sessions, minted, handed, newcomers>>
  BY DEF AskPaid, Serves, SessionLive
<1>2. /\ sessions[s].code = c
      /\ page[n].index <= mem[c].nextIndex
  BY <1>1 DEF WebInv, CustomerInv, PageInv, CursorNotBehind
<1>3. mem[c].nextIndex \in 0 .. (MaxIndex + 1) /\ {c} \X (0 .. (mem[c].nextIndex - 1)) \subseteq funded
  BY <1>1, <1>2, CursorLeavesNoGap
<1>4. /\ s \in Drawn /\ c \in Codes /\ page[n] \in PageRecord
      /\ {c} \X (0 .. (page[n].index - 1)) \subseteq funded
  BY <1>1, WebFields DEF WebInv, CustomerInv, PageInv, ShownLeavesNoGap
<1>5. mem[c].nextIndex \in -1 .. (MaxIndex + 1)
  BY <1>3
<1>6. /\ q \in PageRecord /\ q.at = "paying" /\ q.session = s /\ q.code = c
      /\ q.index = page[n].index /\ q.asked = mem[c].nextIndex
  BY <1>1, <1>2, <1>4, <1>5 DEF PageRecord
<1> HIDE DEF q
<1>7. QED BY <1>1, <1>2, <1>3, <1>4, <1>6, PageTurns

\* A payment found at the index that was asked about, or passed on the way to
\* it, is one of the address on the page.
LEMMA AnswerPaidKeeps ==
  ASSUME IInv, WebInv, NEW n \in Nonces, AnswerPaid(n) \/ AnswerFails(n)
  PROVE  WebInv'
<1> DEFINE q(at) == [page[n] EXCEPT !.at = at, !.asked = -1]
<1>1. /\ page[n].at = "paying" /\ page[n].asked # -1
      /\ UNCHANGED <<vars, nonces, sessions, minted, handed, newcomers>>
  BY DEF AnswerPaid, AnswerFails
<1>2. page[n] \in PageRecord /\ page[n].index \in Nat /\ page[n].asked \in Int
  BY WebFields DEF WebInv
<1>3. -1 \in -1 .. (MaxIndex + 1)
  BY RegistryAssumption
<1>4. \A at \in {"paying", "paid"} :
        /\ q(at) \in PageRecord /\ q(at).at = at
        /\ q(at).session = page[n].session /\ q(at).code = page[n].code
        /\ q(at).index = page[n].index /\ q(at).asked = -1
  BY <1>2, <1>3 DEF PageRecord
<1>5. \/ page' = [page EXCEPT ![n] = q("paying")]
      \/ page' = [page EXCEPT ![n] = q("paid")] /\ <<page[n].code, page[n].asked>> \in funded
  <2>1. CASE AnswerPaid(n)
    BY <2>1 DEF AnswerPaid
  <2>2. CASE AnswerFails(n)
    <3>1. q("paying") = [page[n] EXCEPT !.asked = -1]
      BY <1>1, <1>2 DEF PageRecord
    <3>2. QED BY <2>2, <3>1 DEF AnswerFails
  <2>3. QED BY <2>1, <2>2
<1>6. /\ page[n].index <= page[n].asked
      /\ {page[n].code} \X (0 .. (page[n].asked - 1)) \subseteq funded
  BY <1>1 DEF WebInv, CustomerInv, PageInv, AskedLeavesNoGap
<1>7. <<page[n].code, page[n].asked>> \in funded => <<page[n].code, page[n].index>> \in funded
  <2>1. CASE page[n].index = page[n].asked
    BY <2>1
  <2>2. CASE page[n].index < page[n].asked
    <3>1. page[n].index \in 0 .. (page[n].asked - 1)
      BY <1>2, <2>2
    <3>2. QED BY <1>6, <3>1
  <2>3. QED BY <1>2, <1>6, <2>1, <2>2
<1>8. /\ page[n].session \in Drawn /\ page[n].code \in Codes
      /\ {page[n].code} \X (0 .. (page[n].index - 1)) \subseteq funded
      /\ page[n].session \in DOMAIN sessions =>
           /\ sessions[page[n].session].code = page[n].code
           /\ IF page[n].code \in DOMAIN mem THEN page[n].index <= mem[page[n].code].nextIndex
                                             ELSE page[n].index = 0
  BY <1>1 DEF WebInv, CustomerInv, PageInv, CursorNotBehind, ShownLeavesNoGap
<1> HIDE DEF q
<1>9. CASE page' = [page EXCEPT ![n] = q("paying")]
  BY <1>1, <1>4, <1>8, <1>9, PageTurns
<1>10. CASE page' = [page EXCEPT ![n] = q("paid")] /\ <<page[n].code, page[n].asked>> \in funded
  BY <1>1, <1>4, <1>7, <1>8, <1>10, PageTurns
<1>11. QED BY <1>5, <1>9, <1>10

\* A poll gets the session and retires the nonce; the page opens it, has given
\* up, or goes on polling because the answer was lost.
LEMMA HandOutKeeps ==
  ASSUME IInv, WebInv, NEW n \in Nonces, Poll(n) \/ PollLost(n)
  PROVE  WebInv'
<1> DEFINE s == nonces[n].session
           opening == [ClosedPage EXCEPT !.at = "opening", !.session = s]
<1>1. /\ UNCHANGED <<vars, sessions, minted, newcomers>>
      /\ page[n].at = "polling" /\ Claimable(nonces, n) /\ up
      /\ nonces' = Retire(nonces, n)
      /\ handed' = handed \cup {s}
  BY DEF Poll, PollLost, HandOut, Polling
<1>v. UNCHANGED <<up, now, funded, mem>>
  BY <1>1 DEF vars, env
<1>2. /\ DOMAIN nonces' = DOMAIN nonces \ {n}
      /\ \A m \in DOMAIN nonces' : nonces'[m] = nonces[m]
  BY <1>1 DEF Retire, Restrict
<1>3. /\ n \in DOMAIN nonces /\ s # NoSession /\ s \in SessionIds
      /\ <<n, s>> \in minted /\ s \in Drawn
  <2>1. n \in DOMAIN nonces /\ s # NoSession
    BY <1>1 DEF Claimable
  <2>2. s \in SessionIds
    BY <2>1, WebFields DEF WebInv
  <2>3. <<n, s>> \in minted
    BY <2>1 DEF WebInv, StoreInv, NonceKeepsSession
  <2>4. <<n, s>>[2] = s
    OBVIOUS
  <2> HIDE DEF s
  <2>5. s \in Drawn
    BY <2>3, <2>4 DEF Drawn
  <2>6. QED BY <2>1, <2>2, <2>3, <2>5 DEF s
<1>4. \A m \in Nonces \ {n} : page'[m] = page[m]
  BY DEF Poll, PollLost, WebInv, ShopTypeOK
<1>5. /\ page'[n] \in PageRecord
      /\ \/ page'[n] = page[n]
         \/ page'[n].at = "idle" /\ page'[n].asked = -1
         \/ page'[n].at = "opening" /\ page'[n].asked = -1 /\ page'[n].session = s
  <2>1. page'[n] \in {page[n], IdlePage, opening}
    BY DEF Poll, PollLost, WebInv, ShopTypeOK
  <2>2. 0 \in 0 .. (MaxNow + NonceTtl) /\ 0 \in 0 .. (MaxIndex + 1) /\ -1 \in -1 .. (MaxIndex + 1)
    BY WebFields DEF WebInv
  <2>3. IdlePage \in PageRecord /\ IdlePage.at = "idle" /\ IdlePage.asked = -1
    BY <2>2 DEF IdlePage, ClosedPage, PageRecord
  <2>4. opening \in PageRecord /\ opening.at = "opening" /\ opening.asked = -1 /\ opening.session = s
    BY <1>3, <2>2 DEF ClosedPage, PageRecord
  <2>5. page[n] \in PageRecord
    BY WebFields DEF WebInv
  <2> HIDE DEF opening
  <2>6. QED BY <2>1, <2>3, <2>4, <2>5
<1> HIDE DEF s
<1>6. ShopTypeOK'
  <2>1. TypeOK'
    BY <1>1 DEF WebInv, ShopTypeOK, TypeOK, vars, env
  <2>2. page' \in [Nonces -> PageRecord]
    BY <1>4, <1>5 DEF Poll, PollLost, WebInv, ShopTypeOK
  <2>3. QED BY <1>1, <1>2, <1>3, <2>1, <2>2 DEF WebInv, ShopTypeOK
<1>7. StoreInv'
  <2>1. DownForgets' /\ OneSessionPerProof'
    BY <1>1, <1>v DEF WebInv, StoreInv, DownForgets, OneSessionPerProof
  <2>2. DrawnOnce'
    BY <1>1, <1>3 DEF WebInv, StoreInv, DrawnOnce, Drawn
  <2>3. NonceKeepsSession'
    <3>1. \A m \in Nonces : page'[m].at = "closed" => page[m].at = "closed" /\ m # n
      BY <1>1, <1>4, <1>5
    <3>2. ASSUME NEW m \in DOMAIN nonces', nonces'[m].session # NoSession
          PROVE  <<m, nonces'[m].session>> \in minted /\ nonces'[m].session \notin handed'
      <4>1. m # n /\ m \in DOMAIN nonces /\ nonces'[m] = nonces[m]
        BY <1>2
      <4>2. <<m, nonces[m].session>> \in minted /\ nonces[m].session \notin handed
        BY <3>2, <4>1 DEF WebInv, StoreInv, NonceKeepsSession
      <4>3. nonces[m].session # s
        BY <1>3, <4>1, <4>2 DEF WebInv, StoreInv, DrawnOnce
      <4>4. QED BY <1>1, <4>1, <4>2, <4>3
    <3>3. QED BY <1>1, <1>2, <3>1, <3>2 DEF WebInv, StoreInv, NonceKeepsSession
  <2>4. PollEndsFirst'
    <3>1. PollEndsFirst
      BY DEF WebInv, StoreInv
    <3>2. \A m \in Nonces : page'[m].at = "polling" => page'[m] = page[m]
      BY <1>4, <1>5
    <3>3. \A m \in Nonces : Claimable(nonces', m) => Claimable(nonces, m) /\ nonces'[m] = nonces[m]
      BY <1>2 DEF Claimable
    <3>4. QED BY <1>1, <1>v, <3>1, <3>2, <3>3 DEF PollEndsFirst
  <2>5. QED BY <2>1, <2>2, <2>3, <2>4 DEF StoreInv
<1>8. CustomerInv'
  <2>1. NewcomerStays'
    BY <1>1, <1>v DEF WebInv, CustomerInv, NewcomerStays
  <2>2. ShownLeavesNoGap' /\ PaidIsFunded'
    BY <1>1, <1>v, <1>4, <1>5 DEF WebInv, CustomerInv, ShownLeavesNoGap, PaidIsFunded
  <2>3. ASSUME NEW m \in Nonces PROVE PageInv(m)'
    <3>1. CASE page'[m] = page[m]
      BY <1>1, <1>v, <3>1 DEF WebInv, CustomerInv, PageInv, CursorNotBehind, AskedLeavesNoGap, Drawn
    <3>2. CASE m = n /\ page'[n] # page[n]
      BY <1>1, <1>3, <1>5, <3>2 DEF PageInv, CursorNotBehind, AskedLeavesNoGap, Drawn
    <3>3. QED BY <1>4, <3>1, <3>2
  <2>4. QED BY <2>1, <2>2, <2>3 DEF CustomerInv
<1>9. QED BY <1>6, <1>7, <1>8 DEF WebInv

\* What Peek says of a nonce: no session was minted for it.
LEMMA PeekedIsUnminted ==
  ASSUME WebInv, NEW n \in Nonces, Peek(nonces, n, now)
  PROVE  /\ n \in DOMAIN nonces /\ nonces[n].session = NoSession
         /\ page[n].at # "closed"
         /\ \A m \in minted : m[1] # n
<1>1. n \in DOMAIN nonces /\ ~nonces[n].used
  BY DEF Peek
<1>2. \A m \in minted : m[1] # n
  BY <1>1 DEF WebInv, StoreInv, NonceKeepsSession
<1>3. <<n, nonces[n].session>>[1] = n
  OBVIOUS
<1>4. nonces[n].session = NoSession
  BY <1>1, <1>2, <1>3 DEF WebInv, StoreInv, NonceKeepsSession
<1>5. QED BY <1>1, <1>2, <1>4 DEF WebInv, StoreInv, NonceKeepsSession

\* A proof that registers nobody consumes its nonce all the same.
LEMMA TakenKeeps ==
  ASSUME IInv, IInv', WebInv, NEW n \in Nonces, Peek(nonces, n, now),
         UNCHANGED <<up, now, funded, mem>>,
         nonces' = Take(nonces, n, now),
         UNCHANGED <<sessions, page, minted, handed, newcomers>>
  PROVE  WebInv'
<1>1. /\ n \in DOMAIN nonces /\ nonces[n].session = NoSession /\ page[n].at # "closed"
      /\ \A m \in minted : m[1] # n
  BY PeekedIsUnminted
<1>2. /\ DOMAIN nonces' = DOMAIN nonces
      /\ nonces'[n] = [nonces[n] EXCEPT !.used = TRUE, !.expires = now + NonceTtl]
      /\ \A m \in DOMAIN nonces \ {n} : nonces'[m] = nonces[m]
  BY <1>1 DEF Take
<1>3. /\ nonces'[n].session = NoSession
      /\ nonces'[n] \in [expires : 0 .. (MaxNow + NonceTtl), used : BOOLEAN,
                         session : SessionIds \cup {NoSession}]
  <2>1. nonces[n] \in [expires : 0 .. (MaxNow + NonceTtl), used : BOOLEAN,
                       session : SessionIds \cup {NoSession}]
    BY <1>1 DEF WebInv, ShopTypeOK
  <2>2. now + NonceTtl \in 0 .. (MaxNow + NonceTtl)
    BY WebFields DEF WebInv
  <2>3. QED BY <1>1, <1>2, <2>1, <2>2
<1>4. ShopTypeOK'
  BY <1>2, <1>3 DEF WebInv, ShopTypeOK, IInv
<1>5. StoreInv'
  <2>1. DownForgets'
    <3>1. up
      BY <1>1 DEF WebInv, StoreInv, DownForgets, EmptyStore
    <3>2. QED BY <3>1 DEF DownForgets
  <2>2. DrawnOnce' /\ OneSessionPerProof'
    BY DEF WebInv, StoreInv, DrawnOnce, Drawn, OneSessionPerProof
  <2>3. NonceKeepsSession'
    BY <1>1, <1>2, <1>3 DEF WebInv, StoreInv, NonceKeepsSession
  <2>4. PollEndsFirst'
    <3>1. \A m \in Nonces : Claimable(nonces', m) => Claimable(nonces, m) /\ nonces'[m] = nonces[m]
      BY <1>2, <1>3 DEF Claimable
    <3>2. QED BY <3>1 DEF WebInv, StoreInv, PollEndsFirst
  <2>5. QED BY <2>1, <2>2, <2>3, <2>4 DEF StoreInv
<1>6. CustomerInv'
  BY DEF WebInv, CustomerInv, NewcomerStays, ShownLeavesNoGap, PaidIsFunded, PageInv,
         CursorNotBehind, AskedLeavesNoGap, Drawn
<1>7. QED BY <1>4, <1>5, <1>6 DEF WebInv

\* A proof mints a session; the customer was registered before, or is now.
LEMMA MintKeeps ==
  ASSUME IInv, IInv', WebInv, NEW n \in Nonces, NEW s \in SessionIds, NEW c \in Codes,
         Peek(nonces, n, now), Mint(n, s, c),
         UNCHANGED <<up, now, funded>>,
         \A d \in DOMAIN mem : d \in DOMAIN mem' /\ mem'[d] = mem[d],
         \/ newcomers' = newcomers
         \/ newcomers' = newcomers \cup {s} /\ c \in DOMAIN mem' /\ mem'[c] = NewRecord(now)
  PROVE  WebInv'
<1> DEFINE new == [code |-> c, expires |-> now + SessionTtl]
<1>1. /\ n \in DOMAIN nonces /\ page[n].at # "closed"
      /\ \A m \in minted : m[1] # n
  BY PeekedIsUnminted
<1>2. /\ s \notin Drawn /\ minted' = minted \cup {<<n, s>>} /\ Drawn' = Drawn \cup {s}
      /\ UNCHANGED <<page, handed>>
  <2>1. \A m \in minted : m[2] # s
    BY DEF Mint, Fresh
  <2>2. minted' = minted \cup {<<n, s>>} /\ UNCHANGED <<page, handed>>
    BY DEF Mint
  <2>3. <<n, s>>[2] = s
    OBVIOUS
  <2> HIDE DEF Drawn
  <2>4. s \notin Drawn
    BY <2>1 DEF Drawn
  <2>5. Drawn' = Drawn \cup {s}
    BY <2>2, <2>3, Zenon DEF Drawn
  <2>6. QED BY <2>2, <2>4, <2>5
<1>3. s \notin DOMAIN sessions /\ s \notin newcomers /\ s \notin handed
  BY <1>2 DEF WebInv, StoreInv, DrawnOnce
<1>t. now \in Nat /\ NonceTtl \in Nat /\ SessionTtl \in Nat
  BY WebFields DEF WebInv
<1>4. /\ DOMAIN nonces' \subseteq DOMAIN nonces
      /\ \A m \in DOMAIN nonces' \ {n} : nonces'[m] = nonces[m]
      /\ nonces'[n].session = s /\ nonces'[n].used
      /\ nonces'[n] \in [expires : 0 .. (MaxNow + NonceTtl), used : BOOLEAN,
                         session : SessionIds \cup {NoSession}]
  <2> DEFINE taken == Take(nonces, n, now)
             kept == Live(taken, now)
  <2>1. /\ DOMAIN taken = DOMAIN nonces
        /\ taken[n] = [nonces[n] EXCEPT !.used = TRUE, !.expires = now + NonceTtl]
        /\ \A m \in DOMAIN nonces \ {n} : taken[m] = nonces[m]
    BY <1>1 DEF Take
  <2>2. nonces[n] \in [expires : 0 .. (MaxNow + NonceTtl), used : BOOLEAN,
                       session : SessionIds \cup {NoSession}]
    BY <1>1 DEF WebInv, ShopTypeOK
  <2>3. now + NonceTtl \in 0 .. (MaxNow + NonceTtl)
    BY WebFields DEF WebInv
  <2>4. /\ taken[n].used /\ taken[n].expires = now + NonceTtl
        /\ taken[n] \in [expires : 0 .. (MaxNow + NonceTtl), used : BOOLEAN,
                         session : SessionIds \cup {NoSession}]
    BY <2>1, <2>2, <2>3
  <2> HIDE DEF taken
  <2>5. /\ n \in DOMAIN kept /\ DOMAIN kept \subseteq DOMAIN nonces
        /\ \A m \in DOMAIN kept : kept[m] = taken[m]
    <3>1. taken[n].expires >= now
      BY <1>t, <2>4
    <3>2. DOMAIN kept = {m \in DOMAIN taken : taken[m].expires >= now}
      BY DEF Live, Restrict
    <3>3. \A m \in DOMAIN kept : kept[m] = taken[m]
      BY DEF Live, Restrict
    <3>4. QED BY <1>1, <2>1, <3>1, <3>2, <3>3
  <2>6. nonces' = [kept EXCEPT ![n] = [@ EXCEPT !.session = s]]
    BY DEF Mint, MintedNonces, taken
  <2> HIDE DEF kept
  <2>7. nonces'[n] = [taken[n] EXCEPT !.session = s]
    BY <2>5, <2>6
  <2>8. /\ nonces'[n].session = s /\ nonces'[n].used
        /\ nonces'[n] \in [expires : 0 .. (MaxNow + NonceTtl), used : BOOLEAN,
                           session : SessionIds \cup {NoSession}]
    BY <2>4, <2>7
  <2>9. QED BY <2>1, <2>5, <2>6, <2>8
<1>5. /\ DOMAIN sessions' \subseteq DOMAIN sessions \cup {s} /\ s \in DOMAIN sessions'
      /\ sessions'[s] = new
      /\ \A k \in DOMAIN sessions' \ {s} : k \in DOMAIN sessions /\ sessions'[k] = sessions[k]
      /\ \A k \in DOMAIN sessions : sessions[k].expires >= now => k \in DOMAIN sessions'
  BY DEF Mint, Minted, With, Live, Restrict
<1>6. new.code = c /\ new.expires = now + SessionTtl
      /\ new \in [code : Codes, expires : 0 .. (MaxNow + SessionTtl)]
  BY WebFields DEF WebInv
<1> HIDE DEF new
<1>7. ShopTypeOK'
  <2>1. /\ DOMAIN nonces' \subseteq Nonces
        /\ \A m \in DOMAIN nonces' :
             nonces'[m] \in [expires : 0 .. (MaxNow + NonceTtl), used : BOOLEAN,
                             session : SessionIds \cup {NoSession}]
    BY <1>4 DEF WebInv, ShopTypeOK
  <2>2. /\ DOMAIN sessions' \subseteq SessionIds
        /\ \A k \in DOMAIN sessions' : sessions'[k] \in [code : Codes, expires : 0 .. (MaxNow + SessionTtl)]
    BY <1>5, <1>6 DEF WebInv, ShopTypeOK
  <2>3. minted' \subseteq Nonces \X SessionIds /\ newcomers' \subseteq SessionIds /\ handed' \subseteq SessionIds
    BY <1>2 DEF WebInv, ShopTypeOK
  <2>4. QED BY <1>2, <2>1, <2>2, <2>3 DEF WebInv, ShopTypeOK, IInv
<1>8. StoreInv'
  <2>1. DownForgets'
    <3>1. up
      BY <1>1 DEF WebInv, StoreInv, DownForgets, EmptyStore
    <3>2. QED BY <3>1 DEF DownForgets
  <2>2. DrawnOnce'
    <3>1. \A m1, m2 \in minted' : m1[2] = m2[2] => m1 = m2
      BY <1>2 DEF WebInv, StoreInv, DrawnOnce, Drawn
    <3>2. DOMAIN sessions' \cup newcomers' \cup handed' \subseteq Drawn'
      BY <1>2, <1>5 DEF WebInv, StoreInv, DrawnOnce
    <3>3. QED BY <3>1, <3>2 DEF DrawnOnce
  <2>3. OneSessionPerProof'
    BY <1>1, <1>2 DEF WebInv, StoreInv, OneSessionPerProof
  <2>4. NonceKeepsSession'
    <3>1. \A m \in minted' : m = <<n, s>> \/ (m \in minted /\ m[1] # n)
      <4>1. minted' = minted \cup {<<n, s>>}
        BY <1>2
      <4>2. QED BY <1>1, <4>1
    <3>2. \A m \in Nonces : page'[m].at = "closed" => m \notin DOMAIN nonces' /\ \A k \in minted' : k[1] # m
      BY <1>1, <1>2, <1>4, <3>1 DEF WebInv, StoreInv, NonceKeepsSession
    <3>3. \A m \in minted' : m[1] \in DOMAIN nonces' => nonces'[m[1]].used
      BY <1>4, <3>1 DEF WebInv, StoreInv, NonceKeepsSession
    <3>4. \A m \in DOMAIN nonces' : nonces'[m].session # NoSession =>
            <<m, nonces'[m].session>> \in minted' /\ nonces'[m].session \notin handed'
      BY <1>2, <1>3, <1>4 DEF WebInv, StoreInv, NonceKeepsSession
    <3>5. QED BY <3>2, <3>3, <3>4 DEF NonceKeepsSession
  <2>5. PollEndsFirst'
    <3> SUFFICES ASSUME NEW m \in Nonces, page[m].at = "polling"
                 PROVE  /\ page[m].expires <= now + NonceTtl
                        /\ Claimable(nonces', m) /\ now <= page[m].expires + PollDelay =>
                             /\ nonces'[m].session \in DOMAIN sessions'
                             /\ sessions'[nonces'[m].session].expires >= page[m].expires + PollDelay
      BY <1>2 DEF PollEndsFirst
    <3>1. /\ page[m].expires <= now + NonceTtl
          /\ Claimable(nonces, m) /\ now <= page[m].expires + PollDelay =>
               /\ nonces[m].session \in DOMAIN sessions
               /\ sessions[nonces[m].session].expires >= page[m].expires + PollDelay
      BY DEF WebInv, StoreInv, PollEndsFirst
    <3>2. page[m].expires \in Nat /\ PollDelay \in Nat /\ NonceTtl + PollDelay <= SessionTtl
          /\ \A k \in DOMAIN sessions : sessions[k].expires \in Nat
      BY WebFields, TtlAssumption DEF WebInv
    <3>3. CASE m = n
      <4>1. sessions'[s].expires >= page[m].expires + PollDelay
        BY <1>t, <1>5, <1>6, <3>1, <3>2
      <4>2. QED BY <1>4, <1>5, <3>1, <3>3, <4>1
    <3>4. CASE m # n
      <4>1. Claimable(nonces', m) => Claimable(nonces, m) /\ nonces'[m] = nonces[m]
        BY <1>4, <3>4 DEF Claimable
      <4>2. \A k \in DOMAIN sessions : k # s
        BY <1>3
      <4>3. \A k \in DOMAIN sessions : sessions[k].expires >= now =>
              k \in DOMAIN sessions' /\ sessions'[k] = sessions[k]
        BY <1>5, <4>2
      <4>4. QED BY <1>t, <3>1, <3>2, <4>1, <4>3
    <3>5. QED BY <3>3, <3>4
  <2>6. QED BY <2>1, <2>2, <2>3, <2>4, <2>5 DEF StoreInv
<1>9. CustomerInv'
  <2>1. NewcomerStays'
    <3>1. ASSUME NEW k \in newcomers, SessionLive(sessions', k, now)
          PROVE  /\ sessions'[k].code \in DOMAIN mem'
                 /\ \/ Paid(mem'[sessions'[k].code])
                    \/ sessions'[k].expires <= mem'[sessions'[k].code].firstSeen + UnpaidTtl
      <4>1. k # s /\ k \in DOMAIN sessions' /\ sessions'[k].expires >= now
        BY <1>3, <3>1 DEF SessionLive
      <4>2. sessions'[k] = sessions[k] /\ SessionLive(sessions, k, now)
        BY <1>5, <4>1 DEF SessionLive
      <4>3. QED BY <4>2 DEF WebInv, CustomerInv, NewcomerStays
    <3>2. ASSUME newcomers' = newcomers \cup {s}, c \in DOMAIN mem', mem'[c] = NewRecord(now)
          PROVE  /\ sessions'[s].code \in DOMAIN mem'
                 /\ sessions'[s].expires <= mem'[sessions'[s].code].firstSeen + UnpaidTtl
      <4>1. NewRecord(now).firstSeen = now
        BY DEF NewRecord
      <4>2. UnpaidTtl \in Nat /\ SessionTtl <= UnpaidTtl
        BY RegistryAssumption, TtlAssumption
      <4>3. QED BY <1>t, <1>5, <1>6, <3>2, <4>1, <4>2
    <3>3. QED BY <3>1, <3>2 DEF NewcomerStays
  <2>2. ShownLeavesNoGap' /\ PaidIsFunded'
    BY <1>2 DEF WebInv, CustomerInv, ShownLeavesNoGap, PaidIsFunded
  <2>3. ASSUME NEW m \in Nonces PROVE PageInv(m)'
    <3>1. PageInv(m)
      BY DEF WebInv, CustomerInv
    <3>2. page[m].at = "paying" => page[m].session # s
      BY <1>2, <3>1 DEF PageInv
    <3>3. CursorNotBehind(m)'
      <4>1. \A d \in DOMAIN mem' : mem'[d].nextIndex \in Nat
        BY RegistryFields, RecordFields DEF IInv, TypeOK
      <4>2. page[m].index \in Nat
        BY WebFields DEF WebInv
      <4>3. QED BY <1>2, <1>5, <3>1, <3>2, <4>1, <4>2 DEF PageInv, CursorNotBehind
    <3>4. QED BY <1>2, <3>1, <3>3 DEF PageInv, AskedLeavesNoGap
  <2>4. QED BY <2>1, <2>2, <2>3 DEF CustomerInv
<1>10. QED BY <1>7, <1>8, <1>9 DEF WebInv

\* Every step of the storefront keeps its invariant.
LEMMA WebStep ==
  ASSUME IInv, IInv', WebInv, [ShopNext]_shopVars
  PROVE  WebInv'
<1>r. [Next]_vars
  BY ShopStep
<1>1. CASE ReceiverStep /\ UNCHANGED web
  <2>1. CASE Environment
    <3>1. up' = up
      BY <2>1 DEF Environment, Tick, Post, Expire, Pay
    <3>2. QED BY <1>1, <1>r, <3>1, ReceiverMoves
  <2>2. CASE Listen
    <3>1. up' = up
      BY <2>2 DEF Listen, BeginListen, ListDirectory, NextDirectory, Drop, Defer, Accept, RemoveEntry
    <3>2. QED BY <1>1, <1>r, <3>1, ReceiverMoves
  <2>3. CASE Scan
    <3>1. up' = up
      BY <2>3, Zenon DEF Scan, BeginScan, Lookup, FindNothing, Credit
    <3>2. QED BY <1>1, <1>r, <3>1, ReceiverMoves
  <2>4. CASE Restart
    BY <2>4, <1>1, <1>r, ReceiverMoves DEF Restart
  <2>5. QED BY <1>1, <2>1, <2>2, <2>3, <2>4 DEF ReceiverStep
<1>2. CASE JobFault /\ UNCHANGED web
  <2>1. up => up'
    BY <1>2 DEF JobFault, PruneNotSaved, ListReadsEmpty, ListFails, AcceptNotSaved, RemoveRefused,
                RemoveFails, CallHangs, LookupFails, CreditNotSaved
  <2>2. QED BY <1>2, <1>r, <2>1, ReceiverMoves
<1>3. CASE ProcessEnds
  BY <1>3, <1>r, ProcessEndsMoves
<1>4. CASE UNCHANGED shopVars
  BY <1>4, <1>r, ReceiverMoves DEF shopVars, vars
<1>5. ASSUME NEW n \in Nonces, OpenPage(n) PROVE WebInv'
  BY <1>5, OpenPageKeeps
<1>6. ASSUME NEW n \in Nonces, NEW c \in Codes, CallbackFull(n, c) \/ CallbackNotSaved(n, c)
      PROVE  WebInv'
  <2>1. /\ Peek(nonces, n, now) /\ nonces' = Take(nonces, n, now)
        /\ UNCHANGED <<sessions, page, minted, handed, newcomers>>
        /\ UNCHANGED <<up, now, funded, mem>>
    BY <1>6 DEF CallbackFull, CallbackNotSaved, StorefrontAddNotSaved, GoodProof, vars, env
  <2>2. QED BY <2>1, TakenKeeps
<1>7. ASSUME NEW n \in Nonces, NEW c \in Codes, NEW s \in SessionIds,
             CallbackReturning(n, s, c) \/ CallbackRegisters(n, s, c)
      PROVE  WebInv'
  <2>1. /\ Peek(nonces, n, now) /\ Mint(n, s, c)
        /\ UNCHANGED <<up, now, funded>>
    BY <1>7 DEF CallbackReturning, CallbackRegisters, GoodProof, StorefrontAdd, vars, env
  <2>2. CASE CallbackReturning(n, s, c)
    BY <2>1, <2>2, MintKeeps DEF CallbackReturning, vars
  <2>3. CASE CallbackRegisters(n, s, c)
    <3>1. mem' = Add(mem, c, now) /\ c \notin DOMAIN mem /\ newcomers' = newcomers \cup {s}
      BY <2>3 DEF CallbackRegisters, StorefrontAdd, CanAdd
    <3>2. c \in DOMAIN mem' /\ mem'[c] = NewRecord(now)
          /\ \A d \in DOMAIN mem : d \in DOMAIN mem' /\ mem'[d] = mem[d]
      BY <3>1 DEF Add
    <3>3. QED BY <2>1, <3>1, <3>2, MintKeeps
  <2>4. QED BY <1>7, <2>2, <2>3
<1>8. ASSUME NEW n \in Nonces, Poll(n) \/ PollLost(n) PROVE WebInv'
  BY <1>8, HandOutKeeps
<1>9. ASSUME NEW n \in Nonces,
             PollFails(n) \/ PageExpires(n) \/ SessionRefused(n) \/ SessionFails(n) \/ SplashEnds(n)
      PROVE  WebInv'
  <2>1. /\ UNCHANGED <<vars, nonces, minted, handed, newcomers>>
        /\ page[n].at # "closed"
        /\ page' = [page EXCEPT ![n] = IdlePage]
    BY <1>9 DEF PollFails, PageExpires, SessionRefused, SessionFails, SplashEnds
  <2>2. sessions' = sessions \/ sessions' = Visited(sessions, page[n].session, now)
    BY <1>9 DEF PollFails, PageExpires, SessionRefused, SessionFails, SplashEnds
  <2>3. QED BY <2>1, <2>2, PageResets
<1>10. ASSUME NEW n \in Nonces, ShowAddress(n) PROVE WebInv'
  BY <1>10, ShowAddressKeeps
<1>11. ASSUME NEW n \in Nonces, AskPaid(n) PROVE WebInv'
  BY <1>11, AskPaidKeeps
<1>12. ASSUME NEW n \in Nonces, AnswerPaid(n) \/ AnswerFails(n) PROVE WebInv'
  BY <1>12, AnswerPaidKeeps
<1>13. ASSUME NEW n \in Nonces, PaidRefused(n) PROVE WebInv'
  <2> DEFINE q == page[n]
  <2>1. /\ q.at = "paying" /\ q.asked = -1
        /\ UNCHANGED <<vars, nonces, minted, handed, newcomers>>
        /\ sessions' = Visited(sessions, q.session, now)
        /\ page' = page
    BY <1>13 DEF PaidRefused
  <2>2. page' = [page EXCEPT ![n] = q] /\ q \in PageRecord
    BY <2>1, WebFields DEF WebInv, ShopTypeOK
  <2>3. /\ q.session \in Drawn /\ q.code \in Codes
        /\ {q.code} \X (0 .. (q.index - 1)) \subseteq funded
        /\ q.session \in DOMAIN sessions =>
             /\ sessions[q.session].code = q.code
             /\ IF q.code \in DOMAIN mem THEN q.index <= mem[q.code].nextIndex ELSE q.index = 0
    BY <2>1 DEF WebInv, CustomerInv, PageInv, CursorNotBehind, ShownLeavesNoGap
  <2> HIDE DEF q
  <2>4. page[n].at # "closed"
    BY <2>1 DEF q
  <2>5. QED BY <2>1, <2>2, <2>3, <2>4, PageTurns
<1>14. QED
  BY <1>1, <1>2, <1>3, <1>4, <1>5, <1>6, <1>7, <1>8, <1>9, <1>10, <1>11, <1>12, <1>13
     DEF ShopNext, ShopFault, PageFault, PageStep, Callback

-----------------------------------------------------------------------------
(***************************************************************************)
(* The theorems of the storefront.                                         *)
(***************************************************************************)
\* Nothing is open and nothing stored when the program is installed.
LEMMA WebStart == ASSUME ShopInit PROVE WebInv
<1>1. Init /\ nonces = EmptyStore /\ sessions = EmptyStore /\ DOMAIN EmptyStore = {}
  BY DEF ShopInit, EmptyStore
<1>2. minted = {} /\ handed = {} /\ newcomers = {} /\ Drawn = {}
  BY DEF ShopInit, Drawn
<1>3. page = [n \in Nonces |-> ClosedPage] /\ ClosedPage.at = "closed" /\ ClosedPage.asked = -1
  BY DEF ShopInit, ClosedPage
<1>4. ShopTypeOK
  <2>1. TypeOK
    BY <1>1, InitIInv DEF IInv
  <2>2. /\ 0 \in 0 .. (MaxNow + NonceTtl) /\ 0 \in 0 .. (MaxIndex + 1)
        /\ -1 \in -1 .. (MaxIndex + 1)
    BY RegistryAssumption, Auth47Assumption
  <2>3. ClosedPage \in PageRecord
    BY <2>2 DEF ClosedPage, PageRecord
  <2>4. page \in [Nonces -> PageRecord]
    BY <1>3, <2>3
  <2>5. QED BY <1>1, <1>2, <2>1, <2>4 DEF ShopTypeOK
<1> HIDE DEF EmptyStore, ClosedPage
<1>5. StoreInv
  BY <1>1, <1>2, <1>3 DEF StoreInv, DownForgets, DrawnOnce, NonceKeepsSession, OneSessionPerProof,
                          PollEndsFirst
<1>6. CustomerInv
  BY <1>2, <1>3 DEF CustomerInv, NewcomerStays, ShownLeavesNoGap, PaidIsFunded, PageInv,
                    CursorNotBehind, AskedLeavesNoGap
<1>7. QED BY <1>4, <1>5, <1>6 DEF WebInv

\* The storefront's invariant holds beside the receiver's, in every state.
THEOREM WebInductive == ShopSpec => [](IInv /\ WebInv)
<1>1. ShopInit => IInv /\ WebInv
  BY WebStart, InitIInv DEF ShopInit
<1>2. IInv /\ WebInv /\ [ShopNext]_shopVars => IInv' /\ WebInv'
  <2> SUFFICES ASSUME IInv, WebInv, [ShopNext]_shopVars PROVE IInv' /\ WebInv'
    OBVIOUS
  <2>1. [Next]_vars
    BY ShopStep
  <2>2. IInv'
    BY <2>1, NextIInv
  <2>3. QED BY <2>2, WebStep
<1>3. QED BY <1>1, <1>2, PTL DEF ShopSpec

\* Every state of the storefront is well typed.
THEOREM ShopTypeCorrect == ShopSpec => []ShopTypeOK
<1>1. WebInv => ShopTypeOK
  BY DEF WebInv
<1>2. QED BY <1>1, WebInductive, PTL

\* A proof mints one session, however often a wallet posts it.
THEOREM ProofMintsOnce == ShopSpec => []OneSessionPerProof
<1>1. WebInv => OneSessionPerProof
  BY DEF WebInv, StoreInv
<1>2. QED BY <1>1, WebInductive, PTL

\* A customer who came through the callback is not pruned under a live session.
THEOREM NewcomerWatched == ShopSpec => []NewcomerIsWatched
<1>1. WebInv => NewcomerIsWatched
  BY DEF WebInv, CustomerInv, NewcomerStays, NewcomerIsWatched
<1>2. QED BY <1>1, WebInductive, PTL

\* A page never shows an address with an unpaid one below it.
THEOREM ShownGapFree == ShopSpec => []ShownLeavesNoGap
<1>1. WebInv => ShownLeavesNoGap
  BY DEF WebInv, CustomerInv
<1>2. QED BY <1>1, WebInductive, PTL

\* A page that says thank you shows an address the chain has paid.
THEOREM ThankedWasPaid == ShopSpec => []PaidIsFunded
<1>1. WebInv => PaidIsFunded
  BY DEF WebInv, CustomerInv
<1>2. QED BY <1>1, WebInductive, PTL

\* No session is handed out twice: the nonce of one that was handed out is
\* gone, and no other nonce has it.
THEOREM SessionHandedOnce == ShopSpec => HandedOutOnce
<1>1. WebInv => \A n \in Nonces : HandOut(n) => nonces[n].session \notin handed
  BY DEF WebInv, StoreInv, NonceKeepsSession, HandOut, Claimable
<1>2. QED
  <2>1. WebInv /\ [ShopNext]_shopVars
          => [\A n \in Nonces : HandOut(n) => nonces[n].session \notin handed]_shopVars
    BY <1>1
  <2>2. QED BY <2>1, WebInductive, PTL DEF ShopSpec, HandedOutOnce

\* A session is live when a poll gets it.
THEOREM SessionHandedLive == ShopSpec => HandedOutLive
<1>1. ASSUME WebInv, NEW n \in Nonces, HandOut(n)
      PROVE  SessionLive(sessions, nonces[n].session, now)
  <2>1. /\ page[n].at = "polling" /\ now <= page[n].expires + PollDelay /\ Claimable(nonces, n)
    BY <1>1 DEF HandOut, Polling
  <2>2. /\ nonces[n].session \in DOMAIN sessions
        /\ sessions[nonces[n].session].expires >= page[n].expires + PollDelay
    BY <1>1, <2>1 DEF WebInv, StoreInv, PollEndsFirst
  <2>3. /\ now \in Nat /\ page[n].expires \in Nat /\ PollDelay \in Nat
        /\ sessions[nonces[n].session].expires \in Nat
    BY <1>1, <2>2, WebFields DEF WebInv
  <2>4. QED BY <2>1, <2>2, <2>3 DEF SessionLive
<1>2. WebInv /\ [ShopNext]_shopVars
        => [\A n \in Nonces : HandOut(n) => SessionLive(sessions, nonces[n].session, now)]_shopVars
  BY <1>1
<1>3. QED BY <1>2, WebInductive, PTL DEF ShopSpec, HandedOutLive

-----------------------------------------------------------------------------
\* Consuming, minting for and issuing another nonce leaves the session a
\* browser has yet to claim where it is.
LEMMA StoresKeepUnclaimed ==
  ASSUME NEW S, NEW m, NEW n, NEW t, NEW s, m # n,
         Claimable(S, m), S[m].expires >= t
  PROVE  LET kept(T) == Claimable(T, m) /\ T[m].session = S[m].session
         IN  /\ kept(Issue(S, n, t))
             /\ kept(Take(S, n, t))
             /\ kept(MintedNonces(Take(S, n, t), n, s, t))
<1>1. m \in DOMAIN S /\ S[m].used /\ S[m].session # NoSession
  BY DEF Claimable
<1>2. m \in DOMAIN Issue(S, n, t) /\ Issue(S, n, t)[m] = S[m]
  BY <1>1 DEF Issue, With, Live, Restrict
<1>3. m \in DOMAIN Take(S, n, t) /\ Take(S, n, t)[m] = S[m]
  BY <1>1 DEF Take
<1>4. \A T : m \in DOMAIN T /\ T[m] = S[m] =>
        m \in DOMAIN MintedNonces(T, n, s, t) /\ MintedNonces(T, n, s, t)[m] = S[m]
  BY DEF MintedNonces, Live, Restrict
<1>5. QED BY <1>1, <1>2, <1>3, <1>4 DEF Claimable

\* Until it is handed out, a session is lost only to its own window or to the
\* end of the process.
THEOREM UnclaimedKept == ShopSpec => UnclaimedSurvives
<1>1. ASSUME WebInv, [ShopNext]_shopVars, NEW m \in DOMAIN nonces, Claimable(nonces, m),
             nonces[m].expires >= now, up'
      PROVE  \/ Claimable(nonces', m) /\ nonces'[m].session = nonces[m].session
             \/ nonces[m].session \in handed'
  <2>1. CASE UNCHANGED nonces
    BY <1>1, <2>1 DEF Claimable
  <2>2. ASSUME NEW n \in Nonces, OpenPage(n)
        PROVE  Claimable(nonces', m) /\ nonces'[m].session = nonces[m].session
    <3>1. m # n
      BY <1>1, <2>2 DEF OpenPage, WebInv, StoreInv, NonceKeepsSession
    <3>2. QED BY <1>1, <2>2, <3>1, StoresKeepUnclaimed DEF OpenPage
  <2>3. ASSUME NEW n \in Nonces, Peek(nonces, n, now), nonces' = Take(nonces, n, now)
        PROVE  Claimable(nonces', m) /\ nonces'[m].session = nonces[m].session
    <3>1. m # n
      BY <1>1, <2>3 DEF Peek, Claimable
    <3>2. QED BY <1>1, <2>3, <3>1, StoresKeepUnclaimed
  <2>4. ASSUME NEW n \in Nonces, NEW s \in SessionIds, NEW c \in Codes,
               Peek(nonces, n, now), Mint(n, s, c)
        PROVE  Claimable(nonces', m) /\ nonces'[m].session = nonces[m].session
    <3>1. m # n
      BY <1>1, <2>4 DEF Peek, Claimable
    <3>2. nonces' = MintedNonces(Take(nonces, n, now), n, s, now)
      BY <2>4 DEF Mint
    <3>3. QED BY <1>1, <3>1, <3>2, StoresKeepUnclaimed
  <2>5. ASSUME NEW n \in Nonces, HandOut(n)
        PROVE  \/ Claimable(nonces', m) /\ nonces'[m].session = nonces[m].session
               \/ nonces[m].session \in handed'
    <3>1. CASE m = n
      BY <2>5, <3>1 DEF HandOut
    <3>2. CASE m # n
      BY <1>1, <2>5, <3>2 DEF HandOut, Retire, Restrict, Claimable
    <3>3. QED BY <3>1, <3>2
  <2>6. CASE ProcessEnds
    BY <1>1, <2>6 DEF ProcessEnds, Ending, Crash, CrashBeforeAnnounce, Stopped
  <2>7. CASE \E n \in Nonces : Callback(n) \/ \E c \in Codes : CallbackNotSaved(n, c)
    BY <2>3, <2>4, <2>7 DEF Callback, CallbackFull, CallbackReturning, CallbackRegisters,
                            CallbackNotSaved, GoodProof
  <2>8. CASE \E n \in Nonces : Poll(n) \/ PollLost(n)
    BY <2>5, <2>8 DEF Poll, PollLost
  <2>9. CASE \E n \in Nonces :
               \/ PageExpires(n) \/ ShowAddress(n) \/ SessionRefused(n) \/ AskPaid(n)
               \/ AnswerPaid(n) \/ SplashEnds(n) \/ PaidRefused(n)
               \/ PollFails(n) \/ SessionFails(n) \/ AnswerFails(n)
    BY <2>1, <2>9 DEF PageExpires, ShowAddress, SessionRefused, AskPaid, AnswerPaid, SplashEnds,
                      PaidRefused, PollFails, SessionFails, AnswerFails
  <2>10. CASE UNCHANGED web \/ UNCHANGED shopVars
    BY <2>1, <2>10 DEF web, shopVars
  <2>11. QED
    BY <1>1, <2>2, <2>6, <2>7, <2>8, <2>9, <2>10 DEF ShopNext, ShopFault, PageFault, PageStep
<1>2. WebInv /\ [ShopNext]_shopVars =>
        [\A n \in DOMAIN nonces :
           Claimable(nonces, n) /\ nonces[n].expires >= now /\ up' =>
             \/ Claimable(nonces', n) /\ nonces'[n].session = nonces[n].session
             \/ nonces[n].session \in handed']_shopVars
  BY <1>1
<1>3. QED BY <1>2, WebInductive, PTL DEF ShopSpec, UnclaimedSurvives

=============================================================================

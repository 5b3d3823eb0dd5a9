------------------------------ MODULE Receiver ------------------------------
(***************************************************************************)
(* The always-on receiver (paynym-bot start): the daemon's two timer jobs  *)
(* of src/src/daemon.ts, the inbox drain of src/src/register.ts, the scan  *)
(* of src/src/watcher.ts, the state file of src/src/state.ts, and the      *)
(* registration made by the storefront, all over one registry in memory.   *)
(*                                                                         *)
(* JavaScript runs to completion between two awaits.  A step below is what *)
(* runs between two answers of the network: persist is a synchronous write *)
(* (bin/paynym-bot.ts:401-403), so "add, persist, undo on failure" and     *)
(* "advance, persist, announce" are one step each, and only a crash can    *)
(* fall inside them.  Between two steps anything else may happen: the      *)
(* other job, the storefront, customers, the inbox, the clock, a crash.    *)
(***************************************************************************)
EXTENDS Registry

CONSTANTS
  Entries,      \* entries customers post to the two inbox directories
  EntryCode,    \* the payment code an entry proves, or NoCode
  EntryDir,     \* the directory an entry is posted to
  NoCode        \* the "code" of a malformed or unverifiable entry

Dirs == {"ours", "samourai"}

ASSUME EntryAssumption ==
  /\ NoCode \notin Codes
  /\ EntryCode \in [Entries -> Codes \cup {NoCode}]
  /\ EntryDir \in [Entries -> Dirs]

VARIABLES
  up,           \* is the process running?
  now,          \* wall clock
  inbox,        \* entries the Soroban node holds
  funded,       \* <<code, index>>: addresses the chain shows a payment to
  mem,          \* the registry in memory
  disk,         \* the registry in the state file
  listen,       \* the listen job: drains the inbox
  scan,         \* the scan job: looks the watch list up
  announced     \* history: credits announced since their code was last added

env == <<now, inbox, funded>>
vars == <<up, env, mem, disk, listen, scan, announced>>

Addresses == Codes \X Index
Watched == Codes \X (0 .. Horizon)

ListenIdle == [pc |-> "idle", dir |-> "ours", todo |-> {}, doing |-> {}]
ScanIdle == [pc |-> "idle", todo |-> {}, found |-> {}]

TypeOK ==
  /\ up \in BOOLEAN
  /\ now \in Clock
  /\ inbox \subseteq Entries
  /\ funded \subseteq Addresses
  /\ mem \in Registries
  /\ disk \in Registries
  /\ listen \in [pc : {"idle", "list", "drain", "remove", "hung"}, dir : Dirs,
                 todo : SUBSET Entries, doing : SUBSET Entries]
  /\ scan \in [pc : {"idle", "lookup"}, todo : SUBSET Watched, found : SUBSET Addresses]
  /\ announced \subseteq Addresses

\* A fresh install: the state file init wrote, and the process started on it.
Init ==
  /\ up = TRUE
  /\ now = 0
  /\ inbox = {}
  /\ funded = {}
  /\ mem = EmptyRegistry
  /\ disk = EmptyRegistry
  /\ listen = ListenIdle
  /\ scan = ScanIdle
  /\ announced = {}

-----------------------------------------------------------------------------
(***************************************************************************)
(* Customers, the Soroban node, the chain and the clock.                   *)
(***************************************************************************)
Tick ==
  /\ now < MaxNow
  /\ now' = now + 1
  /\ UNCHANGED <<up, inbox, funded, mem, disk, listen, scan, announced>>

\* One name stands for one posted ciphertext: it is not posted anew while the
\* receiver still holds an earlier copy of it.
Post(e) ==
  /\ e \notin inbox \cup listen.todo \cup listen.doing
  /\ inbox' = inbox \cup {e}
  /\ UNCHANGED <<up, now, funded, mem, disk, listen, scan, announced>>

\* The node's own TTL on a directory entry.
Expire(e) ==
  /\ e \in inbox
  /\ inbox' = inbox \ {e}
  /\ UNCHANGED <<up, now, funded, mem, disk, listen, scan, announced>>

\* A customer's wallet derives the addresses alone; it may pay any of them,
\* in any order, whether or not the receiver is running.
Pay(c, i) ==
  /\ <<c, i>> \notin funded
  /\ funded' = funded \cup {<<c, i>>}
  /\ UNCHANGED <<up, now, inbox, mem, disk, listen, scan, announced>>

-----------------------------------------------------------------------------
(***************************************************************************)
(* The state file.  saveState writes a temporary file, renames it over the *)
(* old one and then sets its mode, so a persist that throws has or has not *)
(* replaced the file.                                                      *)
(***************************************************************************)
Save(r) == disk' = r

SaveFails(r) == disk' \in {disk, r}

\* The records added anew start with a clean credit history.
Enrolled(c) == announced' = {a \in announced : a[1] # c}

-----------------------------------------------------------------------------
(***************************************************************************)
(* The listen job: Daemon.pollOnce.  The tick guard of schedule lets a job *)
(* start only when its previous run has ended.                             *)
(***************************************************************************)
BeginListen ==
  /\ up
  /\ listen.pc = "idle"
  /\ mem' = Prune(mem, now)
  /\ IF Stale(mem, now) = {} THEN UNCHANGED disk ELSE Save(mem')
  /\ listen' = [ListenIdle EXCEPT !.pc = "list"]
  /\ UNCHANGED <<up, env, scan, announced>>

\* pruneOnce throws after the prune: the run ends with the records gone from
\* memory and, perhaps, still on disk.
PruneNotSaved ==
  /\ up
  /\ listen.pc = "idle"
  /\ Stale(mem, now) # {}
  /\ mem' = Prune(mem, now)
  /\ SaveFails(mem')
  /\ UNCHANGED <<up, env, listen, scan, announced>>

\* rpc.list: a snapshot of the directory.
EntriesOf(dir) == {e \in inbox : EntryDir[e] = dir}

ListDirectory ==
  /\ listen.pc = "list"
  /\ listen' = [listen EXCEPT !.pc = "drain", !.todo = EntriesOf(listen.dir)]
  /\ UNCHANGED <<up, env, mem, disk, scan, announced>>

\* An answer that carries an error in place of a result reads as no entries,
\* which makes a difference where there are some.
ListReadsEmpty ==
  /\ listen.pc = "list"
  /\ EntriesOf(listen.dir) # {}
  /\ listen' = [listen EXCEPT !.pc = "drain"]
  /\ UNCHANGED <<up, env, mem, disk, scan, announced>>

ListFails ==
  /\ listen.pc = "list"
  /\ listen' = ListenIdle
  /\ UNCHANGED <<up, env, mem, disk, scan, announced>>

NextDirectory ==
  /\ listen.pc = "drain"
  /\ listen.todo = {}
  /\ listen' = IF listen.dir = "ours"
               THEN [listen EXCEPT !.pc = "list", !.dir = "samourai"]
               ELSE ListenIdle
  /\ UNCHANGED <<up, env, mem, disk, scan, announced>>

\* What Registrar.poll does with entry e of the snapshot is decided, and done,
\* in one step; then the removal is on its way.
Draining(e) == listen.pc = "drain" /\ e \in listen.todo

ThenRemove(e) ==
  listen' = [listen EXCEPT !.pc = "remove", !.todo = @ \ {e}, !.doing = {e}]

\* Mutant: reading a malformed entry throws, and ends the run.
DropThrows(e) ==
  /\ Draining(e)
  /\ EntryCode[e] = NoCode \/ EntryCode[e] \in DOMAIN mem
  /\ IF EntryCode[e] = NoCode THEN listen' = ListenIdle ELSE ThenRemove(e)
  /\ UNCHANGED <<up, env, mem, disk, scan, announced>>

\* A malformed entry, or one whose code is already known, is only dropped.
Drop(e) ==
  /\ Draining(e)
  /\ EntryCode[e] = NoCode \/ EntryCode[e] \in DOMAIN mem
  /\ ThenRemove(e)
  /\ UNCHANGED <<up, env, mem, disk, scan, announced>>

\* Mutant: an entry that finds no room is removed like any other.
DeferAndRemove(e) ==
  /\ Draining(e)
  /\ EntryCode[e] # NoCode
  /\ EntryCode[e] \notin DOMAIN mem
  /\ IsFull(mem)
  /\ ThenRemove(e)
  /\ UNCHANGED <<up, env, mem, disk, scan, announced>>

Defer(e) ==
  /\ Draining(e)
  /\ EntryCode[e] # NoCode
  /\ EntryCode[e] \notin DOMAIN mem
  /\ IsFull(mem)
  /\ listen' = [listen EXCEPT !.todo = @ \ {e}]
  /\ UNCHANGED <<up, env, mem, disk, scan, announced>>

Accept(e) ==
  /\ Draining(e)
  /\ EntryCode[e] # NoCode
  /\ CanAdd(mem, EntryCode[e])
  /\ mem' = Add(mem, EntryCode[e], now)
  /\ Save(mem')
  /\ Enrolled(EntryCode[e])
  /\ ThenRemove(e)
  /\ UNCHANGED <<up, env, scan>>

\* Mutant: the add is not undone when the write fails.
AcceptNotUndone(e) ==
  /\ Draining(e)
  /\ EntryCode[e] # NoCode
  /\ CanAdd(mem, EntryCode[e])
  /\ mem' = Add(mem, EntryCode[e], now)
  /\ SaveFails(mem')
  /\ Enrolled(EntryCode[e])
  /\ listen' = ListenIdle
  /\ UNCHANGED <<up, env, scan>>

\* onAccepted throws: the add is undone and the run ends, the entry stays.
AcceptNotSaved(e) ==
  /\ Draining(e)
  /\ EntryCode[e] # NoCode
  /\ CanAdd(mem, EntryCode[e])
  /\ SaveFails(Add(mem, EntryCode[e], now))
  /\ Enrolled(EntryCode[e])
  /\ listen' = ListenIdle
  /\ UNCHANGED <<up, env, mem, scan>>

RemoveEntry ==
  /\ listen.pc = "remove"
  /\ inbox' = inbox \ listen.doing
  /\ listen' = [listen EXCEPT !.pc = "drain", !.doing = {}]
  /\ UNCHANGED <<up, now, funded, mem, disk, scan, announced>>

\* rpc.remove returns false, "not removed", and nobody looks at it.
RemoveRefused ==
  /\ listen.pc = "remove"
  /\ listen.doing \cap inbox # {}
  /\ listen' = [listen EXCEPT !.pc = "drain", !.doing = {}]
  /\ UNCHANGED <<up, env, mem, disk, scan, announced>>

\* The call throws, before or after the node acted on it.
RemoveFails ==
  /\ listen.pc = "remove"
  /\ inbox' \in {inbox \ listen.doing, inbox}
  /\ listen' = ListenIdle
  /\ UNCHANGED <<up, now, funded, mem, disk, scan, announced>>

\* Over SOCKS the call may never settle: the connection ends inside the body
\* of an answer, of which nobody is told (run cut shows it of the transport).
\* The promise of the run stays pending, and its running flag set, for as long
\* as the process lives.  Over fetch, a deadline covers the body too.
CallHangs ==
  /\ listen.pc \in {"list", "remove"}
  /\ inbox' \in {inbox \ listen.doing, inbox}
  /\ listen' = [ListenIdle EXCEPT !.pc = "hung"]
  /\ UNCHANGED <<up, now, funded, mem, disk, scan, announced>>

-----------------------------------------------------------------------------
(***************************************************************************)
(* The storefront's callback registers a customer whose proof is good.     *)
(***************************************************************************)
StorefrontAdd(c) ==
  /\ up
  /\ CanAdd(mem, c)
  /\ mem' = Add(mem, c, now)
  /\ Save(mem')
  /\ Enrolled(c)
  /\ UNCHANGED <<up, env, listen, scan>>

StorefrontAddNotSaved(c) ==
  /\ up
  /\ CanAdd(mem, c)
  /\ SaveFails(Add(mem, c, now))
  /\ Enrolled(c)
  /\ UNCHANGED <<up, env, mem, listen, scan>>

-----------------------------------------------------------------------------
(***************************************************************************)
(* The scan job: Daemon.scanOnce.  The window is a snapshot; each lookup   *)
(* reads the chain when it is answered; the credits are applied to the     *)
(* registry as it is when the last answer is in.                           *)
(***************************************************************************)
BeginScan ==
  /\ up
  /\ scan.pc = "idle"
  /\ WatchList(mem) # {}
  /\ scan' = [pc |-> "lookup", todo |-> WatchList(mem), found |-> {}]
  /\ UNCHANGED <<up, env, mem, disk, listen, announced>>

\* Mutant: the answer is not awaited, so every promise reads as "used".
LookupUnawaited(w) ==
  /\ scan.pc = "lookup"
  /\ w \in scan.todo
  /\ scan' = [scan EXCEPT !.todo = @ \ {w}, !.found = @ \cup {w}]
  /\ UNCHANGED <<up, env, mem, disk, listen, announced>>

Lookup(w) ==
  /\ scan.pc = "lookup"
  /\ w \in scan.todo
  /\ scan' = [scan EXCEPT !.todo = @ \ {w}, !.found = @ \cup ({w} \cap funded)]
  /\ UNCHANGED <<up, env, mem, disk, listen, announced>>

\* Mutant: the running flag is not cleared when a run throws.
LookupFailsForGood ==
  /\ scan.pc = "lookup"
  /\ scan.todo # {}
  /\ scan' = [ScanIdle EXCEPT !.pc = "stuck"]
  /\ UNCHANGED <<up, env, mem, disk, listen, announced>>

\* One lookup rejects: the whole pass does, whatever the others found.
LookupFails ==
  /\ scan.pc = "lookup"
  /\ scan.todo # {}
  /\ scan' = ScanIdle
  /\ UNCHANGED <<up, env, mem, disk, listen, announced>>

AllAnswered == scan.pc = "lookup" /\ scan.todo = {}

FindNothing ==
  /\ AllAnswered
  /\ scan.found = {}
  /\ scan' = ScanIdle
  /\ UNCHANGED <<up, env, mem, disk, listen, announced>>

\* Mutant: announce first, then record.
CreditUnsaved ==
  /\ AllAnswered
  /\ scan.found # {}
  /\ mem' = CreditAll(mem, scan.found)
  /\ announced' = announced \cup scan.found
  /\ scan' = ScanIdle
  /\ UNCHANGED <<up, env, disk, listen>>

Credit ==
  /\ AllAnswered
  /\ scan.found # {}
  /\ mem' = CreditAll(mem, scan.found)
  /\ Save(mem')
  /\ announced' = announced \cup scan.found
  /\ scan' = ScanIdle
  /\ UNCHANGED <<up, env, listen>>

\* persist throws: the cursors have moved in memory, nothing is announced.
CreditNotSaved ==
  /\ AllAnswered
  /\ scan.found # {}
  /\ mem' = CreditAll(mem, scan.found)
  /\ SaveFails(mem')
  /\ scan' = ScanIdle
  /\ UNCHANGED <<up, env, listen, announced>>

-----------------------------------------------------------------------------
(***************************************************************************)
(* The process ends - killed, out of memory, restarted by the service      *)
(* manager - and is started again on the state file.                       *)
(***************************************************************************)
Stopped ==
  /\ up' = FALSE
  /\ mem' = EmptyRegistry
  /\ listen' = ListenIdle
  /\ scan' = ScanIdle

Crash ==
  /\ up
  /\ Stopped
  /\ UNCHANGED <<env, disk, announced>>

\* The crash falls between the rename and the first announcement.
CrashBeforeAnnounce ==
  /\ AllAnswered
  /\ scan.found # {}
  /\ Save(CreditAll(mem, scan.found))
  /\ Stopped
  /\ UNCHANGED <<env, announced>>

Restart ==
  /\ ~up
  /\ up' = TRUE
  /\ mem' = disk
  /\ UNCHANGED <<env, disk, listen, scan, announced>>

-----------------------------------------------------------------------------
Environment ==
  \/ Tick
  \/ \E e \in Entries : Post(e) \/ Expire(e)
  \/ \E c \in Codes, i \in Index : Pay(c, i)

Listen ==
  \/ BeginListen
  \/ ListDirectory
  \/ NextDirectory
  \/ \E e \in Entries : Drop(e) \/ Defer(e) \/ Accept(e)
  \/ RemoveEntry

Scan ==
  \/ BeginScan
  \/ \E w \in Watched : Lookup(w)
  \/ FindNothing
  \/ Credit

Registration == \E c \in Codes : StorefrontAdd(c)

\* One step of a job fails: the file system, the node or the indexer.
JobFault ==
  \/ PruneNotSaved
  \/ ListReadsEmpty
  \/ ListFails
  \/ \E e \in Entries : AcceptNotSaved(e)
  \/ RemoveRefused
  \/ RemoveFails
  \/ CallHangs
  \/ LookupFails
  \/ CreditNotSaved

Ending == Crash \/ CrashBeforeAnnounce

Fault ==
  \/ JobFault
  \/ \E c \in Codes : StorefrontAddNotSaved(c)
  \/ Ending

Next == Environment \/ Listen \/ Scan \/ Registration \/ Fault \/ Restart

Spec == Init /\ [][Next]_vars

\* The jobs are rescheduled for ever (setInterval) and their awaits are bounded
\* by timeouts but for the one of CallHangs, so a job that can move does.
\* Faults come to an end: the node, the indexer and the file system work from
\* some point on.  What a fault has left hanging stays so.
Fairness ==
  /\ WF_vars(Restart)
  /\ WF_vars(BeginListen)
  /\ WF_vars(ListDirectory)
  /\ WF_vars(NextDirectory)
  /\ \A e \in Entries : WF_vars(Drop(e) \/ Defer(e) \/ Accept(e))
  /\ WF_vars(RemoveEntry)
  /\ WF_vars(BeginScan)
  /\ \A w \in Watched : WF_vars(Lookup(w))
  /\ WF_vars(FindNothing)
  /\ WF_vars(Credit)

FairSpec == Spec /\ Fairness /\ <>[][~Fault]_vars

-----------------------------------------------------------------------------
(***************************************************************************)
(* What makes the receiver correct.                                        *)
(***************************************************************************)
\* A customer the process acts for is in the state file too: whatever the
\* order of accepts, failed writes, prunes and credits, a restart never loses
\* a customer who was being watched.
MemIsOnDisk == up => DOMAIN mem \subseteq DOMAIN disk

\* The state file may lag behind memory - a credit whose write failed, a prune
\* whose write failed - but never in a way that matters: it knows no payment
\* that memory has forgotten, and a code only it holds was never paid.
DiskLagsSafely ==
  up => \A c \in DOMAIN disk :
          IF c \in DOMAIN mem THEN KnownUsed(disk[c]) \subseteq KnownUsed(mem[c])
                              ELSE ~Paid(disk[c])

\* Registrar.poll: "durable before removal".  While the removal of an entry is
\* on its way, the code it proves is in the state file, so losing the process
\* now loses nobody.
RemovedOnlyOnceDurable ==
  listen.pc = "remove" =>
    \A e \in listen.doing : EntryCode[e] # NoCode => EntryCode[e] \in DOMAIN disk

\* An index counts as used only when a payment to it is on the chain, however
\* old the snapshot and whatever happened to the record in between.
KnownUsedIsFunded ==
  \A r \in {mem, disk} : \A c \in DOMAIN r : {c} \X KnownUsed(r[c]) \subseteq funded

\* MAX_SENDERS bounds the watch list over both ways in and every failed write.
WithinCapacity == \A r \in {mem, disk} : Cardinality(DOMAIN r) <= MaxSenders

\* "Cursors moved, so record them before announcing anything" (daemon.ts:127):
\* an announced credit of a registered customer is in the state file, so no
\* restart can forget that it was paid.
AnnouncedIsDurable ==
  \A a \in announced : a[1] \in DOMAIN disk => a[2] \in KnownUsed(disk[a[1]])

\* No credit is announced twice for one registration, across overlapping
\* scans, crashes and failed writes: what a pass looks up was not announced.
AnnouncedOnce == announced \cap (scan.todo \cup scan.found) = {}

\* daemon.ts:127-128: credits whose write failed, or that a crash kept from
\* memory, cost a repeated scan and no payment.  Whoever starts from the state
\* file and scans until a pass finds nothing - in whatever order, ending with
\* whatever record rec - knows every payment again that memory knows now, also
\* those that were found above a gap or by windows that have slid on since.
NothingToFind(c, rec) == {i \in WatchWindow(rec) : <<c, i>> \in funded} = {}

RestartFindsAgain ==
  up => \A c \in DOMAIN mem : \A rec \in SenderRecord :
          KnownUsed(disk[c]) \subseteq KnownUsed(rec) /\ NothingToFind(c, rec)
            => KnownUsed(mem[c]) \subseteq KnownUsed(rec)

\* Seen from outside, the state file is the ledger DurableLedger describes: it
\* never forgets a payment it has been told of nor the customer who made it,
\* credits only payments that were made, and stays within its capacity.
Ledger == INSTANCE DurableLedger WITH
            ledger <- [c \in DOMAIN disk |-> KnownUsed(disk[c])],
            Rosters <- {D \in SUBSET Codes : Cardinality(D) <= MaxSenders}

ImplementsLedger == Ledger!Spec

\* An entry, good or bad, does not sit in the inbox for ever: it leaves it, or
\* the watch list is full time and again, or a call of the job that drains it
\* hangs (over SOCKS only) and the process is not ended since.
EntryLeaves == \A e \in Entries : []<>(e \notin inbox \/ IsFull(mem) \/ listen.pc = "hung")

\* A payment at a watched address of a registered customer is noticed, unless
\* the registration is dropped first.
PaymentNoticed ==
  \A c \in Codes, i \in Index :
    (up /\ c \in DOMAIN mem /\ i \in WatchWindow(mem[c]) /\ <<c, i>> \in funded)
      ~> (up /\ (c \in DOMAIN mem => i \in KnownUsed(mem[c])))

-----------------------------------------------------------------------------
(***************************************************************************)
(* The inductive invariant behind them.                                    *)
(***************************************************************************)
\* A process that is down holds nothing in memory.
DownIsEmpty == ~up => mem = EmptyRegistry /\ listen = ListenIdle /\ scan = ScanIdle

FoundIsFunded == scan.found \subseteq funded

\* Only the listen job itself prunes, so the code it is about to remove the
\* entry of stays in memory until it has.
RemovedIsKnown ==
  listen.pc = "remove" =>
    \A e \in listen.doing : EntryCode[e] # NoCode => EntryCode[e] \in DOMAIN mem

\* What a pass looks up is still watched when its credits are applied; a code
\* that is gone, or comes back meanwhile, had the window of a new record.
WindowOf(r, c) == WatchWindow(IF c \in DOMAIN r THEN r[c] ELSE NewRecord(0))

StillWatched == \A w \in scan.todo \cup scan.found : w[2] \in WindowOf(mem, w[1])

RegistryInv ==
  /\ mem \in Registries
  /\ disk \in Registries
  /\ MemIsOnDisk
  /\ DiskLagsSafely
  /\ KnownUsedIsFunded
  /\ WithinCapacity
  /\ AnnouncedIsDurable
  /\ RestartFindsAgain

JobsInv ==
  /\ DownIsEmpty
  /\ FoundIsFunded
  /\ RemovedIsKnown
  /\ AnnouncedOnce
  /\ StillWatched

IInv == TypeOK /\ RegistryInv /\ JobsInv

=============================================================================

# paynym-bot: a verification project

`paynym-bot` is an always-on receiver of BIP47 payments without notification
transactions. Customers register their payment code, through a Soroban inbox or
by scanning a challenge on the shop's onion page; the receiver derives the
addresses each customer will pay, watches them on its own indexer and credits
what arrives. Losing a registration means losing the ability to derive addresses
that money may already sit at, so the system's promises are about what is in
memory, what is in the state file, what the inbox still holds and what the chain
shows, and about the orders in which these may change.

This directory holds TLA+ modules of that behaviour, TLC configurations that
check them on small instances, and proofs that TLAPS checks for every value of
the constants. Paths below are relative to the repository (`src/register.ts`,
`bin/paynym-bot.ts`, ...).

## 1. The system

### Components, their state and their operations

| Component | Source | State | Operations | Modelled in |
|---|---|---|---|---|
| Registry | `src/register.ts` | payment code -> cursor, used indices above it, time of registration | `add`, `pruneUnpaid`, `remove`, `advance`, `isFull` | `Registry`, `RegistryCheck` |
| Watch window, scan | `src/watcher.ts` | snapshot of the window, answers so far | `watchWindow`, `scanOnce` | `Registry`, `Receiver` |
| Registrar | `src/register.ts` | counters | `poll`, `ingest` | `Receiver` |
| Daemon | `src/daemon.ts` | which job runs | `pollOnce`, `pruneOnce`, `scanOnce`, the guarded timers | `Receiver` |
| State file | `src/state.ts` | `state.json` | `loadState`, `saveState` | `Receiver`, `DurableLedger` |
| Auth47 sessions | `src/auth47.ts` | nonces, sessions, both with expiry | `issue`, `peek`, `take`, `claim`, `claimed`, `mint`, `session` | `Auth47` |
| Storefront | `src/server.ts` | token buckets, the stores above | challenge, callback, poll, session, session-paid | `Storefront` |
| Page | `public/index.html` | timers, session, address shown | `startAuth`, `poll`, `showAddress`, `watchPaid`, `reset` | `Storefront` |
| Soroban client | `src/soroban.ts` | none | `list`, `add`, `remove` over HTTP or SOCKS | `Soroban`; its answers in `Receiver` |
| Worker pool | `src/watcher.ts` | the cursor a pass's workers share | pull, look up, store, reject | `ScanPool`, `ScanPass` |
| Electrum client | `src/electrum.ts` | socket, connection attempt, pending requests, line buffer | `request`, reconnect, time out, `close` | `Electrum` |
| SOCKS client | `src/socks.ts` | bytes received | handshake | `Tunnel` |
| Command line | `bin/paynym-bot.ts` | - | `init`, `serve`, `start`, `status`, `doctor`, ... | `Receiver`, `Storefront`, `Host`, `Endpoints` |
| Installer, uninstaller | `scripts/` | data directory, torrc, unit, command | one file after the other | `Host` |
| torrc merge | `src/torrc.ts` | torrc | `mergeTorrc`, `removeBlock` | `Torrc` |
| Directory registration | `src/paynymrs.ts` | paynym.rs | create, token, claim | `Host` |
| Seed, configuration, discovery | `src/seed.ts`, `src/config.ts`, `src/discover.ts` | files, environment | parse, probe | `Host`, `Endpoints` |
| Inbox entries | `src/register.ts`, `src/channel.ts`, `src/samourai.ts` | - | build, seal, open, verify, base-85 | `Wire`, `Z85` |
| Keys | `src/bip47.ts`, `src/identity.ts` | memo of addresses | payment codes, send and receive addresses | `Keys` |
| Rate limit, host binding | `src/server.ts`, `src/auth47.ts` | tokens and last time | `tokenBucket`, `originOf`, `verifyProof` | `Bucket`, `Site` |

`start` runs one Node process: one registry object shared by the listen job, the
scan job and the storefront, one state file, two inbox directories, one indexer.
Nothing locks anything. JavaScript runs to completion between two awaits and
`persist` is a synchronous write (`bin/paynym-bot.ts:401-403`), so the code
between two answers of the network is atomic except for a crash. Interleavings
happen at the awaits: `rpc.list` and `rpc.remove` in the drain, each lookup of a
pass, the request body of the callback, the lookup of the paid endpoint.

### What is hard about it

`PROJECT.json` lists every hazard with its line. The families are:

* **durability against removal**: an inbox entry is the only copy of a
  registration until the state file has it; writes fail, before or after the
  rename, and the process may end anywhere;
* **stale snapshots**: a pass looks up a window taken earlier, and applies its
  credits to a registry that the prune and new registrations have changed;
  pruning decides by what the last scan saw; the paid endpoint recomputes the
  address the page was shown earlier;
* **out-of-order payments** across gaps, passes and restarts;
* **one nonce, one session**: repeated proofs, lost and repeated polls, expiry,
  garbage collection driven by other customers;
* **bounded capacity** with valid entries waiting;
* **progress**: a job that throws, junk in the inbox, a page that must come back
  to a working challenge, a proxy, node or indexer that says nothing;
* **answers that come late**: a request that timed out, a connection replaced
  under those who wait for it, workers that outlive their pass, bytes cut anywhere;
* **commands stopped half-way** on a machine with other services, beside a service
  that rewrites the state file from what it read when it started;
* **two ends that must agree**: payer and receiver on an address, client and
  receiver on an entry, installer and service on an endpoint.

### What makes each component correct

* Registry: the cursor is at the first unpaid index in whatever order credits
  come; the window is the next unused addresses; the capacity holds; a customer
  who is known to have paid is never dropped.
* Receiver: an entry is removed only after its code is durable; a restart loses
  nobody who was watched and no announced payment, and scanning from the file finds
  again what the file lags behind by; only real payments are credited, and no credit is announced twice for one registration; payments at
  watched addresses are noticed.
* State file: a ledger that only gains payments and only loses customers who
  never paid.
* Auth47 and storefront: one proof gives one session, handed out once and alive;
  a customer is durable before the session exists; the page shows an address
  that the scan will reach and never thanks for a payment that was not made.
* Clients: a caller gets the answer to its own question or an error, in bounded
  time; a pass that resolves is right about every address.
* Machine: the files derive the very PayNym customers were registered with, what is
  recorded stays recorded, and nobody else's torrc lines are touched.

## 2. The modules

```
Registry  <- RegistryCheck                 (the loops against the definitions)
   ^  ^---- RegistryProofs
Receiver  -- INSTANCE DurableLedger        (refinement: ImplementsLedger)
   ^  ^---- MCReceiver <- MCReceiverHistory
   |  ^---- ReceiverProofs
Auth47  \
         Storefront -> Receiver's Spec     (refinement: ImplementsReceiver)
            ^---- MCStorefront
            ^---- StorefrontProofs
Electrum <- ScanPool <- MCScanPool, ScanPoolProofs
            -- INSTANCE ScanPass           (refinement: ImplementsPass)
Tunnel <- Soroban <- MCSoroban, SorobanProofs
Torrc <- Host <- MCHost, HostProofs
RegistryCheck, Z85, Keys, Wire, Site, Endpoints, Bucket <- Algorithms
Bucket <- BucketProofs
Algorithms, RegistryProofs, BucketProofs <- AlgorithmsProofs
```

**`Registry`** is constant-level: a registry is a function from the codes it
holds to records `[nextIndex, usedAhead, firstSeen]`, the `Map` of the code.
`Add`, `Stale`, `Prune`, `Advance`, `WatchWindow` are `add`, the filter of
`pruneUnpaid`, `pruneUnpaid`, `advance` and `watchWindow`. `Advance` takes a set
of indices and says where the cursor ends up (the first index not in it), where
the code loops. **`RegistryCheck`** holds the loops, one call per index in every
order, and the counting loop of `watchWindow`, and checks that they agree.

**`Receiver`** is the process. Its state: `mem` and `disk`, the registry in
memory and in the file; `inbox`, what the Soroban node holds; `funded`, the
addresses the chain shows a payment to; `listen` and `scan`, how far each job is
(the snapshot it works on is its local variable in the code); `up` and `now`;
and one history variable, `announced`. Its actions:

| Action | Code |
|---|---|
| `BeginListen`, `PruneNotSaved` | `pollOnce` up to the first `rpc.list`, with `pruneOnce` in it |
| `ListDirectory`, `ListReadsEmpty`, `ListFails` | the answers of `rpc.list` for one of the two directories |
| `Drop`, `Defer`, `Accept`, `AcceptNotSaved` | the four branches of `Registrar.poll` for one entry, with the write and its undo |
| `RemoveEntry`, `RemoveRefused`, `RemoveFails` | the answers of `rpc.remove`, whose result nobody looks at |
| `CallHangs` | a call of the node over SOCKS that never settles (run `cut`); its run, and with it the running flag of the listen job, lasts until the process ends |
| `StorefrontAdd`, `StorefrontAddNotSaved` | the registration made by the callback |
| `BeginScan`, `Lookup`, `LookupFails` | the window and the lookups of a pass, in any order |
| `FindNothing`, `Credit`, `CreditNotSaved` | the end of a pass: advance, persist, announce |
| `Crash`, `CrashBeforeAnnounce`, `Restart` | the process ends, between two steps or between the write and the announcement; `start` loads the file |
| `Post`, `Expire`, `Pay`, `Tick` | customers, the node's TTL, the chain, the clock |

`SaveFails` leaves the file old or new, because `saveState` can throw before the
rename or, in `chmodSync`, after it.

**`DurableLedger`** is the abstract specification of the file: customers come and
go in any combination per write, but one with a known payment stays for ever with
at least those payments, and nothing is credited that was not paid. The
refinement maps the file to the known-used indices of each of its records.

**`Auth47`** is constant-level too: the two stores as functions to records with an
expiry, and one operator per method. **`Storefront`** extends `Receiver` and
`Auth47`: the callback registers through `Receiver`'s own `StorefrontAdd`, all
other requests leave the receiver alone, and a crash empties both stores. Pages are
named by the challenge they loaded. `page[n].at` is the page's own state:
`polling` (challenge shown), `opening` (session in hand), `paying` (address
shown), `paid` (splash), `idle` (reset, nothing scheduled). The paid endpoint is
two steps, `AskPaid` and `AnswerPaid`, because it awaits the indexer between
reading the cursor and answering. Requests without effect (refused proofs,
pending polls, rate-limited requests) are stutters.

**`Electrum`** is `ElectrumClient` against an indexer: `pending` maps request ids
to callers, `connecting` is the queue behind the shared attempt to connect,
`buffer` the unfinished line. The indexer answers `asked` requests in any order,
late, in one piece or two, with a result or an error, and the socket breaks or is
closed at any time; a destroyed socket emits its `close` as a step of its own.
**`ScanPool`** puts the workers of `scanOnce` on top, over several passes: `Pull`,
`Return`, `Store`, `Reject` are the branches of `worker`, and a pass that is
rejected leaves its other workers looking up while the next pass begins. An empty window
has one worker, as `Math.max(1, ...)` gives it (`src/watcher.ts:101`). JavaScript runs
to completion: between an answer and the next lookup of its worker no event of the
socket happens (`Pulled`), and the timer that begins a pass fires when every callback
that is due has run (`CallbacksRun`).
**`ScanPass`** is the abstract specification of a pass, without workers, socket or
indexer: a pass begins, knowing what is paid by then, and ends once; it fails, or it
resolves with a set of watched addresses that are paid, those it knew among them.
What it has resolved with does not change before the next one begins. The refinement
maps the answers stored by the workers of the latest pass to that set.

**`Tunnel`** is `socksConnect`: the proxy's bytes, `script`, arrive in pieces of any
size, `readExactly` takes what it needs and leaves the rest in the socket, and one
deadline covers the handshake. **`Soroban`** makes one call after another through
such a tunnel, or through `fetch`, up to the parsed answer; a response is a
sequence of parts behind the handshake in the same stream.

**`Host`** is the machine. Its variables are the files (`seed`, `password`, `state`,
`torrc`, tor's hostname, unit, command), what the running service read when it
started, and the command at the terminal with its next step. Every step of
`install.ts`, `uninstall.ts` and `init` that changes something is an action, and
`Dies` may end a command before any of them. `Persist` writes what the service read
at its start with the customers of now, as the code does. `PostCreate`, `PostToken`,
`RecordPaynym`, `AnswerLost`, `RefusalReturned` are the registration at paynym.rs.
**`Torrc`** has the two edits of torrc as functions on sequences of lines.

The remaining modules hold code that decides without waiting, with the property
that states its promise over all inputs of a bounded kind: **`Z85`** (base-85 text
with partial blocks), **`Keys`** (address derivation in a group of prime order, where a
point is the multiple of the base that it is, so that both sides' computations are
arithmetic), **`Wire`** (what an inbox entry proves, with ideal cryptography), **`Site`**
(the binding of a challenge to the published host), **`Endpoints`** (typed endpoint,
probe, unit, configuration, transport). **`Bucket`** is the token bucket, with a clock
that may stand still, jump and step back. **`Algorithms`** puts them into one
instance; its state is that of `RegistryCheck` or of the bucket, and the others are
asked once.

## 3. The runs

| Run | Instance | What it shows |
|---|---|---|
| `inbox` | 2 customers, 4 entries (one junk, one customer in both directories), room for 1, one payable index | `MemIsOnDisk`, `RemovedOnlyOnceDurable`, `WithinCapacity` under every order of accepts, deferrals, prunes, failed writes, lost removals and crashes; once faults stop, `PaymentNoticed`, and `EntryLeaves` unless a call of the node was left hanging |
| `visit` | 2 page loads, 2 session ids, 2 customers with room for 1, expiry within the horizon; symmetric | `OneSessionPerProof`, `HandedOutOnce`, `UnclaimedSurvives`, `HandedOutLive` |
| `pay` | 1 customer, 1 page load, 3 payable indices, gap 2, prune within the horizon | of the page: `NewcomerIsWatched`, `ShownLeavesNoGap`, `PaidIsFunded`; of the jobs: `DiskLagsSafely`, `KnownUsedIsFunded`, `AnnouncedIsDurable`, `AnnouncedOnce`, `RestartFindsAgain`; the refinements `ImplementsReceiver`, `ImplementsLedger` |
| `indexer` | 2 passes of 2 workers over 2 addresses, one of them payable, 4 requests | `OwnAnswer`, `RepliesSettle`, `InFlightOnThisSocket`; a pass that resolves is right, and stays so: the pool keeps the promise of `scanOnce`, `ImplementsPass`; every pass ends: `PassEnds` |
| `transport` | 2 calls; 13 proxies (each address type, each refusal, handshakes cut short) and 6 answers | `TunnelIsTransparent`, `WholeAnswerOnly`; every call settles but in one case: `SettlesUnlessCut` |
| `host` | 2 commands, 2 phrases, with and without passphrase, 1 customer, 1 edit by hand, 4 torrcs | `CustomersKeepTheirWallet`, `RecordedStays`, `OthersServicesKept` |
| `algorithms` | every record and set of credits over 5 indices, gap 3; byte base 5 and digit base 4, up to 5 bytes; a group of 7; 3 parties, 5 clock values; 12 spellings of 2 hosts; every installer answer with 5 ports and 4 paths; a bucket of 2 tokens over 6 times | `AnyOrderAdvances`, `WindowIsLookahead`, `TextGivesBytesBack`, `DerivationAgrees`, `TakenAsSealed`, `LoginAnySpelling`, `RunsAsInstalled`, `GrantsBounded` |

Why the bounds are enough. One customer suffices for everything about one record,
because records do not interact except through the capacity, and two with room
for one make the capacity bite. Three indices with a gap of two give a payment
above a gap, its filling, and a window that slides over both. Two clock ticks
beyond the registration let a prune fall anywhere in a pass; the time to live of an
unpaid registration is 0 or 1 ticks, so the comparison is exercised at and next to
its boundary. Two page loads and two ids are what it takes for a nonce to get a
second session, or for one page's garbage collection to hit another's nonce. Two
workers and two passes are what it takes for a worker of a rejected pass to share
the connection with the next; four requests for an answer to be late by a
reconnection. Two commands give an install after an uninstall, an `init` after an
interrupted install, and a command beside a running service. In the small bases of
`Z85` every block of bytes is enumerated, and one block is short by each number of
bytes; the code depends on the bases only through `ByteBase^4 <= DigitBase^5` and
`DigitBase <= ByteBase`. The ports are none, those with a default of their own, and
two others; the paths are those that mean the default, the default and another.
The group of 7 has scalars out of range and sums at infinity.

Every action fires in some passing run, and each property has a mutant of the code
(the definitions marked "Mutant" in the modules) that violates it under the same
configuration.

Each of the remaining runs states what a comment or the page says, and is violated
by what the code does:

| Run | Violated | What happens |
|---|---|---|
| `twice` | `NoPaymentCreditedTwice` | a pass overlaps the prune, credits a customer the registry no longer knows, and the payment is credited again after the next registration |
| `stale` | `ShownAddressIsWatched` | a returning customer gets a session on an old unpaid registration, which is pruned under the page that shows its address |
| `unseen` | `PaymentShown` | the scan credits the payment before the page's next question; from then on the page asks about the following address |
| `again` | `ScanAgainWorks` | after a reset the page says "scan again" but loads no new challenge and polls for nothing |
| `cut` | `CallSettles` | a node closes cleanly in the middle of its answer over SOCKS: only the response learns of it and nobody listens, so the call stays pending, and the listen job with it |

## 4. Fairness

`Fairness` asks weak fairness of each step of the two jobs. The code justifies it:
`schedule` starts a job again at every interval once the previous run has ended,
whatever way it ended, and each await within a run is bounded by the client's
timeout, which `PassEnds` and `SettlesUnlessCut` show of the clients themselves, with
one exception. Over SOCKS an answer that is cut inside its body leaves the call
pending (run `cut`). That is the fault `CallHangs`: the listen job is `hung`, no step of
it is enabled, `running` stays set, and only the end of the process brings the job
back. `EntryLeaves` excepts a job left that way; it promises progress in every other
case, and always where the client uses `fetch`, whose deadline covers the body.
Lookups are fair one by one, since the pool pulls every index of the window. Of the
environment only the restart is fair, which the service manager provides. `FairSpec`
adds that faults - failed writes, refused, failed or hanging calls, crashes - stop
eventually: none of the liveness properties could hold against an indexer that never
answers. A fault is defined so that it never coincides with a normal step (an empty
answer is a fault only when there was something to list), so the assumption excludes
no normal behaviour; what a fault did while it lasted, it leaves in the state.
`ShopFairSpec` adds the open page, whose timers go on.

Customers, payments, expiry and the clock are not fair.

`ScanPool` and `Soroban` assume only that the process runs its callbacks and timers,
that an attempt to connect ends one way or the other (the handshake's deadline, or
the kernel's), and that a destroyed socket emits its `close`. Nothing is assumed of
the indexer, the proxy or the node, all of which may stay silent for ever. The events
of the socket in `ScanPool` are fair where they can happen, between two callbacks.

## 5. The proofs

Assumptions: the constants are as the named `ASSUME`s say; nothing else is bounded.
`Index` and `Clock` are finite intervals of arbitrary size. Four of the assumptions say
more than the kind of a constant:

* `TtlAssumption` (`Storefront`): a nonce and a delay of the poll do not outlive a session,
  nor a session an unpaid registration; they are 5 minutes (`src/auth47.ts:34`), 12 hours
  (36) and 30 days (`src/register.ts:173`).
* `LastAssumption` (`Soroban`): a part of a response that ends it is the last part of the
  stream, because that is what "last" means. A stream that is cut has none.
* `TorrcsAssumption` (`Host`): a torrc as it is found declares our service once at most,
  and where the markers balance every block is closed and has nobody else's lines in it
  (`Tidy`), as `mergeTorrc` writes them. Only this program writes markers, and the theorem
  shows that it keeps to that; the line an operator may add is no marker. A torrc with END
  in front of BEGIN passes the code's count of markers but is written by nobody (section 6).
* `LineAssumption` (`Torrc`): the five lines the code knows are strings. This is true of
  any literal; the provers do not find it.

Every inductive invariant below was an invariant of a run before it was proved.

* **`RegistryProofs`**: every operator keeps a registry a registry; `AdvanceSound`
  (the cursor exists, is the first gap, and exactly the given indices become
  known-used), `AdvanceForward` (it never moves back), `WatchedIsUnknown` (the window
  holds no known-used index), `PruneSound` (who has paid stays, untouched),
  `CapacityKept`.
* **`ReceiverProofs`**: the inductive invariant `IInv` and `Inductive`. The safety
  properties are not inductive alone. `RemovedOnlyOnceDurable` needs
  `RemovedIsKnown`: the code of the entry being removed is in *memory*, which only
  the listen job prunes, and `MemIsOnDisk` carries it to the file. `AnnouncedOnce`
  needs `AnnouncedIsDurable` and `DiskLagsSafely`, so that a code that comes back
  from the file after a crash comes back with what was announced. `KnownUsedIsFunded`
  needs `FoundIsFunded`, since the snapshot of answers outlives the record it is
  applied to. `RestartFindsAgain` says that the file's lag costs no payment: whoever
  starts from the file and scans, in whatever order, until nothing is found knows what
  memory knows, also what was found above a gap by windows that have slid on since. It
  needs `StillWatched`: what a pass looks up is in the window of memory when it is
  credited, because only credits move a window and only passes credit; a code that was
  pruned meanwhile had the window of a new record, which it gets again. And it needs
  `WindowCarries`: an address of a window stays in the window of a record that knows more,
  until it is known itself. `DownIsEmpty` says that no job survives the process. From `IInv`:
  `TypeCorrect`, `WatchedSurvives`, `RemovalIsSafe`, `LagIsSafe`, `UsedIsFunded`,
  `CapacityHolds`, `RestartFinds`, `CreditsDurable`, `CreditsOnce`, one for each safety
  invariant of the runs. `FileIsDurableLedger`: every step of the receiver writes
  nothing, or memory after an add, a prune or a credit (`FileWrites`), and each keeps
  every paid customer of the file (`PaidIsKept`, through `DiskLagsSafely`).
* **`StorefrontProofs`**: every step of the storefront is a step of the receiver or
  leaves it alone (`ShopStep`), so `ShopIsReceiver`, and with it the receiver's
  theorems hold of the composition (`ShopIsDurable`). `WebInv` is the storefront's own
  invariant beside `IInv` (`WebInductive`):
  - `StoreInv` is about nonces and sessions. `OneSessionPerProof` needs that a nonce
    that minted is in the store only as a used one (`NonceKeepsSession`) and that a
    page's challenge is not in the store before the page is opened, so that no second
    nonce of that name is issued. `HandedOutLive` needs `PollEndsFirst`: a page stops
    polling before the session its proof minted can run out, which holds because a
    session lives longer than a nonce and a delay of the poll.
  - `CustomerInv` is about pages against the registry. `NewcomerIsWatched` needs that a
    live session ends before its customer's unpaid registration goes stale, or that they
    have paid (`NewcomerStays`). `ShownLeavesNoGap` and `PaidIsFunded` need
    `AskedLeavesNoGap`, which remembers what was known when the lookup behind the
    question began, and `CursorNotBehind`: a cursor goes back only in a restart, which
    forgets the session too, or with a prune, which finds that nothing was paid.
  From it `ShopTypeCorrect`, `ProofMintsOnce`, `NewcomerWatched`, `ShownGapFree`,
  `ThankedWasPaid`, and of steps `SessionHandedOnce`, `SessionHandedLive`, `UnclaimedKept`.
* **`ScanPoolProofs`**: `IInv` of the client under the pool, for any number of workers,
  passes, addresses and requests. `OwnAnswer` needs that a caller waits in one place
  at most, in `pending` under one id (`PendingInv`) or in the queue behind an attempt
  to connect (`QueueInv`), and that ids are never given twice; `RepliesSettle` needs
  that the buffer holds the reply the indexer is in the middle of and nothing else
  (`BufferInv`), which is why `attach` must empty it. `PoolInv` says that only a worker
  that looks an index up has a caller in use, so that a late answer cannot meet a
  worker of the next pass. One lemma per event of the socket; from them
  `AnswersAreOwn`, `NoReplyGarbled`, `NothingHangs`. `PassInv` then follows a pass: every
  index behind the shared cursor is known, being looked up, or was with a worker that
  has been rejected (`CursorInv`), an answer given after the pass began is as fresh as
  the chain was then (`AnswerInv`), and a pass is done only when each of its workers has
  found the cursor at the end (`EndInv`). So no index is left: `PassesAreSound`.
  `PoolKeepsItsPromise` is the refinement of `ScanPass`, which says more than the
  invariant of that theorem, of steps rather than states, and is what the run checks.
  It needs `SettleInv`: a pass that failed has a worker that was rejected, so that the
  return of its last worker cannot resolve it a second time, and a pass that is done has
  no worker that could still store. A worker of an earlier pass stores in the answers of its own pass only
  (`OthersStay`, `SettleKeeps`); the mutant `StoreShared` is what happens otherwise.
* **`SorobanProofs`**: `SorobanInv`, for any proxies, nodes and cuts. What the client
  has read of the stream, what the current read has taken, what waits in the socket and
  what is under way are adjacent pieces of it (`StreamInv`); a read of the handshake
  begins where the answers before it end (`HandshakeInv`), so an open tunnel stands at
  `HandshakeLength`; nothing of the response is read before it is asked for, and all of
  it when the call resolves (`CallInv`). `TunnelHandsOver`, `ResolvesWithTheWhole`, and
  the types, `CallTypeCorrect`.
* **`HostProofs`**: `FilesInv` and `TorrcInv`, for any number of commands, customers,
  phrases and edits. `CommandInv`: a command that is about to write the state file, or is
  past it, has in memory the phrase that is on disk. `OrderInv`: with no state file there is
  nobody to lose, and with one no command is before it. `WalletInv`: whoever was told an
  address was told it for the wallet of these files, is in the state file, and is in
  the memory of a running service - which is why its next write does not drop them.
  `RecordInv` and `ClaimInv` say what the service would write back. `TorrcInv` needs
  lemmas about `Pick` (filtering lines keeps their order and, if only ours or empty
  ones go, everybody else's), since collapsing, trimming, removing and merging are
  all of that form. `HostTypeCorrect`, `WalletKept`, `RecordKept`, `OthersKept`.
* **`BucketProofs`**: `BucketHolds`, for every burst, rate and clock. `Account` is the
  strengthening: what was granted and what is left never exceed the burst and the
  refill since; a step back of the clock lowers both sides alike.
* **`AlgorithmsProofs`**: the loops of the code compute what the operators say. The loop
  of `advance` ends at the first number not in the set (`SlideIsFirstFree`); a record is
  determined by what it knows (`NormalUnique`), so credits in any order give one record
  (`CreditsInAnyOrder`, with `CreditsInv`). The counting loop of `watchWindow` satisfies
  an equation that has one solution, the first `Gap` unused indices: where a solution
  differed, take the least count left and the largest index, since a wrong value at a
  used index is wrong at the next one too and used indices are bounded
  (`EmitsFirstOnes`). `LoopEmitsTheWindow`. Of every input: `EntryTakenAsSealed` (a secret shared by
  two keys opens for the other one of them only), `LoginHoweverSpelled` (two spellings
  have one key exactly when they name one host), `PayerAndReceiverAgree` (scalars
  commute; a memo of any size holds derivations only). `PayerAndReceiverAgree` does not
  use that the order of the group is prime. `TextGivesBack` is about any number of bytes
  and any two bases that fit. A block is one number, and its digits are the remainders of
  what is left of it after each division by the base; with five steps of division written
  out, composing them gives the number back and decomposing gives the digits back. A short
  block is the point: its dropped digits come back as the largest ones, which makes the
  number larger by less than one unit of the last byte kept, and the bytes that were
  padded with zero leave room for it. `PayloadTextInverts` is the property of the run.
  `RunsHoweverTyped`, for any set of ports and of paths: parsing a parsed endpoint
  changes nothing (`ParsedTwice`), so the unit, the configuration and the transport each
  keep what was probed. `LoopsAndBucketHold` restates the loops and
  the bucket for the specification the run checks.

Only model-checked:

* the liveness properties `EntryLeaves`, `PaymentNoticed`, `PassEnds` and
  `SettlesUnlessCut`, since fairness and `ENABLED` are outside the prover's reach;
* the properties of the runs that are expected to fail.

## 6. What is abstracted, and what is not modelled

In `Receiver` an entry proves a code or nothing, an address is its code and index,
and the indexer's answer is what the chain shows at the moment it answers; `Wire`,
`Keys` and `ScanPool` have what is behind that. Payments are never taken back. A
credit's spend key, logging and counters are left out. The order of entries in a
directory and of lookups in a pass is arbitrary, which includes the code's. A crash
ends the process, not the machine: what reached the file system stays there, and
the missing flush before the rename (`src/state.ts:131`) is out of the model. Two
wallets proving the same code are one customer.

Of the storefront: a page and the server read the same clock, a page has one paid
question under way at a time, and the token bucket, the host check and the body
limit only turn a request into one without effect. The mode without an indexer
(`serve`), in which the paid endpoint answers from the registry, is in `Host` only.

In `Host` one command runs at a time, tor and paynym.rs do as they are asked or do
nothing, and a file is written whole; the text of the unit and of the command is left
out. `WriteState` and `RecordOnion` are one step each because read and write are in
one turn of the event loop.

Not modelled: the cryptography itself (signatures, ECDH, MACs, hashing, HD derivation
are ideal or parameters); `status` and `verify-proof`, which only read and print; the
vendored QR library; `SorobanRPC.waitAndRemove`, `BoxKeypair` and `naclSigner`, which
nothing calls.

### Where the code differs from what is said of it, beyond the runs

* A customer who has paid since the last pass can be pruned as one who never paid
  (`src/register.ts:232` against 224-226), and a credit whose write failed is never
  announced by this process (`src/daemon.ts:128` against 41). `ImplementsLedger` says what
  does hold: the file keeps who has paid as far as it was told. `RestartFindsAgain` says
  that a credit that was not written is found again after a restart.
* Over Tor the status of paynym.rs is read as 0 (`src/paynymrs.ts:155`: the text up to
  the first space is the protocol), so a refusal is never an error; it is what
  `RefusalReturned` stands for.
* The installer keeps the path and scheme of a typed Soroban URL for the unit, but its
  probe still asks at `http` and `/rpc` (`scripts/install.ts:269-277`); `RunsAsInstalled`
  is stated for plain URLs, and for the others that they are kept.
* `doctor` promises to probe what will run (`bin/paynym-bot.ts:467-469`); it does in the
  unit's environment, which is how it is modelled. The installed command sets only
  the data directory, so from a shell it looks around locally.
* When the wall clock steps back the bucket loses tokens nobody took and refuses until
  the time is made up (`src/server.ts:66` against 61-62). `GrantsBounded` is about what is
  granted, not about what is refused.
* A torrc with an END in front of a BEGIN passes the count of markers (`src/torrc.ts:59`),
  and everything behind the BEGIN is dropped, which the check is there to prevent (51-56).
  Nothing here writes one, and `TorrcsAssumption` leaves it out.
* "Set it once and it stays set" (`bin/paynym-bot.ts:313`, of the host in the environment or
  in `state.json`): an edit while the service runs is taken back by its next write (402);
  `RecordedStays` excludes exactly that overlap.
* "Lookups run `concurrency` at a time" (`src/watcher.ts:73`): a pass is rejected with its
  first failed lookup and `running` is cleared, while its other workers go on through a
  window of some hundreds of addresses; the next pass sets its own full number beside
  them. `ImplementsPass` says that this changes no result, `PassEnds` that it ends.
* `--force` without a passphrase leaves an earlier passphrase file in place
  (`scripts/install.ts:363`), and the wallet that starts is another than the one that
  was shown; `CustomersKeepTheirWallet` ends where `--force` begins. "re-run init to
  retry" (`bin/paynym-bot.ts:265`) is refused because the state file exists.
* "callers skip that index" (`src/bip47.ts:164`): nobody catches the exception.

## 7. Plan

Done: every component but those named above, and the proofs of section 5. Every
invariant and every other property that a passing run checks, except the four liveness
properties, is a theorem; the storefront implements the receiver, the receiver's file
the ledger, and the pool of workers the abstract pass. What is left, in this order:

1. A page cache under the state file, and with it the flush that `src/state.ts:131`
   leaves out.
2. The paid endpoint without an indexer, which answers from the registry.
3. `Receiver` over `ScanPass`: its scan looks up address by address at moments of its own,
   which is finer than a pass that resolves at once; a specification in between would let
   one follow from the other.

------------------------------ MODULE ScanPool ------------------------------
(***************************************************************************)
(* The lookups of scanOnce (src/src/watcher.ts:84-102) over the Electrum   *)
(* client: a pool of workers that pull indices from a shared cursor.  The  *)
(* first lookup that is rejected rejects the pass; the other workers are   *)
(* not stopped, and the daemon may start the next pass beside them.        *)
(***************************************************************************)
EXTENDS Electrum

CONSTANTS
  Window,       \* the addresses of a pass, in order (a sequence)
  Concurrency,  \* lookups a pass runs at once
  MaxPass       \* bound: passes in a behaviour

Workers == (1 .. MaxPass) \X (1 .. Concurrency)

ASSUME PoolAssumption ==
  /\ Window \in Seq(Addresses)
  /\ Concurrency \in Nat \ {0} /\ MaxPass \in Nat
  /\ Callers = Workers

VARIABLES
  pass,      \* how many passes have begun
  running,   \* the promise of the last one is unsettled
  done,      \* ... or resolved
  next,      \* pass -> the shared cursor
  found,     \* pass -> index -> what the pass learnt, "unknown" at first
  worker,    \* worker -> what it does, and the index it looks up, 0 if none
  sure       \* history: addresses that were paid when the pass began

poolVars == <<pass, running, done, next, found, worker, sure>>
vars == <<clientVars, poolVars>>

Indices == 1 .. Len(Window)

\* One worker for an empty window.
PoolSize ==
  CASE Window = <<>> -> 1
    [] Window # <<>> -> IF Concurrency < Len(Window) THEN Concurrency ELSE Len(Window)

PoolOf(p) == {p} \X (1 .. PoolSize)

Now(what) == [is |-> what, at |-> 0]

TypeOK ==
  /\ ClientTypeOK
  /\ pass \in 0 .. MaxPass /\ running \in BOOLEAN /\ done \in BOOLEAN
  /\ next \in [1 .. MaxPass -> 1 .. Len(Window) + PoolSize + 1]
  /\ found \in [1 .. MaxPass -> [Indices -> {"unknown", "used", "unused"}]]
  /\ worker \in [Workers -> [is : {"off", "pulling", "looking", "returned", "rejected"}, at : {0} \cup Indices]]
  /\ sure \subseteq Addresses

Init ==
  /\ ClientInit
  /\ pass = 0 /\ running = FALSE /\ done = FALSE
  /\ next = [p \in 1 .. MaxPass |-> 1]
  /\ found = [p \in 1 .. MaxPass |-> [i \in Indices |-> "unknown"]]
  /\ worker = [w \in Workers |-> Now("off")]
  /\ sure = {}

-----------------------------------------------------------------------------
\* JavaScript runs to completion: from the begin of a pass, or an answer, to the
\* next lookup of the worker nothing else gets a turn ...
Pulled == \A w \in Workers : worker[w].is # "pulling"

\* ... and a timer fires when every callback that is due has run.
CallbacksRun == Pulled /\ \A w \in Workers : caller[w].is \in {"free", "waiting"}

BeginPass ==
  /\ CallbacksRun
  /\ ~running
  /\ pass < MaxPass
  /\ pass' = pass + 1
  /\ running' = TRUE
  /\ done' = FALSE
  /\ worker' = [w \in Workers |-> IF w \in PoolOf(pass + 1) THEN Now("pulling") ELSE worker[w]]
  /\ sure' = paid
  /\ UNCHANGED <<clientVars, next, found>>

\* const i = next++, and the lookup of window[i].
Pull(w) ==
  /\ worker[w].is = "pulling"
  /\ next[w[1]] \in Indices
  /\ next' = [next EXCEPT ![w[1]] = @ + 1]
  /\ worker' = [worker EXCEPT ![w] = [is |-> "looking", at |-> next[w[1]]]]
  /\ Request(w, Window[next[w[1]]])
  /\ UNCHANGED <<pass, running, done, found, sure>>

\* Past the end: the worker returns, the last one resolves the pass.
Return(w) ==
  /\ worker[w].is = "pulling"
  /\ next[w[1]] \notin Indices
  /\ next' = [next EXCEPT ![w[1]] = @ + 1]
  /\ worker' = [worker EXCEPT ![w] = Now("returned")]
  /\ IF w[1] = pass /\ \A v \in PoolOf(pass) : worker'[v].is = "returned"
     THEN running' = FALSE /\ done' = TRUE
     ELSE UNCHANGED <<running, done>>
  /\ UNCHANGED <<clientVars, pass, found, sure>>

\* Mutant: the passes share one array.
StoreShared(w) ==
  /\ worker[w].is = "looking"
  /\ caller[w].is = "resolved"
  /\ found' = [found EXCEPT ![pass][worker[w].at] = IF caller[w].used THEN "used" ELSE "unused"]
  /\ worker' = [worker EXCEPT ![w] = Now("pulling")]
  /\ caller' = [caller EXCEPT ![w] = Fresh]
  /\ UNCHANGED <<client, indexer, paid, pass, running, done, next, sure>>

\* used[i] = the answer, in the arrays of the worker's own pass.
Store(w) ==
  /\ worker[w].is = "looking"
  /\ caller[w].is = "resolved"
  /\ found' = [found EXCEPT ![w[1]][worker[w].at] = IF caller[w].used THEN "used" ELSE "unused"]
  /\ worker' = [worker EXCEPT ![w] = Now("pulling")]
  /\ caller' = [caller EXCEPT ![w] = Fresh]
  /\ UNCHANGED <<client, indexer, paid, pass, running, done, next, sure>>

\* The worker ends, and Promise.all with it; the others go on.
Reject(w) ==
  /\ worker[w].is = "looking"
  /\ caller[w].is = "rejected"
  /\ worker' = [worker EXCEPT ![w] = Now("rejected")]
  /\ caller' = [caller EXCEPT ![w] = Fresh]
  /\ running' = (running /\ w[1] # pass)
  /\ UNCHANGED <<client, indexer, paid, pass, done, next, found, sure>>

PoolStep == \E w \in Workers : Pull(w) \/ Return(w) \/ Store(w) \/ Reject(w)

Next ==
  \/ BeginPass
  \/ PoolStep
  \/ Pulled /\ (SocketStep \/ Shutdown \/ \E a \in Addresses : Pay(a)) /\ UNCHANGED poolVars

Spec == Init /\ [][Next]_vars

\* Callbacks run, timers fire, an attempt to connect ends one way or the other
\* (the handshake's deadline, or the kernel's), a destroyed socket closes.
Fairness ==
  /\ \A w \in Workers : WF_vars(Pull(w)) /\ WF_vars(Return(w)) /\ WF_vars(Store(w)) /\ WF_vars(Reject(w))
  /\ \A i \in Ids : WF_vars(Pulled /\ Timeout(i) /\ UNCHANGED poolVars)
  /\ WF_vars(Pulled /\ (Opened \/ OpenFails) /\ UNCHANGED poolVars)
  /\ WF_vars(Pulled /\ Closed /\ UNCHANGED poolVars)

FairSpec == Spec /\ Fairness

-----------------------------------------------------------------------------
\* A pass that resolves has looked every index up, has found what was paid
\* before it began and nothing that was not paid - whatever a rejected pass
\* before it left running.
PassIsSound ==
  done => \A i \in Indices :
    /\ found[pass][i] = "used" => Window[i] \in paid
    /\ found[pass][i] # "used" => found[pass][i] = "unused" /\ Window[i] \notin sure

\* What the pass has found, as the daemon is told.
Pass == INSTANCE ScanPass WITH
  Watched <- {Window[i] : i \in Indices},
  scan <- IF running THEN "running" ELSE IF done THEN "resolved" ELSE "idle",
  known <- sure,
  seen <- IF done THEN {Window[i] : i \in {j \in Indices : found[pass][j] = "used"}} ELSE {}

\* The pool of workers keeps the promise of scanOnce: each pass ends once, and
\* a worker that a rejected pass left behind changes nothing of the next one.
ImplementsPass == Pass!Spec

\* electrum.ts:70: "A hung indexer must not wedge the scan loop": every pass
\* ends, however the indexer behaves.  (Requests run out only at the bound.)
PassEnds == running ~> (~running \/ nextId + Len(connecting) > MaxId)
=============================================================================

------------------------------ MODULE Electrum ------------------------------
(***************************************************************************)
(* ElectrumClient of src/src/electrum.ts: requests of several callers over *)
(* one socket that is opened on demand, shared while it is being opened,   *)
(* and may fail, be closed by the indexer or stay silent at any time.      *)
(* Replies are lines, in any order; a line may arrive in two parts.        *)
(*                                                                         *)
(* A step is one event (of the socket, of a timer) with every callback it  *)
(* runs.  A socket that is destroyed emits 'close' in the same turn of the *)
(* event loop, in which no new connection can be established.              *)
(***************************************************************************)
EXTENDS Integers, Sequences, FiniteSets

CONSTANTS
  Callers,     \* who asks: the workers of a scan, the storefront's page
  Addresses,   \* what they ask about
  NoAddress,
  Payable,     \* bound: the addresses that may be paid in a behaviour
  MaxId        \* bound: requests in a behaviour

ASSUME ClientAssumption == MaxId \in Nat /\ NoAddress \notin Addresses /\ Payable \subseteq Addresses

VARIABLES
  attached,    \* this.socket is not null
  socket,      \* the socket last attached: "none", "open", "destroyed"
  connecting,  \* the callers that await this.connecting, in order; <<>> if null
  pending,     \* this.pending: id -> caller
  nextId,
  buffer,      \* this.buffer: the ids whose replies' first parts it holds
  caller,      \* what each caller asks and how its promise stands
  asked,       \* the indexer: id -> address, requests it has not answered
  half,        \* the indexer: the id of the reply it is in the middle of, or 0
  garbled,     \* history: ids whose reply arrived over this socket and was lost
  paid         \* the chain: addresses with a payment

client == <<attached, socket, connecting, pending, nextId, buffer>>
indexer == <<asked, half, garbled>>
clientVars == <<client, caller, indexer, paid>>

Ids == 1 .. MaxId
Fresh == [on |-> NoAddress, is |-> "free", about |-> NoAddress, used |-> FALSE]
EmptyMap == [i \in {} |-> NoAddress]

ClientTypeOK ==
  /\ attached \in BOOLEAN
  /\ socket \in {"none", "open", "destroyed"}
  /\ connecting \in Seq(Callers)
  /\ DOMAIN pending \subseteq Ids /\ \A i \in DOMAIN pending : pending[i] \in Callers
  /\ nextId \in 1 .. MaxId + 1
  /\ buffer \in Seq(Ids)
  /\ caller \in [Callers -> [on : Addresses \cup {NoAddress}, is : {"free", "waiting", "resolved", "rejected"},
                             about : Addresses \cup {NoAddress}, used : BOOLEAN]]
  /\ DOMAIN asked \subseteq Ids /\ \A i \in DOMAIN asked : asked[i] \in Addresses
  /\ half \in 0 .. MaxId
  /\ garbled \subseteq Ids
  /\ paid \subseteq Addresses

ClientInit ==
  /\ attached = FALSE /\ socket = "none" /\ connecting = <<>>
  /\ pending = EmptyMap /\ nextId = 1 /\ buffer = <<>>
  /\ caller = [c \in Callers |-> Fresh]
  /\ asked = EmptyMap /\ half = 0 /\ garbled = {}
  /\ paid = {}

-----------------------------------------------------------------------------
Without(f, i) == [j \in DOMAIN f \ {i} |-> f[j]]

Settled(C, how) == [c \in Callers |-> IF c \in C THEN [caller[c] EXCEPT !.is = how] ELSE caller[c]]

PendingCallers == {pending[i] : i \in DOMAIN pending}

\* failAll: everything in flight is rejected.
FailAll(others) ==
  /\ pending' = EmptyMap
  /\ caller' = Settled(PendingCallers \cup others, "rejected")

\* Mutant: a request is numbered by how many are pending, so an id is given again
\* while the indexer may still answer the request that had it before.
RegisterReusing(q, cs) ==
  LET first == Cardinality(DOMAIN pending) + 1
      ids == first .. (first + Len(q) - 1)
      who(i) == q[i - first + 1]
  IN /\ nextId' = nextId + Len(q)
     /\ pending' = [i \in DOMAIN pending \cup ids |-> IF i \in ids THEN who(i) ELSE pending[i]]
     /\ asked' = [i \in DOMAIN asked \cup ids |-> IF i \in DOMAIN asked THEN asked[i] ELSE cs[who(i)].on]

\* The requests of the callers in q, in their order, are registered and
\* written to the socket; cs says what each of them asks.
Register(q, cs) ==
  LET ids == nextId .. (nextId + Len(q) - 1)
      who(i) == q[i - nextId + 1]
  IN /\ nextId' = nextId + Len(q)
     /\ pending' = [i \in DOMAIN pending \cup ids |-> IF i \in ids THEN who(i) ELSE pending[i]]
     /\ asked' = [i \in DOMAIN asked \cup ids |-> IF i \in ids THEN cs[who(i)].on ELSE asked[i]]

\* request: over the live socket at once; else the caller awaits the shared
\* attempt to connect, which it starts if there is none.
Request(c, a) ==
  /\ nextId + Len(connecting) \in Ids
  /\ caller' = [caller EXCEPT ![c] = [Fresh EXCEPT !.on = a, !.is = "waiting"]]
  /\ IF attached /\ socket = "open"
     THEN Register(<<c>>, caller') /\ UNCHANGED connecting
     ELSE connecting' = Append(connecting, c) /\ UNCHANGED <<pending, nextId, asked>>
  /\ UNCHANGED <<attached, socket, buffer, half, garbled, paid>>

\* Mutant: the buffer is kept across connections.
OpenedKeepingBuffer ==
  /\ connecting # <<>>
  /\ socket = "none"
  /\ attached' = TRUE /\ socket' = "open" /\ connecting' = <<>>
  /\ Register(connecting, caller)
  /\ half' = 0 /\ garbled' = {}
  /\ UNCHANGED <<buffer, caller, paid>>

\* attach, and then the callers that awaited the connection.
Opened ==
  /\ connecting # <<>>
  /\ socket = "none"
  /\ attached' = TRUE /\ socket' = "open" /\ connecting' = <<>>
  /\ Register(connecting, caller)
  /\ buffer' = <<>>
  /\ half' = 0 /\ garbled' = {}
  /\ UNCHANGED <<caller, paid>>

\* Refused, unreachable, or out of time.
OpenFails ==
  /\ connecting # <<>>
  /\ FailAll({connecting[i] : i \in DOMAIN connecting})
  /\ attached' = FALSE
  /\ connecting' = <<>>
  /\ UNCHANGED <<socket, nextId, buffer, indexer, paid>>

\* The first part of a line: no newline yet.
FirstPart(i) ==
  /\ socket = "open" /\ half = 0 /\ i \in DOMAIN asked
  /\ half' = i
  /\ buffer' = Append(buffer, i)
  /\ UNCHANGED <<attached, socket, connecting, pending, nextId, caller, asked, garbled, paid>>

\* The line ends.  It is the reply to i if the buffer held the first part of
\* it and nothing else; otherwise it is nonsense.  An id that is not pending
\* any more is nobody's.
LineEnds(i) ==
  /\ socket = "open" /\ half \in {0, i} /\ i \in DOMAIN asked
  /\ half' = 0
  /\ buffer' = <<>>
  /\ asked' = Without(asked, i)
  /\ IF buffer = (IF half = i THEN <<i>> ELSE <<>>) THEN UNCHANGED garbled ELSE garbled' = garbled \cup {i}
  /\ IF garbled' = garbled /\ i \in DOMAIN pending
     THEN /\ pending' = Without(pending, i)
          /\ \/ caller' = [caller EXCEPT ![pending[i]] =
                             [@ EXCEPT !.is = "resolved", !.about = asked[i], !.used = asked[i] \in paid]]
             \/ caller' = Settled({pending[i]}, "rejected")
     ELSE UNCHANGED <<pending, caller>>
  /\ UNCHANGED <<attached, socket, connecting, nextId, paid>>

\* Mutant: the timer forgets the request without rejecting it.
TimeoutForgetting(i) ==
  /\ i \in DOMAIN pending
  /\ pending' = Without(pending, i)
  /\ UNCHANGED <<attached, socket, connecting, nextId, buffer, caller, indexer, paid>>

Timeout(i) ==
  /\ i \in DOMAIN pending
  /\ pending' = Without(pending, i)
  /\ caller' = Settled({pending[i]}, "rejected")
  /\ UNCHANGED <<attached, socket, connecting, nextId, buffer, indexer, paid>>

\* 'error': the socket is destroyed, its 'close' is still to come.
SocketFails ==
  /\ socket = "open"
  /\ socket' = "destroyed"
  /\ attached' = FALSE
  /\ FailAll({})
  /\ UNCHANGED <<connecting, nextId, buffer, indexer, paid>>

\* The indexer closes: destroyed without an 'error', this.socket still set.
ServerCloses ==
  /\ socket = "open"
  /\ socket' = "destroyed"
  /\ UNCHANGED <<attached, connecting, pending, nextId, buffer, caller, indexer, paid>>

\* Mutant: 'close' forgets the socket and leaves the requests to their timers.
ClosedHanging ==
  /\ socket = "destroyed"
  /\ socket' = "none"
  /\ attached' = FALSE
  /\ asked' = EmptyMap /\ half' = 0
  /\ UNCHANGED <<connecting, pending, nextId, buffer, caller, garbled, paid>>

Closed ==
  /\ socket = "destroyed"
  /\ socket' = "none"
  /\ attached' = FALSE
  /\ FailAll({})
  /\ asked' = EmptyMap /\ half' = 0
  /\ UNCHANGED <<connecting, nextId, buffer, garbled, paid>>

\* close(), at shutdown: an attempt to connect is not cancelled.
Shutdown ==
  /\ FailAll({})
  /\ attached' = FALSE
  /\ socket' = IF attached /\ socket = "open" THEN "destroyed" ELSE socket
  /\ UNCHANGED <<connecting, nextId, buffer, indexer, paid>>

\* The chain.
Pay(a) == a \in Payable \ paid /\ paid' = paid \cup {a} /\ UNCHANGED <<client, caller, indexer>>

SocketStep ==
  \/ Opened
  \/ OpenFails
  \/ \E i \in Ids : FirstPart(i) \/ LineEnds(i) \/ Timeout(i)
  \/ SocketFails
  \/ ServerCloses
  \/ Closed

-----------------------------------------------------------------------------
\* A caller is told about the address it asked about, whatever was late, timed
\* out or failed before on the same socket or an earlier one.
OwnAnswer ==
  \A c \in Callers : caller[c].is = "resolved" => caller[c].about = caller[c].on

\* electrum.ts:124-127: no leftover of an earlier connection spoils a reply,
\* which would cost its caller a full timeout.
RepliesSettle == garbled \cap DOMAIN pending = {}

\* electrum.ts:79-83: "a dropped connection fails the in-flight requests rather
\* than hanging them": what is pending was written to the socket at hand.
InFlightOnThisSocket ==
  /\ socket = "none" => pending = EmptyMap
  /\ DOMAIN pending \subseteq DOMAIN asked \cup garbled
=============================================================================

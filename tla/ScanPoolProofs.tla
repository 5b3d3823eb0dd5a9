--------------------------- MODULE ScanPoolProofs ---------------------------
(***************************************************************************)
(* The Electrum client under a pool of workers, for every number of        *)
(* workers, passes, addresses and requests: an answer is for the address   *)
(* that was asked about, no connection spoils a reply of the next, and     *)
(* nothing waits for a socket that is gone.                                *)
(*                                                                         *)
(* A caller waits at one place at most: in pending, under one id, or in    *)
(* the queue behind an attempt to connect.  The lemmas show that every     *)
(* event of the socket keeps that; the pool only asks for callers that     *)
(* wait for nothing.  From there, what a pass has found, and that the pool *)
(* implements the pass that ScanPass promises.                             *)
(***************************************************************************)
EXTENDS ScanPool, TLAPS

\* The buffer holds the reply the indexer is in the middle of, and no more.
BufferInv ==
  /\ garbled = {}
  /\ socket = "open" => buffer = IF half = 0 THEN <<>> ELSE <<half>>

PendingInv ==
  /\ socket = "none" => pending = EmptyMap
  /\ DOMAIN pending \subseteq DOMAIN asked
  /\ \A i \in DOMAIN pending : caller[pending[i]].is = "waiting" /\ caller[pending[i]].on = asked[i]
  /\ \A i, j \in DOMAIN pending : pending[i] = pending[j] => i = j

QueueInv ==
  /\ nextId + Len(connecting) <= MaxId + 1
  /\ \A k \in DOMAIN connecting :
       /\ caller[connecting[k]].is = "waiting" /\ caller[connecting[k]].on \in Addresses
       /\ \A i \in DOMAIN pending : pending[i] # connecting[k]
  /\ \A k, l \in DOMAIN connecting : connecting[k] = connecting[l] => k = l

ClientInv == ClientTypeOK /\ BufferInv /\ PendingInv /\ QueueInv /\ OwnAnswer

\* Only a worker that looks an index up has a caller in use.
PoolInv ==
  /\ pass \in Nat
  /\ DOMAIN worker = Workers
  /\ \A w \in Workers : caller[w].is # "free" => worker[w].is = "looking"
  /\ \A w \in Workers : w[1] > pass => worker[w].is = "off"

IInv == ClientInv /\ PoolInv

CallerRecord == [on : Addresses \cup {NoAddress}, is : {"free", "waiting", "resolved", "rejected"},
                 about : Addresses \cup {NoAddress}, used : BOOLEAN]

\* A caller's promise settles, and nothing else of it changes.
LEMMA SettledFields ==
  ASSUME ClientTypeOK, NEW C, NEW how \in {"resolved", "rejected"}
  PROVE  /\ Settled(C, how) \in [Callers -> CallerRecord]
         /\ \A c \in Callers :
              /\ Settled(C, how)[c].on = caller[c].on
              /\ Settled(C, how)[c].about = caller[c].about
              /\ Settled(C, how)[c].is = IF c \in C THEN how ELSE caller[c].is
BY DEF ClientTypeOK, Settled, CallerRecord

-----------------------------------------------------------------------------
\* Failing everything in flight, and perhaps the queue.
LEMMA FailAllKeeps ==
  ASSUME ClientInv, NEW others, FailAll(others), UNCHANGED <<nextId, buffer, garbled, paid>>,
         attached' \in BOOLEAN, socket' \in {"none", "open", "destroyed"},
         socket' = "open" => socket = "open" /\ half' = half,
         \/ others = {} /\ connecting' = connecting
         \/ others = {connecting[k] : k \in DOMAIN connecting} /\ connecting' = <<>>,
         \/ UNCHANGED <<asked, half>>
         \/ asked' = EmptyMap /\ half' = 0
  PROVE  ClientInv' /\ \A c \in Callers : caller[c].is = "free" => caller'[c].is = "free"
<1> USE DEF ClientInv
<1> DEFINE C == PendingCallers \cup others
<1>1. C \subseteq Callers /\ \A c \in C : caller[c].is = "waiting"
  BY DEF PendingCallers, PendingInv, QueueInv, ClientTypeOK
<1>2. pending' = EmptyMap /\ DOMAIN pending' = {} /\ caller' = Settled(C, "rejected")
  BY DEF FailAll, EmptyMap
<1>3. caller' \in [Callers -> CallerRecord]
      /\ \A c \in Callers : /\ caller'[c].on = caller[c].on
                            /\ caller'[c].about = caller[c].about
                            /\ caller'[c].is = IF c \in C THEN "rejected" ELSE caller[c].is
  BY <1>2, SettledFields
<1>4. Len(<<>>) = 0 /\ <<>> \in Seq(Callers) /\ Len(connecting) \in Nat /\ nextId \in Nat /\ MaxId \in Nat
  BY ClientAssumption DEF ClientTypeOK
<1>5. ClientTypeOK'
  <2>1. connecting' \in Seq(Callers)
    BY <1>4 DEF ClientTypeOK
  <2>2. DOMAIN asked' \subseteq Ids /\ (\A i \in DOMAIN asked' : asked'[i] \in Addresses) /\ half' \in 0 .. MaxId
    BY <1>4 DEF ClientTypeOK, EmptyMap
  <2>3. caller' \in [Callers -> CallerRecord]
    BY <1>3
  <2>4. nextId' \in 1 .. MaxId + 1 /\ buffer' \in Seq(Ids) /\ garbled' \subseteq Ids /\ paid' \subseteq Addresses
    BY DEF ClientTypeOK
  <2>5. QED BY <1>2, <2>1, <2>2, <2>3, <2>4 DEF ClientTypeOK, CallerRecord
<1>6. BufferInv' /\ PendingInv'
  BY <1>2 DEF BufferInv, PendingInv, EmptyMap
<1>7. QueueInv'
  <2>1. CASE others = {} /\ connecting' = connecting
    <3>1. \A k \in DOMAIN connecting : connecting[k] \in Callers /\ connecting[k] \notin C
      BY <2>1 DEF QueueInv, PendingCallers, ClientTypeOK
    <3>2. QED BY <2>1, <3>1, <1>2, <1>3 DEF QueueInv
  <2>2. CASE connecting' = <<>>
    BY <2>2, <1>4 DEF QueueInv
  <2>3. QED BY <2>1, <2>2
<1>8. OwnAnswer'
  BY <1>3 DEF OwnAnswer
<1>9. QED BY <1>1, <1>3, <1>5, <1>6, <1>7, <1>8

\* The ids given to the callers of q are theirs, and theirs alone.
LEMMA RegisterKeeps ==
  ASSUME ClientTypeOK, PendingInv, NEW cs \in [Callers -> CallerRecord], NEW q \in Seq(Callers),
         nextId + Len(q) <= MaxId + 1,
         \A k \in DOMAIN q : cs[q[k]].is = "waiting" /\ cs[q[k]].on \in Addresses,
         \A k, l \in DOMAIN q : q[k] = q[l] => k = l,
         \A i \in DOMAIN pending : \A k \in DOMAIN q : pending[i] # q[k],
         \A i \in DOMAIN pending : cs[pending[i]] = caller[pending[i]],
         Register(q, cs), caller' = cs, socket' = "open"
  PROVE  /\ PendingInv'
         /\ nextId' = nextId + Len(q) /\ nextId' \in 1 .. MaxId + 1
         /\ DOMAIN pending' \subseteq Ids
         /\ \A i \in DOMAIN pending' : \/ i \in DOMAIN pending /\ pending'[i] = pending[i]
                                       \/ \E k \in DOMAIN q : pending'[i] = q[k]
         /\ DOMAIN asked' \subseteq Ids /\ \A i \in DOMAIN asked' : asked'[i] \in Addresses
<1> DEFINE ids == nextId .. (nextId + Len(q) - 1)
           who(i) == q[i - nextId + 1]
<1>1. nextId \in 1 .. MaxId + 1 /\ Len(q) \in Nat /\ DOMAIN q = 1 .. Len(q) /\ MaxId \in Nat
  BY ClientAssumption DEF ClientTypeOK
<1>2. ids \subseteq Ids /\ \A i \in ids : i \in Int /\ i - nextId + 1 \in DOMAIN q /\ who(i) \in Callers
  BY <1>1 DEF Ids
<1>3. \A i, j \in ids : who(i) = who(j) => i = j
  <2> SUFFICES ASSUME NEW i \in ids, NEW j \in ids, who(i) = who(j) PROVE i = j
    OBVIOUS
  <2>1. i - nextId + 1 = j - nextId + 1
    BY <1>2
  <2>2. QED BY <2>1, <1>1, <1>2
<1>4. /\ pending' = [i \in DOMAIN pending \cup ids |-> IF i \in ids THEN who(i) ELSE pending[i]]
      /\ asked' = [i \in DOMAIN asked \cup ids |-> IF i \in ids THEN cs[who(i)].on ELSE asked[i]]
      /\ nextId' = nextId + Len(q)
  BY DEF Register
<1>5. \A i \in ids : cs[who(i)].is = "waiting" /\ cs[who(i)].on \in Addresses
                     /\ \A j \in DOMAIN pending : pending[j] # who(i)
  BY <1>2
<1> HIDE DEF ids, who
<1>6. PendingInv'
  <2>1. DOMAIN pending' \subseteq DOMAIN asked'
    BY <1>4 DEF PendingInv
  <2>2. \A i \in DOMAIN pending' : caller'[pending'[i]].is = "waiting" /\ caller'[pending'[i]].on = asked'[i]
    <3> SUFFICES ASSUME NEW i \in DOMAIN pending'
                 PROVE caller'[pending'[i]].is = "waiting" /\ caller'[pending'[i]].on = asked'[i]
      OBVIOUS
    <3>1. CASE i \in ids
      BY <3>1, <1>4, <1>5
    <3>2. CASE i \notin ids
      BY <3>2, <1>4 DEF PendingInv
    <3>3. QED BY <3>1, <3>2
  <2>3. \A i, j \in DOMAIN pending' : pending'[i] = pending'[j] => i = j
    BY <1>3, <1>4, <1>5 DEF PendingInv
  <2>4. QED BY <2>1, <2>2, <2>3 DEF PendingInv
<1>7. DOMAIN pending' \subseteq Ids /\ DOMAIN asked' \subseteq Ids /\ \A i \in DOMAIN asked' : asked'[i] \in Addresses
  BY <1>2, <1>4, <1>5 DEF ClientTypeOK
<1>8. \A i \in DOMAIN pending' : \/ i \in DOMAIN pending /\ pending'[i] = pending[i]
                                 \/ \E k \in DOMAIN q : pending'[i] = q[k]
  BY <1>2, <1>4 DEF who
<1>9. nextId' = nextId + Len(q) /\ nextId' \in 1 .. MaxId + 1
  BY <1>1, <1>4
<1>10. QED BY <1>6, <1>7, <1>8, <1>9

\* A caller that waits for nothing asks.
LEMMA RequestKeeps ==
  ASSUME ClientInv, NEW c \in Callers, caller[c].is = "free", NEW a \in Addresses, Request(c, a)
  PROVE  ClientInv' /\ \A d \in Callers \ {c} : caller'[d] = caller[d]
<1> USE DEF ClientInv
<1> DEFINE cs == [caller EXCEPT ![c] = [Fresh EXCEPT !.on = a, !.is = "waiting"]]
<1>1. /\ cs \in [Callers -> CallerRecord]
      /\ cs[c].is = "waiting" /\ cs[c].on = a
      /\ \A d \in Callers \ {c} : cs[d] = caller[d]
  BY DEF ClientTypeOK, Fresh, CallerRecord
<1>2. caller' = cs /\ UNCHANGED <<attached, socket, buffer, half, garbled, paid>>
      /\ nextId + Len(connecting) \in Ids
  BY DEF Request
<1> HIDE DEF cs
<1>3. /\ \A i \in DOMAIN pending : pending[i] \in Callers \ {c}
      /\ \A k \in DOMAIN connecting : connecting[k] \in Callers \ {c}
  BY DEF PendingInv, QueueInv, ClientTypeOK
<1>4. OwnAnswer' /\ BufferInv'
  BY <1>1, <1>2 DEF OwnAnswer, BufferInv, ClientTypeOK
<1>5. nextId \in 1 .. MaxId + 1 /\ MaxId \in Nat /\ Len(connecting) \in Nat /\ nextId + Len(connecting) <= MaxId
  BY <1>2, ClientAssumption DEF ClientTypeOK, Ids
<1>6. CASE attached /\ socket = "open"
  <2>1. Register(<<c>>, cs) /\ connecting' = connecting
    BY <1>2, <1>6 DEF Request
  <2>2. Len(<<c>>) = 1 /\ DOMAIN <<c>> = {1} /\ <<c>>[1] = c /\ <<c>> \in Seq(Callers)
    OBVIOUS
  <2> DEFINE q == <<c>>
  <2>3. /\ q \in Seq(Callers) /\ Len(q) = 1 /\ nextId + Len(q) <= MaxId + 1
        /\ Register(q, cs) /\ caller' = cs /\ socket' = "open"
    BY <1>2, <1>5, <1>6, <2>1, <2>2
  <2>4. \A k \in DOMAIN q : cs[q[k]].is = "waiting" /\ cs[q[k]].on \in Addresses
    BY <1>1, <2>2
  <2>5. \A k, l \in DOMAIN q : q[k] = q[l] => k = l
    BY <2>2
  <2>6. \A i \in DOMAIN pending : \A k \in DOMAIN q : pending[i] # q[k]
    BY <1>3, <2>2
  <2>7. \A i \in DOMAIN pending : cs[pending[i]] = caller[pending[i]]
    BY <1>1, <1>3
  <2>8. \A k \in DOMAIN q : q[k] = c
    BY <2>2
  <2> HIDE DEF q
  <2>9. ClientTypeOK /\ PendingInv /\ cs \in [Callers -> CallerRecord]
    BY <1>1
  <2>10. /\ PendingInv' /\ nextId' = nextId + Len(q) /\ nextId' \in 1 .. MaxId + 1
         /\ DOMAIN pending' \subseteq Ids
         /\ \A i \in DOMAIN pending' : \/ i \in DOMAIN pending /\ pending'[i] = pending[i]
                                       \/ \E k \in DOMAIN q : pending'[i] = q[k]
         /\ DOMAIN asked' \subseteq Ids /\ \A i \in DOMAIN asked' : asked'[i] \in Addresses
    BY <2>3, <2>4, <2>5, <2>6, <2>7, <2>9, RegisterKeeps
  <2>11. \A i \in DOMAIN pending' : pending'[i] = c \/ (i \in DOMAIN pending /\ pending'[i] = pending[i])
    BY <2>8, <2>10
  <2>12. ClientTypeOK'
    <3>1. \A i \in DOMAIN pending' : pending'[i] \in Callers
      BY <1>3, <2>11
    <3>2. attached' \in BOOLEAN /\ socket' \in {"none", "open", "destroyed"} /\ connecting' \in Seq(Callers)
          /\ buffer' \in Seq(Ids) /\ half' \in 0 .. MaxId /\ garbled' \subseteq Ids /\ paid' \subseteq Addresses
      BY <1>2, <2>1 DEF ClientTypeOK
    <3>3. caller' \in [Callers -> CallerRecord]
      BY <1>1, <1>2
    <3>4. nextId' \in 1 .. MaxId + 1 /\ DOMAIN pending' \subseteq Ids
          /\ DOMAIN asked' \subseteq Ids /\ \A i \in DOMAIN asked' : asked'[i] \in Addresses
      BY <2>10
    <3>5. QED BY <3>1, <3>2, <3>3, <3>4 DEF ClientTypeOK, CallerRecord
  <2>13. QueueInv'
    BY <1>1, <1>2, <1>3, <1>5, <2>1, <2>3, <2>10, <2>11 DEF QueueInv
  <2>14. QED BY <1>1, <1>2, <1>4, <2>10, <2>12, <2>13
<1>7. CASE ~(attached /\ socket = "open")
  <2>1. connecting' = Append(connecting, c) /\ UNCHANGED <<pending, nextId, asked>>
    BY <1>7 DEF Request
  <2>2. /\ connecting' \in Seq(Callers) /\ Len(connecting') = Len(connecting) + 1
        /\ \A k \in DOMAIN connecting' :
             connecting'[k] = IF k \in DOMAIN connecting THEN connecting[k] ELSE c
        /\ \A k, l \in DOMAIN connecting' : k \notin DOMAIN connecting /\ l \notin DOMAIN connecting => k = l
    BY <2>1 DEF ClientTypeOK
  <2>3. ClientTypeOK'
    BY <1>1, <1>2, <2>1, <2>2 DEF ClientTypeOK, CallerRecord
  <2>4. PendingInv'
    BY <1>1, <1>2, <1>3, <2>1 DEF PendingInv
  <2>5. QueueInv'
    <3>1. \A k \in DOMAIN connecting' :
            /\ cs[connecting'[k]].is = "waiting" /\ cs[connecting'[k]].on \in Addresses
            /\ \A i \in DOMAIN pending : pending[i] # connecting'[k]
      BY <1>1, <1>3, <2>2 DEF QueueInv
    <3>2. \A k, l \in DOMAIN connecting' : connecting'[k] = connecting'[l] => k = l
      BY <1>3, <2>2 DEF QueueInv
    <3>3. QED BY <1>2, <1>5, <2>1, <2>2, <3>1, <3>2 DEF QueueInv
  <2>6. QED BY <1>1, <1>2, <1>4, <2>3, <2>4, <2>5
<1>8. QED BY <1>6, <1>7

\* The connection is there: everybody in the queue is written to it.
LEMMA OpenedKeeps ==
  ASSUME ClientInv, Opened
  PROVE  ClientInv' /\ caller' = caller
<1> USE DEF ClientInv
<1>1. /\ socket = "none" /\ socket' = "open" /\ attached' = TRUE /\ connecting' = <<>>
      /\ Register(connecting, caller) /\ buffer' = <<>> /\ half' = 0 /\ garbled' = {}
      /\ caller' = caller /\ paid' = paid
  BY DEF Opened
<1>2. /\ connecting \in Seq(Callers) /\ nextId + Len(connecting) <= MaxId + 1
      /\ caller \in [Callers -> CallerRecord]
      /\ \A k \in DOMAIN connecting :
           caller[connecting[k]].is = "waiting" /\ caller[connecting[k]].on \in Addresses
      /\ \A k, l \in DOMAIN connecting : connecting[k] = connecting[l] => k = l
      /\ \A i \in DOMAIN pending : \A k \in DOMAIN connecting : pending[i] # connecting[k]
  BY DEF ClientTypeOK, CallerRecord, QueueInv
<1>3. /\ PendingInv' /\ nextId' \in 1 .. MaxId + 1
      /\ DOMAIN pending' \subseteq Ids
      /\ \A i \in DOMAIN pending' : \/ i \in DOMAIN pending /\ pending'[i] = pending[i]
                                    \/ \E k \in DOMAIN connecting : pending'[i] = connecting[k]
      /\ DOMAIN asked' \subseteq Ids /\ \A i \in DOMAIN asked' : asked'[i] \in Addresses
  BY <1>1, <1>2, RegisterKeeps
<1>4. \A i \in DOMAIN pending' : pending'[i] \in Callers
  BY <1>2, <1>3 DEF ClientTypeOK
<1>5. ClientTypeOK'
  BY <1>1, <1>2, <1>3, <1>4, ClientAssumption DEF ClientTypeOK, CallerRecord
<1>6. QueueInv'
  BY <1>1, <1>3, ClientAssumption DEF QueueInv
<1>7. OwnAnswer' /\ BufferInv'
  BY <1>1 DEF OwnAnswer, BufferInv
<1>8. QED BY <1>1, <1>3, <1>5, <1>6, <1>7

\* One request is no longer pending, and its caller no longer waits.
LEMMA SettledKeeps ==
  ASSUME ClientTypeOK, PendingInv, QueueInv, NEW i \in DOMAIN pending,
         pending' = Without(pending, i), UNCHANGED <<socket, connecting, nextId>>,
         DOMAIN pending' \subseteq DOMAIN asked', \A j \in DOMAIN pending' : asked'[j] = asked[j],
         \A c \in Callers \ {pending[i]} : caller'[c] = caller[c]
  PROVE  /\ PendingInv' /\ QueueInv'
         /\ DOMAIN pending' \subseteq Ids /\ \A j \in DOMAIN pending' : pending'[j] \in Callers
<1>1. /\ DOMAIN pending' = DOMAIN pending \ {i}
      /\ \A j \in DOMAIN pending' : pending'[j] = pending[j] /\ pending[j] \in Callers \ {pending[i]}
  BY DEF Without, PendingInv, ClientTypeOK
<1>2. \A k \in DOMAIN connecting : connecting[k] \in Callers \ {pending[i]}
  BY DEF QueueInv, ClientTypeOK
<1>3. PendingInv'
  BY <1>1 DEF PendingInv, EmptyMap
<1>4. QueueInv'
  BY <1>1, <1>2 DEF QueueInv
<1>5. QED BY <1>1, <1>3, <1>4 DEF ClientTypeOK

\* A request that runs out of time.
LEMMA TimeoutKeeps ==
  ASSUME ClientInv, NEW i \in Ids, Timeout(i)
  PROVE  ClientInv' /\ \A c \in Callers : caller[c].is = "free" => caller'[c].is = "free"
<1> USE DEF ClientInv
<1>1. /\ i \in DOMAIN pending /\ pending' = Without(pending, i) /\ caller' = Settled({pending[i]}, "rejected")
      /\ UNCHANGED <<attached, socket, connecting, nextId, buffer, asked, half, garbled, paid>>
  BY DEF Timeout, indexer
<1>2. /\ caller' \in [Callers -> CallerRecord]
      /\ \A c \in Callers : /\ caller'[c].on = caller[c].on
                            /\ caller'[c].about = caller[c].about
                            /\ caller'[c].is = IF c = pending[i] THEN "rejected" ELSE caller[c].is
  BY <1>1, SettledFields
<1>3. \A c \in Callers \ {pending[i]} : caller'[c] = caller[c]
  BY <1>1 DEF Settled
<1>4. DOMAIN pending' \subseteq DOMAIN asked' /\ \A j \in DOMAIN pending' : asked'[j] = asked[j]
  BY <1>1 DEF PendingInv, Without
<1>5. PendingInv' /\ QueueInv' /\ DOMAIN pending' \subseteq Ids /\ \A j \in DOMAIN pending' : pending'[j] \in Callers
  BY <1>1, <1>3, <1>4, SettledKeeps
<1>6. ClientTypeOK'
  BY <1>1, <1>2, <1>5 DEF ClientTypeOK, CallerRecord
<1>7. OwnAnswer' /\ BufferInv'
  BY <1>1, <1>2 DEF OwnAnswer, BufferInv
<1>8. caller[pending[i]].is = "waiting"
  BY <1>1 DEF PendingInv
<1>9. QED BY <1>2, <1>5, <1>6, <1>7, <1>8

\* The first part of a reply.
LEMMA FirstPartKeeps ==
  ASSUME ClientInv, NEW i \in Ids, FirstPart(i)
  PROVE  ClientInv' /\ caller' = caller
<1> USE DEF ClientInv
<1>1. /\ socket = "open" /\ half = 0 /\ half' = i /\ buffer = <<>> /\ buffer' = Append(<<>>, i)
      /\ UNCHANGED <<attached, socket, connecting, pending, nextId, caller, asked, garbled, paid>>
  BY DEF FirstPart, BufferInv
<1>2. buffer' = <<i>> /\ <<i>> \in Seq(Ids) /\ i # 0 /\ i \in 0 .. MaxId
  BY <1>1, ClientAssumption DEF Ids
<1>3. BufferInv' /\ ClientTypeOK'
  BY <1>1, <1>2 DEF BufferInv, ClientTypeOK
<1>4. PendingInv' /\ QueueInv' /\ OwnAnswer'
  BY <1>1 DEF PendingInv, QueueInv, OwnAnswer
<1>5. QED BY <1>1, <1>3, <1>4

\* A whole reply, whoever it is for.
LEMMA LineEndsKeeps ==
  ASSUME ClientInv, NEW i \in Ids, LineEnds(i)
  PROVE  ClientInv' /\ \A c \in Callers : caller[c].is = "free" => caller'[c].is = "free"
<1> USE DEF ClientInv
<1>1. /\ socket = "open" /\ half \in {0, i} /\ i \in DOMAIN asked /\ half' = 0 /\ buffer' = <<>>
      /\ asked' = Without(asked, i)
      /\ UNCHANGED <<attached, socket, connecting, nextId, paid>>
  BY DEF LineEnds
<1>2. i # 0
  BY ClientAssumption DEF Ids
<1>3. garbled' = garbled /\ garbled' = {}
  BY <1>1, <1>2 DEF LineEnds, BufferInv
<1>4. /\ DOMAIN asked' = DOMAIN asked \ {i} /\ \A j \in DOMAIN asked' : asked'[j] = asked[j]
      /\ 0 \in 0 .. MaxId /\ <<>> \in Seq(Ids)
  BY <1>1, ClientAssumption DEF Without
<1>5. BufferInv'
  BY <1>1, <1>3 DEF BufferInv
<1>6. CASE i \notin DOMAIN pending
  <2>1. pending' = pending /\ caller' = caller
    BY <1>6 DEF LineEnds
  <2>2. ClientTypeOK'
    BY <1>1, <1>3, <1>4, <2>1 DEF ClientTypeOK
  <2>3. PendingInv' /\ QueueInv' /\ OwnAnswer'
    BY <1>1, <1>4, <1>6, <2>1 DEF PendingInv, QueueInv, OwnAnswer
  <2>4. QED BY <1>5, <2>1, <2>2, <2>3
<1>7. CASE i \in DOMAIN pending
  <2>1. /\ pending[i] \in Callers /\ caller[pending[i]].is = "waiting" /\ caller[pending[i]].on = asked[i]
        /\ asked[i] \in Addresses
    BY <1>7 DEF PendingInv, ClientTypeOK
  <2>2. /\ pending' = Without(pending, i)
        /\ \/ caller' = [caller EXCEPT ![pending[i]] =
                           [@ EXCEPT !.is = "resolved", !.about = asked[i], !.used = asked[i] \in paid]]
           \/ caller' = Settled({pending[i]}, "rejected")
    BY <1>3, <1>7 DEF LineEnds
  <2>3. /\ caller' \in [Callers -> CallerRecord]
        /\ \A c \in Callers \ {pending[i]} : caller'[c] = caller[c]
        /\ OwnAnswer'
    <3>1. CASE caller' = Settled({pending[i]}, "rejected")
      <4>1. caller' \in [Callers -> CallerRecord]
        BY <3>1, SettledFields
      <4>2. \A c \in Callers : /\ caller'[c].on = caller[c].on
                               /\ caller'[c].about = caller[c].about
                               /\ caller'[c].is = IF c \in {pending[i]} THEN "rejected" ELSE caller[c].is
        BY <3>1, SettledFields
      <4>3. QED BY <3>1, <4>1, <4>2 DEF OwnAnswer, Settled
    <3>2. CASE caller' = [caller EXCEPT ![pending[i]] =
                            [@ EXCEPT !.is = "resolved", !.about = asked[i], !.used = asked[i] \in paid]]
      <4>1. caller \in [Callers -> CallerRecord] /\ (asked[i] \in paid) \in BOOLEAN
        BY DEF ClientTypeOK, CallerRecord
      <4> DEFINE told == [caller[pending[i]] EXCEPT !.is = "resolved", !.about = asked[i],
                                                    !.used = asked[i] \in paid]
      <4>2. told \in CallerRecord /\ told.on = told.about
        BY <2>1, <4>1 DEF CallerRecord
      <4>3. caller' = [caller EXCEPT ![pending[i]] = told]
        BY <3>2
      <4> HIDE DEF told
      <4>4. QED BY <2>1, <4>1, <4>2, <4>3 DEF OwnAnswer
    <3>3. QED BY <2>2, <3>1, <3>2
  <2>4. DOMAIN pending' \subseteq DOMAIN asked' /\ \A j \in DOMAIN pending' : asked'[j] = asked[j]
    BY <1>4, <2>2 DEF PendingInv, Without
  <2>5. PendingInv' /\ QueueInv' /\ DOMAIN pending' \subseteq Ids /\ \A j \in DOMAIN pending' : pending'[j] \in Callers
    BY <1>1, <1>7, <2>2, <2>3, <2>4, SettledKeeps
  <2>6. ClientTypeOK'
    BY <1>1, <1>3, <1>4, <2>3, <2>5 DEF ClientTypeOK, CallerRecord
  <2>7. QED BY <1>5, <2>1, <2>3, <2>5, <2>6
<1>8. QED BY <1>6, <1>7

\* No event of the socket, of a timer or of the chain disturbs the client, and
\* none wakes a caller that asked for nothing.
LEMMA EventsKeep ==
  ASSUME ClientInv, SocketStep \/ Shutdown \/ \E a \in Addresses : Pay(a)
  PROVE  ClientInv' /\ \A c \in Callers : caller[c].is = "free" => caller'[c].is = "free"
<1>1. CASE Opened
  BY <1>1, OpenedKeeps
<1>2. CASE OpenFails
  <2>1. socket' \in {"none", "open", "destroyed"}
    BY <1>2 DEF OpenFails, ClientInv, ClientTypeOK
  <2>2. QED BY <1>2, <2>1, FailAllKeeps DEF OpenFails, indexer
<1>3. CASE \E i \in Ids : FirstPart(i) \/ LineEnds(i) \/ Timeout(i)
  BY <1>3, FirstPartKeeps, LineEndsKeeps, TimeoutKeeps
<1>4. CASE SocketFails
  BY <1>4, FailAllKeeps DEF SocketFails, indexer
<1>5. CASE ServerCloses
  BY <1>5 DEF ServerCloses, indexer, ClientInv, ClientTypeOK, BufferInv, PendingInv, QueueInv, OwnAnswer
<1>6. CASE Closed
  BY <1>6, FailAllKeeps DEF Closed
<1>7. CASE Shutdown
  <2>1. socket' \in {"none", "open", "destroyed"} /\ (socket' = "open" => socket = "open")
    BY <1>7 DEF Shutdown, ClientInv, ClientTypeOK
  <2>2. QED BY <1>7, <2>1, FailAllKeeps DEF Shutdown, indexer
<1>8. CASE \E a \in Addresses : Pay(a)
  BY <1>8, ClientAssumption
     DEF Pay, client, indexer, ClientInv, ClientTypeOK, BufferInv, PendingInv, QueueInv, OwnAnswer
<1>9. QED BY <1>1, <1>2, <1>3, <1>4, <1>5, <1>6, <1>7, <1>8 DEF SocketStep

-----------------------------------------------------------------------------
\* Nobody has asked anything yet.
LEMMA PoolStarts == Init => IInv
<1> SUFFICES ASSUME Init PROVE IInv
  OBVIOUS
<1> USE ClientAssumption, PoolAssumption DEF Init, ClientInit
<1>1. caller \in [Callers -> CallerRecord] /\ \A c \in Callers : caller[c].is = "free"
  BY DEF Fresh, CallerRecord
<1>2. <<>> \in Seq(Callers) /\ <<>> \in Seq(Ids) /\ Len(<<>>) = 0 /\ DOMAIN EmptyMap = {}
  BY DEF EmptyMap
<1>3. ClientTypeOK
  <2>1. nextId \in 1 .. MaxId + 1 /\ half \in 0 .. MaxId /\ garbled \subseteq Ids /\ paid \subseteq Addresses
    OBVIOUS
  <2>2. DOMAIN pending = {} /\ DOMAIN asked = {} /\ connecting \in Seq(Callers) /\ buffer \in Seq(Ids)
    BY <1>2
  <2>3. QED BY <1>1, <2>1, <2>2 DEF ClientTypeOK, CallerRecord
<1>4. BufferInv /\ PendingInv /\ QueueInv /\ OwnAnswer
  BY <1>1, <1>2 DEF BufferInv, PendingInv, QueueInv, OwnAnswer
<1>5. \A w \in Workers : worker[w].is = "off"
  BY DEF Now
<1>6. PoolInv
  BY <1>1, <1>5 DEF PoolInv
<1>7. QED BY <1>3, <1>4, <1>6 DEF IInv, ClientInv

\* A worker takes up what its caller has learnt: the caller is free again.
LEMMA FreedKeeps ==
  ASSUME ClientInv, NEW c \in Callers, caller[c].is \in {"resolved", "rejected"},
         caller' = [caller EXCEPT ![c] = Fresh], UNCHANGED <<client, indexer, paid>>
  PROVE  ClientInv' /\ caller'[c].is = "free" /\ \A d \in Callers \ {c} : caller'[d] = caller[d]
<1> USE DEF ClientInv
<1>1. /\ caller' \in [Callers -> CallerRecord] /\ caller'[c].is = "free"
      /\ \A d \in Callers \ {c} : caller'[d] = caller[d]
  BY DEF ClientTypeOK, CallerRecord, Fresh
<1>2. UNCHANGED <<attached, socket, connecting, pending, nextId, buffer, asked, half, garbled, paid>>
  BY DEF client, indexer
<1>3. /\ \A i \in DOMAIN pending : pending[i] \in Callers \ {c}
      /\ \A k \in DOMAIN connecting : connecting[k] \in Callers \ {c}
  BY DEF PendingInv, QueueInv, ClientTypeOK
<1>4. ClientTypeOK'
  BY <1>1, <1>2 DEF ClientTypeOK, CallerRecord
<1>5. BufferInv' /\ PendingInv' /\ QueueInv'
  BY <1>1, <1>2, <1>3 DEF BufferInv, PendingInv, QueueInv
<1>6. OwnAnswer'
  BY <1>1 DEF OwnAnswer
<1>7. QED BY <1>1, <1>4, <1>5, <1>6

\* Every step of the pool and of the socket keeps the invariant.
LEMMA PoolKeeps == IInv /\ [Next]_vars => IInv'
<1> SUFFICES ASSUME IInv, [Next]_vars PROVE IInv'
  OBVIOUS
<1> USE PoolAssumption DEF IInv
<1>1. ASSUME BeginPass PROVE IInv'
  <2>1. UNCHANGED clientVars /\ pass' = pass + 1
        /\ worker' = [w \in Workers |-> IF w \in PoolOf(pass + 1) THEN Now("pulling") ELSE worker[w]]
    BY <1>1 DEF BeginPass
  <2>2. ClientInv' /\ caller' = caller
    BY <2>1 DEF clientVars, client, indexer, ClientInv, ClientTypeOK, BufferInv, PendingInv, QueueInv, OwnAnswer
  <2>3. \A w \in PoolOf(pass + 1) : w[1] = pass + 1
    BY DEF PoolOf
  <2>4. PoolInv'
    <3>1. pass \in Nat /\ pass' \in Nat /\ DOMAIN worker' = Workers
      BY <2>1 DEF PoolInv
    <3>2. \A w \in Workers : caller'[w].is # "free" => worker'[w].is = "looking"
      BY <2>1, <2>2, <2>3, <3>1 DEF PoolInv
    <3>3. \A w \in Workers : w[1] \in Int /\ (w[1] > pass' => worker'[w].is = "off")
      BY <2>1, <2>3, <3>1 DEF PoolInv, Workers
    <3>4. QED BY <3>1, <3>2, <3>3 DEF PoolInv
  <2>5. QED BY <2>2, <2>4
<1>2. ASSUME NEW w \in Workers, Pull(w) PROVE IInv'
  <2>1. /\ worker[w].is = "pulling" /\ next[w[1]] \in Indices /\ pass' = pass
        /\ worker' = [worker EXCEPT ![w] = [is |-> "looking", at |-> next[w[1]]]]
        /\ Request(w, Window[next[w[1]]])
    BY <1>2 DEF Pull
  <2>2. w \in Callers /\ Window[next[w[1]]] \in Addresses /\ caller[w].is = "free"
    BY <2>1 DEF PoolInv, Indices
  <2>3. ClientInv' /\ \A d \in Callers \ {w} : caller'[d] = caller[d]
    BY <2>1, <2>2, RequestKeeps
  <2>4. PoolInv'
    BY <2>1, <2>3 DEF PoolInv
  <2>5. QED BY <2>3, <2>4
<1>3. ASSUME NEW w \in Workers, Return(w) PROVE IInv'
  <2>1. /\ worker[w].is = "pulling" /\ pass' = pass /\ UNCHANGED clientVars
        /\ worker' = [worker EXCEPT ![w] = Now("returned")]
    BY <1>3 DEF Return
  <2>2. ClientInv' /\ caller' = caller
    BY <2>1 DEF clientVars, client, indexer, ClientInv, ClientTypeOK, BufferInv, PendingInv, QueueInv, OwnAnswer
  <2>3. PoolInv'
    BY <2>1, <2>2 DEF PoolInv
  <2>4. QED BY <2>2, <2>3
<1>4. ASSUME NEW w \in Workers, Store(w) \/ Reject(w) PROVE IInv'
  <2>1. /\ worker[w].is = "looking" /\ caller[w].is \in {"resolved", "rejected"} /\ pass' = pass
        /\ worker' \in [Workers -> {worker[v] : v \in Workers} \cup {Now("pulling"), Now("rejected")}]
        /\ \A v \in Workers \ {w} : worker'[v] = worker[v]
        /\ caller' = [caller EXCEPT ![w] = Fresh] /\ UNCHANGED <<client, indexer, paid>>
    BY <1>4 DEF Store, Reject, PoolInv
  <2>2. ClientInv' /\ caller'[w].is = "free" /\ \A d \in Callers \ {w} : caller'[d] = caller[d]
    BY <2>1, FreedKeeps
  <2>3. w[1] <= pass
    BY <2>1 DEF PoolInv, Workers
  <2>4. PoolInv'
    BY <2>1, <2>2, <2>3 DEF PoolInv
  <2>5. QED BY <2>2, <2>4
<1>5. ASSUME SocketStep \/ Shutdown \/ \E a \in Addresses : Pay(a), UNCHANGED poolVars PROVE IInv'
  <2>1. ClientInv' /\ \A c \in Callers : caller[c].is = "free" => caller'[c].is = "free"
    BY <1>5, EventsKeep
  <2>2. PoolInv'
    BY <1>5, <2>1 DEF poolVars, PoolInv
  <2>3. QED BY <2>1, <2>2
<1>6. CASE UNCHANGED vars
  BY <1>6 DEF vars, clientVars, client, indexer, poolVars, PoolInv, ClientInv, ClientTypeOK, BufferInv,
              PendingInv, QueueInv, OwnAnswer
<1>7. QED BY <1>1, <1>2, <1>3, <1>4, <1>5, <1>6 DEF Next, PoolStep

\* Every reachable state satisfies the invariant: a caller waits in one place
\* at most, and the buffer holds the current reply.
THEOREM ClientInductive == Spec => []IInv
BY PoolStarts, PoolKeeps, PTL DEF Spec

\* An answer is about the address its caller asked about, however many replies
\* before it were late, timed out or lost with their connection.
THEOREM AnswersAreOwn == Spec => []OwnAnswer
<1>1. IInv => OwnAnswer
  BY DEF IInv, ClientInv
<1>2. QED BY <1>1, ClientInductive, PTL

\* No reply is lost to what an earlier connection left in the buffer.
THEOREM NoReplyGarbled == Spec => []RepliesSettle
<1>1. IInv => RepliesSettle
  BY DEF IInv, ClientInv, BufferInv, RepliesSettle
<1>2. QED BY <1>1, ClientInductive, PTL

\* Nobody waits for a connection that is gone.
THEOREM NothingHangs == Spec => []InFlightOnThisSocket
<1>1. IInv => InFlightOnThisSocket
  <2> SUFFICES ASSUME IInv PROVE InFlightOnThisSocket
    OBVIOUS
  <2>1. socket = "none" => pending = EmptyMap
    BY DEF IInv, ClientInv, PendingInv
  <2>2. DOMAIN pending \subseteq DOMAIN asked \cup garbled
    BY DEF IInv, ClientInv, PendingInv
  <2>3. QED BY <2>1, <2>2 DEF InFlightOnThisSocket
<1>2. QED BY <1>1, ClientInductive, PTL
-----------------------------------------------------------------------------
(***************************************************************************)
(* What a pass learns.  A worker that looks an index up has asked about    *)
(* its address; the answer, given after the pass began, is at least as     *)
(* fresh as the chain was then.  An index the cursor has passed is known,  *)
(* or a worker looks it up, or one has been rejected.                      *)
(***************************************************************************)
AnswerInv ==
  \A w \in Workers : worker[w].is = "looking" =>
    /\ worker[w].at \in Indices
    /\ caller[w].is # "free"
    /\ caller[w].on = Window[worker[w].at]
    /\ caller[w].is = "resolved" =>
         IF caller[w].used THEN caller[w].on \in paid
                           ELSE w[1] = pass => caller[w].on \notin sure

\* Only the pass under way is compared with what was paid when it began, and a
\* pass to come has learnt nothing.
FoundInv ==
  /\ found \in [1 .. MaxPass -> [Indices -> {"unknown", "used", "unused"}]]
  /\ sure \subseteq paid
  /\ \A p \in 1 .. MaxPass : \A i \in Indices :
       /\ found[p][i] = "used" => Window[i] \in paid
       /\ p = pass /\ found[p][i] = "unused" => Window[i] \notin sure
       /\ p > pass => found[p][i] = "unknown"

LookedUp(p, i) ==
  \/ found[p][i] # "unknown"
  \/ \E w \in Workers : w[1] = p /\ (worker[w].is = "rejected" \/ worker[w] = [is |-> "looking", at |-> i])

CursorInv ==
  /\ next \in [1 .. MaxPass -> Nat \ {0}]
  /\ \A p \in 1 .. MaxPass : \A i \in Indices : i < next[p] => LookedUp(p, i)

\* A worker returns at the end of the window only; a pass is done when all of
\* its workers have.
EndInv ==
  /\ \A w \in Workers : worker[w].is # "off" => w \in PoolOf(w[1])
  /\ \A w \in Workers : worker[w].is = "returned" => next[w[1]] > Len(Window)
  /\ done =>
       /\ pass \in 1 .. MaxPass /\ next[pass] > Len(Window)
       /\ \A w \in PoolOf(pass) : worker[w].is = "returned"

PassInv == AnswerInv /\ FoundInv /\ CursorInv /\ EndInv

\* What an event does to a promise: it keeps its question; it may be rejected,
\* or told what the chain says now.
LEMMA EventTells ==
  ASSUME ClientInv, SocketStep \/ Shutdown \/ \E a \in Addresses : Pay(a)
  PROVE  /\ paid \subseteq paid'
         /\ \A c \in Callers :
              /\ caller'[c].on = caller[c].on
              /\ caller[c].is # "free" => caller'[c].is # "free"
              /\ caller'[c].is = "resolved" =>
                   \/ caller[c].is = "resolved" /\ caller'[c].used = caller[c].used
                   \/ caller'[c].used = (caller[c].on \in paid)
<1> USE DEF ClientInv
<1> DEFINE Told ==
      \A c \in Callers :
        /\ caller'[c].on = caller[c].on
        /\ caller[c].is # "free" => caller'[c].is # "free"
        /\ caller'[c].is = "resolved" =>
             \/ caller[c].is = "resolved" /\ caller'[c].used = caller[c].used
             \/ caller'[c].used = (caller[c].on \in paid)
<1>1. ASSUME NEW C, caller' = Settled(C, "rejected") PROVE Told
  <2>1. \A c \in Callers : caller[c] \in CallerRecord
    BY DEF ClientTypeOK, CallerRecord
  <2>2. \A c \in Callers : caller'[c] = IF c \in C THEN [caller[c] EXCEPT !.is = "rejected"] ELSE caller[c]
    BY <1>1 DEF Settled
  <2>3. QED BY <2>1, <2>2 DEF CallerRecord
<1>2. ASSUME NEW i \in Ids, LineEnds(i) PROVE Told
  <2>1. CASE UNCHANGED caller
    BY <2>1
  <2>2. CASE \E C : caller' = Settled(C, "rejected")
    BY <2>2, <1>1
  <2>3. CASE /\ i \in DOMAIN pending
             /\ caller' = [caller EXCEPT ![pending[i]] =
                             [@ EXCEPT !.is = "resolved", !.about = asked[i], !.used = asked[i] \in paid]]
    <3>1. pending[i] \in Callers /\ caller[pending[i]].on = asked[i]
      BY <2>3 DEF PendingInv, ClientTypeOK
    <3>2. caller \in [Callers -> CallerRecord] /\ (asked[i] \in paid) \in BOOLEAN
      BY DEF ClientTypeOK, CallerRecord
    <3> DEFINE told == [caller[pending[i]] EXCEPT !.is = "resolved", !.about = asked[i],
                                                  !.used = asked[i] \in paid]
    <3>3. told.is = "resolved" /\ told.on = asked[i] /\ told.used = (asked[i] \in paid)
      BY <3>1, <3>2 DEF CallerRecord
    <3>4. caller' = [caller EXCEPT ![pending[i]] = told]
      BY <2>3
    <3> HIDE DEF told
    <3>5. QED BY <3>1, <3>2, <3>3, <3>4
  <2>4. QED BY <1>2, <2>1, <2>2, <2>3 DEF LineEnds
<1>3. CASE \E a \in Addresses : Pay(a)
  BY <1>3 DEF Pay
<1>4. CASE SocketStep \/ Shutdown
  <2>1. paid' = paid
    <3>1. ASSUME NEW i \in Ids, FirstPart(i) \/ LineEnds(i) \/ Timeout(i) PROVE paid' = paid
      BY <3>1 DEF FirstPart, LineEnds, Timeout
    <3>2. CASE Opened \/ OpenFails \/ SocketFails \/ ServerCloses \/ Closed \/ Shutdown
      BY <3>2 DEF Opened, OpenFails, SocketFails, ServerCloses, Closed, Shutdown
    <3>3. QED BY <1>4, <3>1, <3>2 DEF SocketStep
  <2>2. CASE Opened \/ ServerCloses \/ \E i \in Ids : FirstPart(i)
    BY <2>1, <2>2 DEF Opened, ServerCloses, FirstPart
  <2>3. CASE OpenFails \/ SocketFails \/ Closed \/ Shutdown
    BY <1>1, <2>1, <2>3 DEF OpenFails, SocketFails, Closed, Shutdown, FailAll
  <2>4. CASE \E i \in Ids : Timeout(i)
    BY <1>1, <2>1, <2>4 DEF Timeout
  <2>5. CASE \E i \in Ids : LineEnds(i)
    BY <1>2, <2>1, <2>5
  <2>6. QED BY <1>4, <2>2, <2>3, <2>4, <2>5 DEF SocketStep
<1>5. QED BY <1>3, <1>4

\* Nothing has been learnt before the first pass.
LEMMA PassStarts == Init => PassInv
<1> SUFFICES ASSUME Init PROVE PassInv
  OBVIOUS
<1> USE PoolAssumption DEF Init
<1>1. \A w \in Workers : worker[w].is = "off"
  BY DEF Now
<1>2. sure = {} /\ done = FALSE /\ \A p \in 1 .. MaxPass : next[p] = 1
  OBVIOUS
<1>3. \A p \in 1 .. MaxPass : \A i \in Indices : found[p][i] = "unknown" /\ i >= 1
  BY DEF Indices
<1>4. AnswerInv
  BY <1>1 DEF AnswerInv
<1>5. FoundInv
  BY <1>2, <1>3 DEF FoundInv
<1>6. CursorInv
  BY <1>2, <1>3 DEF CursorInv, Indices
<1>7. EndInv
  BY <1>1, <1>2 DEF EndInv
<1>8. QED BY <1>4, <1>5, <1>6, <1>7 DEF PassInv

\* What PassInv says of one worker.
LEMMA WorkerFields ==
  ASSUME IInv, PassInv, NEW w \in Workers
  PROVE  /\ w \in Callers /\ w[1] \in 1 .. MaxPass /\ w[1] \in Nat /\ pass \in Nat /\ MaxPass \in Nat
         /\ next[w[1]] \in Nat \ {0} /\ Len(Window) \in Nat /\ Indices = 1 .. Len(Window)
         /\ worker[w].is # "off" => w \in PoolOf(w[1]) /\ w[1] <= pass
<1>1. w \in Callers /\ w[1] \in 1 .. MaxPass /\ MaxPass \in Nat /\ Len(Window) \in Nat
  BY PoolAssumption DEF Workers
<1>2. pass \in Nat /\ (w[1] > pass => worker[w].is = "off")
  BY DEF IInv, PoolInv
<1>3. QED BY <1>1, <1>2 DEF PassInv, CursorInv, EndInv, Indices

\* A pass begins: its workers were off, and nothing was known.
LEMMA BeginKeeps ==
  ASSUME IInv, PassInv, BeginPass
  PROVE  PassInv'
<1>1. /\ pass' = pass + 1 /\ pass \in Nat /\ done' = FALSE /\ sure' = paid
      /\ UNCHANGED <<caller, paid, next, found>>
      /\ worker' = [w \in Workers |-> IF w \in PoolOf(pass + 1) THEN Now("pulling") ELSE worker[w]]
  BY DEF BeginPass, IInv, PoolInv, clientVars
<1>2. \A w \in PoolOf(pass + 1) : w[1] = pass + 1
  BY DEF PoolOf
<1>3. \A w \in Workers :
        \/ worker'[w] = worker[w]
        \/ worker[w].is = "off" /\ worker'[w].is = "pulling" /\ w \in PoolOf(w[1])
  <2> SUFFICES ASSUME NEW w \in Workers, w \in PoolOf(pass + 1)
               PROVE  worker[w].is = "off" /\ worker'[w].is = "pulling" /\ w \in PoolOf(w[1])
    BY <1>1
  <2>1. worker[w].is = "off"
    BY <1>1, <1>2, WorkerFields
  <2>2. QED BY <1>1, <1>2, <2>1 DEF Now
<1>4. \A w \in Workers : worker[w].is # "off" => w[1] # pass'
  <2>1. \A w \in Workers : worker[w].is # "off" => w[1] <= pass /\ w[1] \in Nat
    BY WorkerFields
  <2>2. QED BY <1>1, <2>1
<1>5. AnswerInv'
  BY <1>1, <1>3, <1>4 DEF PassInv, AnswerInv
<1>6. FoundInv'
  <2>1. \A p \in 1 .. MaxPass : p >= pass' => p > pass
    BY <1>1, PoolAssumption
  <2>2. \A p \in 1 .. MaxPass : (p > pass' => p >= pass') /\ (p = pass' => p >= pass')
    BY <1>1, PoolAssumption
  <2>3. QED BY <1>1, <2>1, <2>2 DEF PassInv, FoundInv
<1>7. CursorInv'
  <2>1. ASSUME NEW p \in 1 .. MaxPass, NEW i \in Indices, LookedUp(p, i) PROVE LookedUp(p, i)'
    BY <1>1, <1>3, <2>1 DEF LookedUp
  <2>2. QED BY <1>1, <2>1 DEF PassInv, CursorInv
<1>8. EndInv'
  BY <1>1, <1>3 DEF PassInv, EndInv
<1>9. QED BY <1>5, <1>6, <1>7, <1>8 DEF PassInv

\* A worker takes the next index.
LEMMA PullKeeps ==
  ASSUME IInv, PassInv, NEW w \in Workers, Pull(w)
  PROVE  PassInv'
<1> DEFINE i == next[w[1]]
           looking == [is |-> "looking", at |-> i]
<1>1. /\ worker[w].is = "pulling" /\ i \in Indices
      /\ next' = [next EXCEPT ![w[1]] = i + 1]
      /\ worker' = [worker EXCEPT ![w] = looking]
      /\ UNCHANGED <<pass, done, found, sure, paid>>
      /\ Request(w, Window[i])
  BY DEF Pull, Request
<1>2. /\ w \in Callers /\ w[1] \in 1 .. MaxPass /\ i \in Nat \ {0} /\ w \in PoolOf(w[1])
      /\ Indices = 1 .. Len(Window) /\ Len(Window) \in Nat
  BY <1>1, WorkerFields
<1>3. /\ worker'[w] = looking /\ looking.is = "looking" /\ looking.at = i
      /\ \A v \in Workers \ {w} : worker'[v] = worker[v]
  BY <1>1 DEF IInv, PoolInv
<1>4. /\ caller'[w].is = "waiting" /\ caller'[w].on = Window[i]
      /\ \A v \in Workers \ {w} : caller'[v] = caller[v]
  BY <1>1, <1>2, PoolAssumption DEF Request, Fresh, IInv, ClientInv, ClientTypeOK
<1>5. /\ \A p \in 1 .. MaxPass : next'[p] \in Nat \ {0} /\ next[p] <= next'[p] /\ next[p] \in Nat
      /\ \A p \in 1 .. MaxPass \ {w[1]} : next'[p] = next[p]
      /\ next'[w[1]] = i + 1 /\ next' \in [1 .. MaxPass -> Nat \ {0}]
  <2>1. next \in [1 .. MaxPass -> Nat \ {0}]
    BY DEF PassInv, CursorInv
  <2>2. QED BY <1>1, <1>2, <2>1
<1> HIDE DEF looking
<1>6. AnswerInv'
  BY <1>1, <1>3, <1>4 DEF PassInv, AnswerInv
<1>7. FoundInv'
  BY <1>1 DEF PassInv, FoundInv
<1>8. CursorInv'
  <2> SUFFICES ASSUME NEW p \in 1 .. MaxPass, NEW j \in Indices, j < next'[p] PROVE LookedUp(p, j)'
    BY <1>5 DEF CursorInv
  <2>1. CASE j < next[p]
    <3>1. LookedUp(p, j)
      BY <2>1 DEF PassInv, CursorInv
    <3>2. QED BY <1>1, <1>3, <3>1 DEF LookedUp
  <2>2. CASE ~(j < next[p])
    <3>1. p = w[1] /\ j = i
      BY <1>2, <1>5, <2>2
    <3>2. QED BY <1>3, <3>1 DEF LookedUp, looking
  <2>3. QED BY <2>1, <2>2
<1>9. EndInv'
  <2>1. \A v \in Workers : worker'[v].is # "off" => v \in PoolOf(v[1])
    BY <1>2, <1>3 DEF PassInv, EndInv
  <2>2. \A v \in Workers : worker'[v].is = "returned" => next'[v[1]] > Len(Window)
    <3> SUFFICES ASSUME NEW v \in Workers, worker'[v].is = "returned" PROVE next'[v[1]] > Len(Window)
      OBVIOUS
    <3>1. next[v[1]] > Len(Window)
      BY <1>3 DEF PassInv, EndInv
    <3>2. v[1] \in 1 .. MaxPass
      BY WorkerFields
    <3>3. QED BY <1>2, <1>5, <3>1, <3>2
  <2>3. done' => /\ pass' \in 1 .. MaxPass /\ next'[pass'] > Len(Window)
                 /\ \A v \in PoolOf(pass') : worker'[v].is = "returned"
    <3> SUFFICES ASSUME done
                 PROVE  /\ pass \in 1 .. MaxPass /\ next'[pass] > Len(Window)
                        /\ \A v \in PoolOf(pass) : worker'[v].is = "returned"
      BY <1>1
    <3>1. /\ pass \in 1 .. MaxPass /\ next[pass] > Len(Window)
          /\ \A v \in PoolOf(pass) : worker[v].is = "returned"
      BY DEF PassInv, EndInv
    <3>2. \A v \in PoolOf(pass) : v \in Workers /\ v # w
      BY <1>1, <3>1, PoolAssumption DEF PoolOf, Workers, PoolSize
    <3>3. QED BY <1>2, <1>3, <1>5, <3>1, <3>2
  <2>4. QED BY <2>1, <2>2, <2>3 DEF EndInv
<1>10. QED BY <1>6, <1>7, <1>8, <1>9 DEF PassInv

\* A worker finds the window at its end; the last one of its pass ends it.
LEMMA ReturnKeeps ==
  ASSUME IInv, PassInv, NEW w \in Workers, Return(w)
  PROVE  PassInv'
<1>1. /\ worker[w].is = "pulling" /\ next[w[1]] \notin Indices
      /\ next' = [next EXCEPT ![w[1]] = @ + 1]
      /\ worker' = [worker EXCEPT ![w] = Now("returned")]
      /\ UNCHANGED <<pass, found, sure, paid, caller>>
  BY DEF Return, clientVars
<1>2. /\ w[1] \in 1 .. MaxPass /\ next[w[1]] \in Nat \ {0} /\ w \in PoolOf(w[1])
      /\ Indices = 1 .. Len(Window) /\ Len(Window) \in Nat
  BY <1>1, WorkerFields
<1>3. /\ worker'[w].is = "returned"
      /\ \A v \in Workers \ {w} : worker'[v] = worker[v]
  BY <1>1 DEF IInv, PoolInv, Now
<1>4. /\ \A p \in 1 .. MaxPass : next'[p] \in Nat \ {0} /\ next[p] <= next'[p] /\ next[p] \in Nat
      /\ \A p \in 1 .. MaxPass \ {w[1]} : next'[p] = next[p]
      /\ next[w[1]] > Len(Window) /\ next' \in [1 .. MaxPass -> Nat \ {0}]
  <2>1. next \in [1 .. MaxPass -> Nat \ {0}]
    BY DEF PassInv, CursorInv
  <2>2. QED BY <1>1, <1>2, <2>1
<1>5. AnswerInv'
  BY <1>1, <1>3 DEF PassInv, AnswerInv
<1>6. FoundInv'
  BY <1>1 DEF PassInv, FoundInv
<1>7. CursorInv'
  <2> SUFFICES ASSUME NEW p \in 1 .. MaxPass, NEW j \in Indices, j < next'[p] PROVE LookedUp(p, j)'
    BY <1>4 DEF CursorInv
  <2>1. j < next[p]
    BY <1>2, <1>4
  <2>2. LookedUp(p, j)
    BY <2>1 DEF PassInv, CursorInv
  <2>3. QED BY <1>1, <1>3, <2>2 DEF LookedUp
<1>8. EndInv'
  <2>1. \A v \in Workers : worker'[v].is # "off" => v \in PoolOf(v[1])
    BY <1>2, <1>3 DEF PassInv, EndInv
  <2>2. \A v \in Workers : worker'[v].is = "returned" => next'[v[1]] > Len(Window)
    <3> SUFFICES ASSUME NEW v \in Workers, worker'[v].is = "returned" PROVE next'[v[1]] > Len(Window)
      OBVIOUS
    <3>1. next[v[1]] > Len(Window)
      BY <1>3, <1>4 DEF PassInv, EndInv
    <3>2. v[1] \in 1 .. MaxPass
      BY WorkerFields
    <3>3. QED BY <1>2, <1>4, <3>1, <3>2
  <2>3. done' => /\ pass' \in 1 .. MaxPass /\ next'[pass'] > Len(Window)
                 /\ \A v \in PoolOf(pass') : worker'[v].is = "returned"
    <3>1. CASE w[1] = pass /\ \A v \in PoolOf(pass) : worker'[v].is = "returned"
      BY <1>1, <1>2, <1>4, <3>1
    <3>2. CASE done' = done
      <4> SUFFICES ASSUME done
                   PROVE  /\ pass \in 1 .. MaxPass /\ next'[pass] > Len(Window)
                          /\ \A v \in PoolOf(pass) : worker'[v].is = "returned"
        BY <1>1, <3>2
      <4>1. /\ pass \in 1 .. MaxPass /\ next[pass] > Len(Window)
            /\ \A v \in PoolOf(pass) : worker[v].is = "returned"
        BY DEF PassInv, EndInv
      <4>2. \A v \in PoolOf(pass) : v \in Workers
        BY <4>1, PoolAssumption DEF PoolOf, Workers, PoolSize
      <4>3. QED BY <1>2, <1>3, <1>4, <4>1, <4>2
    <3>3. QED BY <3>1, <3>2 DEF Return
  <2>4. QED BY <2>1, <2>2, <2>3 DEF EndInv
<1>9. QED BY <1>5, <1>6, <1>7, <1>8 DEF PassInv

\* A worker stores what it was told, or ends because it was told nothing.
LEMMA StoreKeeps ==
  ASSUME IInv, PassInv, NEW w \in Workers, Store(w) \/ Reject(w)
  PROVE  PassInv'
<1> DEFINE i == worker[w].at
           heard == IF caller[w].used THEN "used" ELSE "unused"
<1>1. /\ worker[w].is = "looking"
      /\ caller' = [caller EXCEPT ![w] = Fresh]
      /\ UNCHANGED <<pass, done, next, sure, paid>>
      /\ \A v \in Workers \ {w} : worker'[v] = worker[v]
      /\ worker'[w].is \in {"pulling", "rejected"}
      /\ \/ caller[w].is = "resolved" /\ found' = [found EXCEPT ![w[1]][i] = heard]
         \/ worker'[w].is = "rejected" /\ found' = found
  BY DEF Store, Reject, Now, IInv, PoolInv
<1>2. /\ w \in Callers /\ w[1] \in 1 .. MaxPass /\ w \in PoolOf(w[1]) /\ w[1] <= pass
      /\ pass \in Nat /\ w[1] \in Nat
  BY <1>1, WorkerFields
<1>3. /\ i \in Indices
      /\ caller[w].is = "resolved" =>
           /\ heard = "used" => Window[i] \in paid
           /\ heard = "unused" /\ w[1] = pass => Window[i] \notin sure
  BY <1>1 DEF PassInv, AnswerInv
<1>4. \A v \in Workers \ {w} : v \in Callers /\ caller'[v] = caller[v]
  BY <1>1, PoolAssumption DEF IInv, ClientInv, ClientTypeOK
<1>h. heard \in {"used", "unused"}
  OBVIOUS
<1> HIDE DEF i, heard
<1>5. /\ found' \in [1 .. MaxPass -> [Indices -> {"unknown", "used", "unused"}]]
      /\ \A p \in 1 .. MaxPass : \A j \in Indices :
           \/ found'[p][j] = found[p][j]
           \/ caller[w].is = "resolved" /\ p = w[1] /\ j = i /\ found'[p][j] = heard
      /\ caller[w].is = "resolved" /\ worker'[w].is # "rejected" => found'[w[1]][i] = heard
  <2>1. found \in [1 .. MaxPass -> [Indices -> {"unknown", "used", "unused"}]]
    BY DEF PassInv, FoundInv
  <2>2. CASE worker'[w].is = "rejected" /\ found' = found
    BY <2>1, <2>2
  <2>3. CASE caller[w].is = "resolved" /\ found' = [found EXCEPT ![w[1]][i] = heard]
    <3> DEFINE row == [found[w[1]] EXCEPT ![i] = heard]
    <3>1. row \in [Indices -> {"unknown", "used", "unused"}] /\ row[i] = heard
          /\ \A j \in Indices \ {i} : row[j] = found[w[1]][j]
      BY <1>2, <1>3, <1>h, <2>1
    <3>2. found' = [found EXCEPT ![w[1]] = row]
      BY <2>3
    <3> HIDE DEF row
    <3>3. found' \in [1 .. MaxPass -> [Indices -> {"unknown", "used", "unused"}]]
          /\ found'[w[1]] = row /\ \A p \in 1 .. MaxPass \ {w[1]} : found'[p] = found[p]
      BY <1>2, <2>1, <3>1, <3>2
    <3>4. QED BY <2>3, <3>1, <3>3
  <2>4. QED BY <1>1, <2>2, <2>3
<1>6. AnswerInv'
  BY <1>1, <1>4 DEF PassInv, AnswerInv
<1>7. FoundInv'
  <2> SUFFICES ASSUME NEW p \in 1 .. MaxPass, NEW j \in Indices
               PROVE  /\ found'[p][j] = "used" => Window[j] \in paid
                      /\ p = pass /\ found'[p][j] = "unused" => Window[j] \notin sure
                      /\ p > pass => found'[p][j] = "unknown"
    BY <1>1, <1>5 DEF PassInv, FoundInv
  <2>1. CASE found'[p][j] = found[p][j]
    BY <2>1 DEF PassInv, FoundInv
  <2>2. CASE caller[w].is = "resolved" /\ p = w[1] /\ j = i /\ found'[p][j] = heard
    BY <1>2, <1>3, <2>2
  <2>3. QED BY <1>5, <2>1, <2>2
<1>8. CursorInv'
  <2> SUFFICES ASSUME NEW p \in 1 .. MaxPass, NEW j \in Indices, j < next[p] PROVE LookedUp(p, j)'
    BY <1>1 DEF PassInv, CursorInv
  <2>1. LookedUp(p, j)
    BY DEF PassInv, CursorInv
  <2>2. CASE found[p][j] # "unknown"
    BY <1>5, <1>h, <2>2 DEF LookedUp
  <2>3. ASSUME NEW v \in Workers, v[1] = p,
               worker[v].is = "rejected" \/ worker[v] = [is |-> "looking", at |-> j]
        PROVE  LookedUp(p, j)'
    <3>1. CASE v # w
      BY <1>1, <2>3, <3>1 DEF LookedUp
    <3>2. CASE v = w
      <4>1. j = i /\ p = w[1]
        BY <1>1, <2>3, <3>2 DEF i
      <4>2. CASE worker'[w].is = "rejected"
        BY <4>1, <4>2 DEF LookedUp
      <4>3. CASE worker'[w].is # "rejected"
        BY <1>1, <1>5, <1>h, <4>1, <4>3 DEF LookedUp
      <4>4. QED BY <4>2, <4>3
    <3>3. QED BY <3>1, <3>2
  <2>4. QED BY <2>1, <2>2, <2>3 DEF LookedUp
<1>9. EndInv'
  <2>1. done => w \notin PoolOf(pass)
    BY <1>1 DEF PassInv, EndInv
  <2>2. \A v \in PoolOf(pass) : pass \in 1 .. MaxPass => v \in Workers
    BY PoolAssumption DEF PoolOf, Workers, PoolSize
  <2>3. QED BY <1>1, <1>2, <2>1, <2>2 DEF PassInv, EndInv
<1>10. QED BY <1>6, <1>7, <1>8, <1>9 DEF PassInv

\* Every step keeps what a pass has learnt.
LEMMA PassKeeps ==
  ASSUME IInv, PassInv, [Next]_vars
  PROVE  PassInv'
<1>1. CASE BeginPass
  BY <1>1, BeginKeeps
<1>2. CASE PoolStep
  BY <1>2, PullKeeps, ReturnKeeps, StoreKeeps DEF PoolStep
<1>3. CASE (SocketStep \/ Shutdown \/ \E a \in Addresses : Pay(a)) /\ UNCHANGED poolVars
  <2>1. UNCHANGED <<pass, running, done, next, found, worker, sure>>
    BY <1>3 DEF poolVars
  <2>2. /\ paid \subseteq paid'
        /\ \A c \in Callers :
             /\ caller'[c].on = caller[c].on
             /\ caller[c].is # "free" => caller'[c].is # "free"
             /\ caller'[c].is = "resolved" =>
                  \/ caller[c].is = "resolved" /\ caller'[c].used = caller[c].used
                  \/ caller'[c].used = (caller[c].on \in paid)
    BY <1>3, EventTells DEF IInv
  <2>3. AnswerInv'
    <3>1. sure \subseteq paid
      BY DEF PassInv, FoundInv
    <3>2. ASSUME NEW w \in Workers, worker[w].is = "looking"
          PROVE  /\ worker[w].at \in Indices
                 /\ caller'[w].is # "free"
                 /\ caller'[w].on = Window[worker[w].at]
                 /\ caller'[w].is = "resolved" =>
                      IF caller'[w].used THEN caller'[w].on \in paid'
                                         ELSE w[1] = pass => caller'[w].on \notin sure
      <4>1. w \in Callers
        BY PoolAssumption
      <4>2. QED BY <2>2, <3>1, <3>2, <4>1 DEF PassInv, AnswerInv
    <3>3. QED BY <2>1, <3>2 DEF AnswerInv
  <2>4. FoundInv' /\ CursorInv' /\ EndInv'
    BY <2>1, <2>2 DEF PassInv, FoundInv, CursorInv, LookedUp, EndInv
  <2>5. QED BY <2>3, <2>4 DEF PassInv
<1>4. CASE UNCHANGED vars
  <2>1. UNCHANGED <<pass, done, next, found, worker, sure, caller, paid>>
    BY <1>4 DEF vars, poolVars, clientVars
  <2>2. AnswerInv' /\ FoundInv'
    BY <2>1 DEF PassInv, AnswerInv, FoundInv
  <2>3. CursorInv' /\ EndInv'
    BY <2>1 DEF PassInv, CursorInv, LookedUp, EndInv
  <2>4. QED BY <2>2, <2>3 DEF PassInv
<1>5. QED BY <1>1, <1>2, <1>3, <1>4 DEF Next

\* What is learnt of a pass is kept.
LEMMA PassInductive == Spec => []PassInv
<1>1. IInv /\ PassInv /\ [Next]_vars => PassInv'
  BY PassKeeps
<1>2. QED BY PassStarts, ClientInductive, <1>1, PTL DEF Spec

\* Every index of a pass that is done has been looked up.
LEMMA DoneIsSound ==
  ASSUME IInv, PassInv
  PROVE  PassIsSound
<1> SUFFICES ASSUME done, NEW i \in Indices
             PROVE  /\ found[pass][i] = "used" => Window[i] \in paid
                    /\ found[pass][i] # "used" => found[pass][i] = "unused" /\ Window[i] \notin sure
  BY DEF PassIsSound
<1>1. /\ pass \in 1 .. MaxPass /\ next[pass] > Len(Window) /\ next[pass] \in Nat
      /\ \A w \in PoolOf(pass) : worker[w].is = "returned"
  BY DEF PassInv, EndInv, CursorInv
<1>2. LookedUp(pass, i)
  <2>1. i < next[pass]
    BY <1>1, PoolAssumption DEF Indices
  <2>2. QED BY <1>1, <2>1 DEF PassInv, CursorInv
<1>3. \A w \in Workers : w[1] = pass => worker[w].is \in {"off", "returned"}
  BY <1>1 DEF PassInv, EndInv
<1>4. found[pass][i] \in {"used", "unused"}
  BY <1>1, <1>2, <1>3 DEF LookedUp, PassInv, FoundInv
<1>5. QED BY <1>1, <1>4 DEF PassInv, FoundInv

\* A pass that resolves has looked every index up, has found what was paid
\* before it began and nothing that was not paid.
THEOREM PassesAreSound == Spec => []PassIsSound
<1>1. IInv /\ PassInv => PassIsSound
  BY DoneIsSound
<1>2. QED BY <1>1, PassInductive, ClientInductive, PTL

-----------------------------------------------------------------------------
(***************************************************************************)
(* The pool keeps the promise of ScanPass.  A pass that has ended without  *)
(* a result has lost a worker to a rejection, so the others cannot end it  *)
(* a second time; one that is done has no worker left that could change    *)
(* what it has found.                                                      *)
(***************************************************************************)
SettleInv ==
  /\ pass \in 0 .. MaxPass /\ running \in BOOLEAN /\ done \in BOOLEAN
  /\ ~(running /\ done)
  /\ ~running /\ ~done /\ pass > 0 => \E w \in PoolOf(pass) : worker[w].is = "rejected"

\* The workers of a pass, as workers.
LEMMA PoolFields ==
  ASSUME IInv, PassInv, NEW w \in Workers, worker[w].is # "off"
  PROVE  /\ w \in PoolOf(w[1]) /\ pass \in Nat /\ w[1] \in 1 .. MaxPass /\ pass >= w[1] /\ pass > 0
         /\ worker[w].is # "returned" => ~(done /\ w[1] = pass)
<1>1. w \in PoolOf(w[1]) /\ w[1] <= pass /\ w[1] \in 1 .. MaxPass /\ pass \in Nat /\ MaxPass \in Nat
  BY WorkerFields
<1>2. worker[w].is # "returned" => ~(done /\ w[1] = pass)
  BY <1>1 DEF PassInv, EndInv
<1>3. QED BY <1>1, <1>2

\* A step of one worker leaves the others as they are.
LEMMA OthersStay ==
  ASSUME IInv, PassInv, NEW w \in Workers, Pull(w) \/ Return(w) \/ Store(w) \/ Reject(w)
  PROVE  \A v \in Workers : v # w => worker'[v] = worker[v]
BY DEF Pull, Return, Store, Reject, IInv, PoolInv

\* Settled once: before the last worker returns the pass is running.
LEMMA ReturnSettles ==
  ASSUME IInv, PassInv, SettleInv, NEW w \in Workers, Return(w)
  PROVE  \/ UNCHANGED <<running, done>>
         \/ running /\ ~done /\ running' = FALSE /\ done' = TRUE
<1> SUFFICES ASSUME w[1] = pass, \A v \in PoolOf(pass) : worker'[v].is = "returned",
                    running' = FALSE, done' = TRUE
             PROVE  running /\ ~done
  BY DEF Return
<1>1. worker[w].is = "pulling"
  BY DEF Return
<1>2. ~done /\ pass > 0 /\ pass \in 1 .. MaxPass
  BY <1>1, PoolFields
<1>3. ASSUME NEW v \in PoolOf(pass), worker[v].is = "rejected" PROVE FALSE
  <2>1. v \in Workers /\ v # w
    BY <1>1, <1>2, <1>3, PoolAssumption DEF PoolOf, Workers, PoolSize
  <2>2. worker'[v] = worker[v]
    BY <2>1, OthersStay
  <2>3. QED BY <1>3, <2>2
<1>4. QED BY <1>2, <1>3 DEF SettleInv

\* Every step keeps it.
LEMMA SettleKeeps ==
  ASSUME IInv, PassInv, SettleInv, [Next]_vars
  PROVE  SettleInv'
<1>1. CASE BeginPass
  <2>1. pass' \in 0 .. MaxPass
    BY <1>1, PoolAssumption DEF BeginPass, SettleInv
  <2>2. running' = TRUE /\ done' = FALSE
    BY <1>1 DEF BeginPass
  <2>3. QED BY <2>1, <2>2 DEF SettleInv
<1>2. ASSUME NEW w \in Workers, Pull(w) \/ Return(w) \/ Store(w) \/ Reject(w) PROVE SettleInv'
  <2>1. worker[w].is \in {"pulling", "looking"} /\ pass' = pass
    BY <1>2 DEF Pull, Return, Store, Reject
  <2>2. w \in PoolOf(w[1]) /\ pass \in 1 .. MaxPass /\ ~(done /\ w[1] = pass)
    BY <2>1, PoolFields DEF SettleInv
  <2>3. PoolOf(pass) \subseteq Workers
    BY <2>2, PoolAssumption DEF PoolOf, Workers, PoolSize
  <2>4. \A v \in PoolOf(pass) : worker[v].is = "rejected" => worker'[v].is = "rejected"
    BY <1>2, <2>1, <2>3, OthersStay
  <2>5. CASE UNCHANGED <<running, done>>
    BY <2>1, <2>4, <2>5 DEF SettleInv
  <2>6. CASE Return(w)
    <3>1. CASE running /\ ~done /\ running' = FALSE /\ done' = TRUE
      BY <2>1, <3>1 DEF SettleInv
    <3>2. QED BY <2>5, <2>6, <3>1, ReturnSettles
  <2>7. CASE Reject(w)
    <3>1. worker'[w].is = "rejected" /\ done' = done /\ running' = (running /\ w[1] # pass)
      BY <2>7 DEF Reject, Now, IInv, PoolInv
    <3>2. CASE w[1] = pass
      <4>1. running' = FALSE /\ w \in PoolOf(pass)
        BY <2>2, <3>1, <3>2
      <4>2. QED BY <2>1, <3>1, <4>1 DEF SettleInv
    <3>3. CASE w[1] # pass
      <4>1. running' = running
        BY <3>1, <3>3 DEF SettleInv
      <4>2. QED BY <2>5, <3>1, <4>1
    <3>4. QED BY <3>2, <3>3
  <2>8. QED BY <1>2, <2>5, <2>6, <2>7 DEF Pull, Store
<1>3. CASE UNCHANGED poolVars
  BY <1>3 DEF poolVars, SettleInv
<1>4. QED BY <1>1, <1>2, <1>3 DEF Next, PoolStep, vars

\* A payment arrives, or none does.
LEMMA PaidGrows ==
  ASSUME SocketStep \/ Shutdown \/ \E a \in Addresses : Pay(a)
  PROVE  paid' = paid \/ \E a \in Addresses : paid' = paid \cup {a}
<1>1. ASSUME NEW i \in Ids, FirstPart(i) \/ LineEnds(i) \/ Timeout(i) PROVE paid' = paid
  BY <1>1 DEF FirstPart, LineEnds, Timeout
<1>2. CASE Opened \/ OpenFails \/ SocketFails \/ ServerCloses \/ Closed \/ Shutdown
  BY <1>2 DEF Opened, OpenFails, SocketFails, ServerCloses, Closed, Shutdown
<1>3. CASE \E a \in Addresses : Pay(a)
  BY <1>3 DEF Pay
<1>4. QED BY <1>1, <1>2, <1>3 DEF SocketStep

\* What the daemon sees of a pass.
Scan == IF running THEN "running" ELSE IF done THEN "resolved" ELSE "idle"
Found == {Window[i] : i \in {j \in Indices : found[pass][j] = "used"}}
Seen == IF done THEN Found ELSE {}
Watched == {Window[i] : i \in Indices}

\* A worker moves: the pass goes on, ends, or had ended.
LEMMA WorkerMaps ==
  ASSUME IInv, PassInv, SettleInv, PassIsSound', NEW w \in Workers,
         Pull(w) \/ Return(w) \/ Store(w) \/ Reject(w)
  PROVE  \/ UNCHANGED <<Scan, sure, Seen, paid>>
         \/ Pass!Resolve
         \/ Pass!Fail
<1>1. /\ worker[w].is \in {"pulling", "looking"} /\ UNCHANGED <<pass, sure, paid>>
      /\ w \in PoolOf(w[1]) /\ w[1] \in 1 .. MaxPass /\ ~(done /\ w[1] = pass)
  <2>1. worker[w].is \in {"pulling", "looking"} /\ UNCHANGED <<pass, sure, paid>>
    BY DEF Pull, Return, Store, Reject, Request, clientVars
  <2>2. QED BY <2>1, PoolFields
<1>2. done => found'[pass] = found[pass]
  <2>1. CASE Store(w)
    <3>1. \E heard : found' = [found EXCEPT ![w[1]][worker[w].at] = heard]
      BY <2>1, Zenon DEF Store
    <3>2. found \in [1 .. MaxPass -> [Indices -> {"unknown", "used", "unused"}]]
      BY DEF PassInv, FoundInv
    <3>3. done => pass # w[1] /\ pass \in 1 .. MaxPass
      BY <1>1 DEF PassInv, EndInv
    <3>4. QED BY <3>1, <3>2, <3>3
  <2>2. CASE Pull(w) \/ Return(w) \/ Reject(w)
    BY <2>2 DEF Pull, Return, Reject
  <2>3. QED BY <2>1, <2>2
<1>3. CASE UNCHANGED <<running, done>>
  <2>1. Scan' = Scan
    BY <1>3 DEF Scan
  <2>2. Seen' = Seen
    BY <1>1, <1>2, <1>3 DEF Seen, Found
  <2>3. QED BY <1>1, <2>1, <2>2
<1>4. CASE Return(w) /\ ~(UNCHANGED <<running, done>>)
  <2>1. running /\ ~done /\ running' = FALSE /\ done' = TRUE
    BY <1>4, ReturnSettles
  <2>2. Scan = "running" /\ Scan' = "resolved" /\ Seen' = Found'
    BY <2>1 DEF Scan, Seen
  <2>3. Found' \subseteq Watched \cap paid
    BY <1>1, <2>1 DEF PassIsSound, Found, Watched
  <2>4. sure \cap Watched \subseteq Found'
    BY <1>1, <2>1 DEF PassIsSound, Found, Watched
  <2>5. Pass!Resolve
    BY <1>1, <2>1, <2>2, <2>3, <2>4 DEF Pass!Resolve, Scan, Seen, Found, Watched
  <2>6. QED BY <2>5
<1>5. CASE Reject(w) /\ ~(UNCHANGED <<running, done>>)
  <2>1. running /\ ~done /\ running' = FALSE /\ done' = FALSE
    BY <1>5 DEF Reject, SettleInv
  <2>2. Pass!Fail
    BY <1>1, <2>1 DEF Pass!Fail
  <2>3. QED BY <2>2
<1>6. QED BY <1>3, <1>4, <1>5 DEF Pull, Store

\* watcher.ts:80-102: the pool of workers implements what scanOnce promises.
THEOREM PoolKeepsItsPromise == Spec => ImplementsPass
<1>1. Init => Pass!Init /\ SettleInv
  <2>1. Init => Pass!Init
    BY DEF Init, ClientInit, Pass!Init
  <2>2. ASSUME Init PROVE SettleInv
    <3>1. pass = 0 /\ ~(pass > 0) /\ pass \in 0 .. MaxPass
      BY <2>2, PoolAssumption DEF Init
    <3>2. running = FALSE /\ done = FALSE
      BY <2>2 DEF Init
    <3>3. QED BY <3>1, <3>2 DEF SettleInv
  <2>3. QED BY <2>1, <2>2
<1>2. IInv /\ PassInv /\ SettleInv /\ [Next]_vars => SettleInv'
  BY SettleKeeps
<1>3. IInv /\ PassInv /\ SettleInv /\ PassIsSound' /\ [Next]_vars => [Pass!Next]_<<Scan, sure, Seen, paid>>
  <2> SUFFICES ASSUME IInv, PassInv, SettleInv, PassIsSound', [Next]_vars
               PROVE  [Pass!Next]_<<Scan, sure, Seen, paid>>
    OBVIOUS
  <2>1. CASE BeginPass
    <3>1. /\ ~running /\ running' = TRUE /\ done' = FALSE /\ sure' = paid /\ paid' = paid
      BY <2>1 DEF BeginPass, clientVars
    <3>2. Pass!Begin
      BY <3>1 DEF Pass!Begin
    <3>3. QED BY <3>2 DEF Pass!Next
  <2>2. CASE PoolStep
    BY <2>2, WorkerMaps DEF PoolStep, Pass!Next
  <2>3. CASE (SocketStep \/ Shutdown \/ \E a \in Addresses : Pay(a)) /\ UNCHANGED poolVars
    <3>1. UNCHANGED <<Scan, sure, Seen>>
      BY <2>3 DEF poolVars, Scan, Seen, Found
    <3>2. CASE paid' = paid
      BY <3>1, <3>2
    <3>3. ASSUME NEW a \in Addresses, paid' = paid \cup {a} PROVE Pass!Next
      BY <3>1, <3>3 DEF Pass!Next, Pass!Pay, Scan, Seen, Found
    <3>4. QED BY <2>3, <3>2, <3>3, PaidGrows
  <2>4. CASE UNCHANGED vars
    BY <2>4 DEF vars, clientVars, poolVars, Scan, Seen, Found
  <2>5. QED BY <2>1, <2>2, <2>3, <2>4 DEF Next
<1>4. QED
  <2>1. Spec => []SettleInv
    BY <1>1, <1>2, ClientInductive, PassInductive, PTL DEF Spec
  <2>2. QED BY <1>1, <1>3, <2>1, ClientInductive, PassInductive, PassesAreSound, PTL
           DEF Spec, ImplementsPass, Pass!Spec, Scan, Seen, Found
====

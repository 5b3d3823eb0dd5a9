--------------------------- MODULE SorobanProofs ---------------------------
(***************************************************************************)
(* The Soroban client over any proxy and any node: where the reader of the *)
(* byte stream stands.                                                     *)
(*                                                                         *)
(* Script is what the other side sends over the connection; what the       *)
(* client has read of it, what the current read has taken, what waits in   *)
(* the socket and what is under way are adjacent pieces of it.             *)
(***************************************************************************)
EXTENDS Soroban, SequenceTheorems, TLAPS

\* s is the piece of t behind its first n bytes.
PieceOf(s, t, n) == n \in Nat /\ n + Len(s) <= Len(t) /\ \A i \in 1 .. Len(s) : s[i] = t[n + i]

\* How much of the stream has been read, and how much before the current read.
Pos == Len(script) - Len(buf) - Len(wire)
ReadFrom == Pos - Len(got)

StreamInv ==
  /\ PieceOf(got, script, ReadFrom)
  /\ PieceOf(buf, script, Pos)
  /\ PieceOf(wire, script, Pos + Len(buf))

\* The handshake: each read begins where the answers before it end.
GreetingInv == stage \in {"connect", "greeting"} => ReadFrom = 0
ReplyInv ==
  stage \in {"reply", "ipv4", "ipv6", "length", "domain", "open"} => script[1] = 5 /\ script[2] = 0
AddressInv ==
  /\ stage = "reply" => ReadFrom = 2
  /\ stage \in {"ipv4", "ipv6", "length", "domain"} => ReadFrom = 6 /\ script[4] = 0
  /\ stage = "ipv4" => script[6] = 1
  /\ stage = "ipv6" => script[6] = 4
  /\ stage \in {"length", "domain"} => script[6] = 3
LengthInv ==
  /\ stage \in {"connect", "length"} => got = <<>>
  /\ stage = "domain" => got # <<>>
  /\ stage \in Reading => Len(got) < Wanted
OpenInv == stage = "open" => Granted(script) /\ Pos = HandshakeLength(script) /\ got = <<>>

HandshakeInv == GreetingInv /\ ReplyInv /\ AddressInv /\ LengthInv /\ OpenInv

\* Where the response begins.
Base == IF via = "fetch" THEN 0 ELSE HandshakeLength(script)

SourceInv == stage # "idle" => script \in IF via = "fetch" THEN Bodies ELSE Scripts

\* The call: nothing of the response is read before it is asked for, and all
\* of it when the call resolves with it.
CallInv ==
  /\ call # "idle" => stage # "idle" /\ result = "none"
  /\ call = "dialing" => IF via = "fetch" THEN Pos = 0 /\ got = <<>> ELSE HandshakeInv
  /\ call \in {"asked", "body"} => got = <<>>
  /\ call \in {"asked", "body"} \/ result \in {"value", "null"} =>
       /\ stage # "idle"
       /\ via = "socks" => Granted(script)
  /\ call = "asked" => Pos = Base
  /\ call = "body" => Base < Pos /\ script[Base + 1] = Status200
  /\ result \in {"value", "null"} =>
       /\ Base < Pos /\ script[Base + 1] = Status200
       /\ Pos = Len(script)
       /\ result = "value" <=> script[Len(script)] = WholeJson

SorobanInv == CallTypeOK /\ StreamInv /\ SourceInv /\ CallInv

-----------------------------------------------------------------------------
Bytes == 0 .. 255

\* Cutting a piece leaves two, the second behind the first.
LEMMA PieceCut ==
  ASSUME NEW S, NEW s \in Seq(S), NEW t \in Seq(S), NEW n, PieceOf(s, t, n), NEW k \in 0 .. Len(s)
  PROVE  LET u == SubSeq(s, 1, k)
             v == SubSeq(s, k + 1, Len(s))
         IN  /\ u \in Seq(S) /\ Len(u) = k /\ PieceOf(u, t, n)
             /\ v \in Seq(S) /\ Len(v) = Len(s) - k /\ PieceOf(v, t, n + k)
<1> DEFINE u == SubSeq(s, 1, k)
           v == SubSeq(s, k + 1, Len(s))
<1>1. Len(s) \in Nat /\ Len(t) \in Nat /\ k \in Int /\ \A i \in 1 .. Len(s) : s[i] \in S
  BY LenProperties, ElementOfSeq
<1>2. u \in Seq(S) /\ Len(u) = k /\ \A i \in 1 .. k : u[i] = s[i]
  <2>1. \A i \in 1 .. k : s[i] \in S
    BY <1>1
  <2>2. /\ u \in Seq(S) /\ Len(u) = IF 1 <= k THEN k - 1 + 1 ELSE 0
        /\ \A i \in 1 .. k - 1 + 1 : u[i] = s[1 + i - 1]
    BY <1>1, <2>1, SubSeqProperties
  <2> HIDE DEF u
  <2>3. QED BY <1>1, <2>2
<1>3. v \in Seq(S) /\ Len(v) = Len(s) - k /\ \A i \in 1 .. Len(s) - k : v[i] = s[k + i]
  <2>1. \A i \in k + 1 .. Len(s) : s[i] \in S
    BY <1>1
  <2>2. /\ v \in Seq(S) /\ Len(v) = IF k + 1 <= Len(s) THEN Len(s) - (k + 1) + 1 ELSE 0
        /\ \A i \in 1 .. Len(s) - (k + 1) + 1 : v[i] = s[k + 1 + i - 1]
    BY <1>1, <2>1, SubSeqProperties
  <2> HIDE DEF v
  <2>3. QED BY <1>1, <2>2
<1> HIDE DEF u, v
<1>4. PieceOf(u, t, n) /\ PieceOf(v, t, n + k)
  BY <1>1, <1>2, <1>3 DEF PieceOf
<1>5. QED BY <1>2, <1>3, <1>4 DEF u, v

\* Two adjacent pieces are one.
LEMMA PieceJoin ==
  ASSUME NEW S, NEW s \in Seq(S), NEW u \in Seq(S), NEW t \in Seq(S), NEW n,
         PieceOf(s, t, n), PieceOf(u, t, n + Len(s))
  PROVE  s \o u \in Seq(S) /\ Len(s \o u) = Len(s) + Len(u) /\ PieceOf(s \o u, t, n)
<1> DEFINE su == s \o u
<1>1. Len(s) \in Nat /\ Len(u) \in Nat /\ Len(t) \in Nat
  BY LenProperties
<1>2. /\ su \in Seq(S) /\ Len(su) = Len(s) + Len(u)
      /\ \A i \in 1 .. Len(s) + Len(u) : su[i] = IF i <= Len(s) THEN s[i] ELSE u[i - Len(s)]
  BY ConcatProperties
<1> HIDE DEF su
<1>3. PieceOf(su, t, n)
  <2>1. n \in Nat /\ n + Len(su) <= Len(t)
    BY <1>1, <1>2 DEF PieceOf
  <2>2. ASSUME NEW i \in 1 .. Len(su) PROVE su[i] = t[n + i]
    <3>1. CASE i <= Len(s)
      BY <1>1, <1>2, <3>1 DEF PieceOf
    <3>2. CASE i > Len(s)
      <4>1. i - Len(s) \in 1 .. Len(u)
        BY <1>1, <1>2, <3>2
      <4>2. su[i] = u[i - Len(s)] /\ u[i - Len(s)] = t[n + Len(s) + (i - Len(s))]
        BY <1>1, <1>2, <3>2, <4>1 DEF PieceOf
      <4>3. n + Len(s) + (i - Len(s)) = n + i
        BY <1>1, <2>1
      <4>4. QED BY <4>2, <4>3
    <3>3. QED BY <1>1, <1>2, <3>1, <3>2
  <2>3. QED BY <2>1, <2>2 DEF PieceOf
<1>4. QED BY <1>2, <1>3 DEF su

\* The lengths of what the tunnel holds.
LEMMA Lengths ==
  ASSUME TunnelTypeOK, StreamInv
  PROVE  /\ script \in Seq(Bytes) /\ wire \in Seq(Bytes) /\ buf \in Seq(Bytes) /\ got \in Seq(Bytes)
         /\ Len(script) \in Nat /\ Len(wire) \in Nat /\ Len(buf) \in Nat /\ Len(got) \in Nat
         /\ Pos \in Nat /\ ReadFrom \in Nat /\ ReadFrom + Len(got) = Pos
         /\ Pos + Len(buf) + Len(wire) = Len(script)
<1>1. /\ script \in Seq(Bytes) /\ wire \in Seq(Bytes) /\ buf \in Seq(Bytes) /\ got \in Seq(Bytes)
  BY DEF TunnelTypeOK, Bytes
<1>2. Len(script) \in Nat /\ Len(wire) \in Nat /\ Len(buf) \in Nat /\ Len(got) \in Nat
  BY <1>1, LenProperties
<1>3. Pos \in Nat /\ ReadFrom \in Nat
  BY DEF StreamInv, PieceOf
<1>4. QED BY <1>1, <1>2, <1>3 DEF Pos, ReadFrom

\* Bytes that arrive change neither what has been read nor what is to come.
LEMMA ArriveKeeps ==
  ASSUME TunnelTypeOK, StreamInv, Arrive
  PROVE  /\ StreamInv' /\ Pos' = Pos /\ ReadFrom' = ReadFrom
         /\ buf' \in Seq(Bytes) /\ wire' \in Seq(Bytes)
         /\ UNCHANGED <<stage, script, got, sock>>
<1>1. PICK k \in 1 .. Len(wire) : /\ buf' = buf \o SubSeq(wire, 1, k)
                                  /\ wire' = SubSeq(wire, k + 1, Len(wire))
  BY DEF Arrive
<1>2. UNCHANGED <<stage, script, got, sock>>
  BY DEF Arrive
<1>3. /\ SubSeq(wire, 1, k) \in Seq(Bytes) /\ Len(SubSeq(wire, 1, k)) = k
      /\ PieceOf(SubSeq(wire, 1, k), script, Pos + Len(buf))
      /\ wire' \in Seq(Bytes) /\ Len(wire') = Len(wire) - k
      /\ PieceOf(wire', script, Pos + Len(buf) + k)
  <2>1. k \in 0 .. Len(wire) /\ PieceOf(wire, script, Pos + Len(buf))
    BY Lengths DEF StreamInv
  <2>2. QED BY <1>1, <2>1, Lengths, PieceCut
<1>4. buf' \in Seq(Bytes) /\ Len(buf') = Len(buf) + k /\ PieceOf(buf', script, Pos)
  <2>1. PieceOf(buf, script, Pos) /\ buf \in Seq(Bytes) /\ script \in Seq(Bytes)
    BY Lengths DEF StreamInv
  <2> DEFINE u == SubSeq(wire, 1, k)
  <2>2. u \in Seq(Bytes) /\ Len(u) = k /\ PieceOf(u, script, Pos + Len(buf)) /\ buf' = buf \o u
    BY <1>1, <1>3
  <2> HIDE DEF u
  <2>3. QED BY <2>1, <2>2, PieceJoin
<1>5. Pos' = Pos /\ ReadFrom' = ReadFrom
  BY <1>2, <1>3, <1>4, Lengths DEF Pos, ReadFrom
<1>6. Pos + Len(buf') = Pos + Len(buf) + k
  BY <1>4, Lengths
<1>7. StreamInv'
  BY <1>2, <1>3, <1>4, <1>5, <1>6 DEF StreamInv
<1>8. QED BY <1>2, <1>3, <1>4, <1>5, <1>7

-----------------------------------------------------------------------------
\* What readExactly is asked for in each stage.
LEMMA WantedBytes ==
  ASSUME TunnelTypeOK, StreamInv, HandshakeInv, stage \in Reading
  PROVE  /\ Wanted \in Nat /\ Len(got) < Wanted
         /\ stage = "greeting" => Wanted = 2
         /\ stage = "reply" => Wanted = 4
         /\ stage = "ipv4" => Wanted = 6
         /\ stage = "ipv6" => Wanted = 18
         /\ stage = "length" => Wanted = 1
         /\ stage = "domain" => Len(got) >= 1 /\ got[1] \in Bytes /\ Wanted = got[1] + 3
<1>1. stage = "domain" => Len(got) >= 1 /\ got[1] \in Bytes
  <2> SUFFICES ASSUME stage = "domain" PROVE Len(got) >= 1 /\ got[1] \in Bytes
    OBVIOUS
  <2>1. got \in Seq(Bytes) /\ got # <<>>
    BY Lengths DEF HandshakeInv, LengthInv
  <2>2. Len(got) \in Nat \ {0}
    BY <2>1, EmptySeq
  <2>3. 1 \in 1 .. Len(got)
    BY <2>2
  <2>4. QED BY <2>1, <2>2, <2>3, ElementOfSeq
<1>2. CASE stage = "domain"
  <2>1. Wanted = got[1] + 2 + 1
    BY <1>2 DEF Wanted, Need
  <2>2. Len(got) < Wanted
    BY DEF HandshakeInv, LengthInv
  <2>3. got[1] \in 0 .. 255
    BY ONLY <1>1, <1>2 DEF Bytes
  <2>4. Wanted = got[1] + 3 /\ Wanted \in Nat
    BY ONLY <2>1, <2>3
  <2>5. QED BY <1>1, <1>2, <2>2, <2>4
<1>3. CASE stage # "domain"
  BY <1>3 DEF Wanted, Need, Reading, HandshakeInv, LengthInv
<1>4. QED BY <1>2, <1>3

\* readExactly: what it has taken is a piece of the stream that begins where
\* the read began, and is never longer than it was asked for.
LEMMA ReadTakes ==
  ASSUME TunnelTypeOK, StreamInv, Read, Wanted \in Nat, Len(got) < Wanted
  PROVE  /\ StreamInv' /\ buf' \in Seq(Bytes) /\ got' \in Seq(Bytes)
         /\ UNCHANGED <<script, wire>>
         /\ sock' = IF stage' = "failed" THEN "destroyed" ELSE sock
         /\ \E all \in Seq(Bytes) :
              /\ Len(got) < Len(all) /\ Len(all) <= Wanted
              /\ PieceOf(all, script, ReadFrom)
              /\ \A i \in 1 .. Len(got) : all[i] = got[i]
              /\ Pos' = ReadFrom + Len(all)
              /\ stage' = IF Len(all) >= Wanted THEN NextStage(stage, all) ELSE stage
              /\ \/ got' = <<>> /\ Len(all) >= Wanted /\ stage' # "domain"
                 \/ got' = all /\ (Len(all) < Wanted \/ stage' = "domain")
<1> DEFINE first == SubSeq(buf, 1, Taken)
           all == got \o first
<1>1. /\ buf # <<>> /\ UNCHANGED <<script, wire>>
      /\ buf' = SubSeq(buf, Taken + 1, Len(buf))
      /\ stage' = IF Len(all) >= Wanted THEN NextStage(stage, all) ELSE stage
      /\ got' = IF Len(all) >= Wanted /\ stage' # "domain" THEN <<>> ELSE all
      /\ sock' = IF stage' = "failed" THEN "destroyed" ELSE sock
  BY DEF Read
<1>2. Taken \in 1 .. Len(buf) /\ Taken <= Wanted - Len(got) /\ Taken \in 0 .. Len(buf)
  <2>1. Len(buf) \in Nat \ {0}
    BY <1>1, Lengths, EmptySeq
  <2>2. QED BY <2>1, Lengths DEF Taken
<1> HIDE DEF Taken
<1>3. /\ first \in Seq(Bytes) /\ Len(first) = Taken /\ PieceOf(first, script, Pos)
      /\ buf' \in Seq(Bytes) /\ Len(buf') = Len(buf) - Taken /\ PieceOf(buf', script, Pos + Taken)
  <2>1. PieceOf(buf, script, Pos)
    BY DEF StreamInv
  <2>2. QED BY <1>1, <1>2, <2>1, Lengths, PieceCut
<1> HIDE DEF first
<1>4. /\ all \in Seq(Bytes) /\ Len(all) = Len(got) + Taken /\ PieceOf(all, script, ReadFrom)
      /\ \A i \in 1 .. Len(got) : all[i] = got[i]
  <2>1. PieceOf(got, script, ReadFrom) /\ ReadFrom + Len(got) = Pos
    BY Lengths DEF StreamInv
  <2>2. all \in Seq(Bytes) /\ Len(all) = Len(got) + Taken /\ PieceOf(all, script, ReadFrom)
    BY <1>3, <2>1, Lengths, PieceJoin
  <2>3. \A i \in 1 .. Len(got) + Len(first) : all[i] = IF i <= Len(got) THEN got[i] ELSE first[i - Len(got)]
    BY <1>3, Lengths, ConcatProperties
  <2> HIDE DEF all
  <2>4. Len(got) \in Nat /\ Len(first) \in Nat
    BY <1>2, <1>3, Lengths
  <2>5. \A i \in 1 .. Len(got) : all[i] = got[i]
    BY <2>3, <2>4
  <2>6. QED BY <2>2, <2>5
<1> HIDE DEF all
<1>n. /\ Taken \in Nat \ {0} /\ Len(got) \in Nat /\ Len(buf) \in Nat /\ Len(all) \in Nat
      /\ Pos \in Nat /\ ReadFrom \in Nat /\ ReadFrom + Len(got) = Pos /\ Pos + Len(buf) <= Len(script)
      /\ Len(script) \in Nat /\ Len(wire) \in Nat
  <2>1. Taken \in Nat \ {0}
    BY <1>2, Lengths
  <2>2. QED BY <2>1, <1>4, Lengths
<1>5. Pos' = Pos + Taken /\ Pos' = ReadFrom + Len(all)
  <2>1. Pos' = Len(script) - Len(buf') - Len(wire) /\ Pos = Len(script) - Len(buf) - Len(wire)
    BY <1>1 DEF Pos
  <2>2. Pos' = Pos + Taken
    BY <1>3, <1>n, <2>1
  <2>3. QED BY <1>4, <1>n, <2>2
<1>6. got' \in Seq(Bytes) /\ PieceOf(got', script', ReadFrom')
  <2>1. CASE got' = all
    <3>1. ReadFrom' = ReadFrom
      BY <1>4, <1>5, <2>1, Lengths DEF ReadFrom
    <3>2. QED BY <1>1, <1>4, <2>1, <3>1
  <2>2. CASE got' = <<>>
    <3>1. <<>> \in Seq(Bytes) /\ Len(<<>>) = 0
      BY EmptySeq
    <3>2. ReadFrom' = Pos' /\ Pos' \in Nat /\ Pos' <= Len(script)
      <4>1. ReadFrom' = Pos' - Len(got')
        BY DEF ReadFrom
      <4>2. Pos' \in Nat /\ Pos' <= Len(script)
        BY <1>2, <1>5, <1>n
      <4>3. Len(got') = 0
        BY <2>2, <3>1
      <4>4. ReadFrom' = Pos' - 0
        BY <4>1, <4>3
      <4>5. \A p \in Nat : p - 0 = p
        OBVIOUS
      <4>6. Pos' - 0 = Pos'
        BY <4>2, <4>5, Zenon
      <4>7. QED BY <4>2, <4>4, <4>6
    <3>3. PieceOf(got', script, Pos')
      <4>1. Len(got') = 0
        BY <2>2, <3>1
      <4>2. QED BY ONLY <1>n, <3>2, <4>1 DEF PieceOf
    <3>4. QED BY <1>1, <2>2, <3>1, <3>2, <3>3
  <2>3. QED BY <1>1, <2>1, <2>2
<1>7. StreamInv'
  <2>1. PieceOf(wire', script', Pos' + Len(buf'))
    <3>1. Pos' + Len(buf') = Pos + Len(buf)
      BY <1>2, <1>3, <1>5, Lengths
    <3>2. QED BY <1>1, <3>1 DEF StreamInv
  <2>2. QED BY <1>1, <1>3, <1>5, <1>6, <2>1 DEF StreamInv
<1>8. Len(got) < Len(all) /\ Len(all) <= Wanted
  BY <1>2, <1>4, <1>n
<1>9. /\ stage' = IF Len(all) >= Wanted THEN NextStage(stage, all) ELSE stage
      /\ \/ got' = <<>> /\ Len(all) >= Wanted /\ stage' # "domain"
         \/ got' = all /\ (Len(all) < Wanted \/ stage' = "domain")
  <2>1. Len(all) >= Wanted \/ Len(all) < Wanted
    BY <1>n
  <2>2. QED BY <1>1, <2>1
<1>10. all \in Seq(Bytes)
  BY <1>4
<1>11. QED BY <1>1, <1>3, <1>4, <1>5, <1>6, <1>7, <1>8, <1>9, <1>10

\* A read keeps what the handshake knows of the stream.
LEMMA ReadKeeps ==
  ASSUME TunnelTypeOK, StreamInv, HandshakeInv, Read
  PROVE  HandshakeInv' /\ stage' \in Stages \ {"idle"}
<1>1. stage \in Reading /\ script' = script /\ wire' = wire
  BY DEF Read
<1>2. /\ Wanted \in Nat /\ Len(got) < Wanted
      /\ stage = "greeting" => Wanted = 2
      /\ stage = "reply" => Wanted = 4
      /\ stage = "ipv4" => Wanted = 6
      /\ stage = "ipv6" => Wanted = 18
      /\ stage = "length" => Wanted = 1
      /\ stage = "domain" => Len(got) >= 1 /\ got[1] \in Bytes /\ Wanted = got[1] + 3
  BY <1>1, WantedBytes
<1>3. PICK all \in Seq(Bytes) :
        /\ Len(got) < Len(all) /\ Len(all) <= Wanted
        /\ PieceOf(all, script, ReadFrom)
        /\ \A i \in 1 .. Len(got) : all[i] = got[i]
        /\ Pos' = ReadFrom + Len(all)
        /\ stage' = IF Len(all) >= Wanted THEN NextStage(stage, all) ELSE stage
        /\ \/ got' = <<>> /\ Len(all) >= Wanted /\ stage' # "domain"
           \/ got' = all /\ (Len(all) < Wanted \/ stage' = "domain")
  BY <1>2, ReadTakes
<1>4. /\ Len(all) \in Nat \ {0} /\ Len(got) \in Nat /\ ReadFrom \in Nat /\ Len(script) \in Nat
      /\ ReadFrom + Len(all) <= Len(script)
      /\ \A i \in 1 .. Len(all) : all[i] \in Bytes /\ all[i] = script[ReadFrom + i]
  <2>1. Len(all) \in Nat /\ \A i \in 1 .. Len(all) : all[i] \in Bytes
    BY ElementOfSeq
  <2>2. Len(got) \in Nat /\ ReadFrom \in Nat /\ Len(script) \in Nat
    BY Lengths
  <2>3. QED BY <1>3, <2>1, <2>2 DEF PieceOf
<1>5. got' = <<>> => Len(got') = 0 /\ ReadFrom' = ReadFrom + Len(all)
  <2>1. \A p \in Nat : p - 0 = p
    OBVIOUS
  <2>2. ReadFrom' = Pos' - Len(got') /\ Len(<<>>) = 0
    BY EmptySeq DEF ReadFrom
  <2>3. ReadFrom + Len(all) \in Nat
    BY <1>4
  <2>4. QED BY <1>3, <2>1, <2>2, <2>3, Zenon
<1>6. got' = all => ReadFrom' = ReadFrom
  <2>1. ReadFrom' = Pos' - Len(got')
    BY DEF ReadFrom
  <2>2. Pos' = ReadFrom + Len(all)
    BY <1>3
  <2>3. ASSUME got' = all PROVE ReadFrom' = ReadFrom
    <3>1. Len(got') = Len(all)
      BY <2>3
    <3>2. ReadFrom' = Pos' - Len(all)
      BY <2>1, <3>1
    <3>3. QED BY <1>4, <2>2, <3>2
  <2>4. QED BY <2>3

<1>7. CASE Len(all) < Wanted
  <2>1. stage' = stage /\ got' = all /\ ReadFrom' = ReadFrom /\ stage # "length"
    BY <1>2, <1>3, <1>4, <1>6, <1>7
  <2>2. got' # <<>> /\ (stage = "domain" => got'[1] = got[1])
    <3>1. got' # <<>>
      BY <1>4, <2>1, EmptySeq
    <3>2. ASSUME stage = "domain" PROVE 1 \in 1 .. Len(got)
      BY <1>2, <1>4, <3>2
    <3>3. QED BY <1>3, <2>1, <3>1, <3>2
  <2>3. Wanted' = Wanted
    BY <2>1, <2>2 DEF Wanted
  <2>4. Len(got') < Wanted'
    BY <1>7, <2>1, <2>3
  <2>5. QED BY <1>1, <2>1, <2>2, <2>4 DEF HandshakeInv, GreetingInv, ReplyInv, AddressInv, LengthInv, OpenInv, Reading, Stages
<1>8. CASE Len(all) = Wanted
  <2>1. stage' = NextStage(stage, all)
    BY <1>2, <1>3, <1>8
  <2>2. stage' # "domain" => got' = <<>> /\ Len(got') = 0 /\ ReadFrom' = ReadFrom + Wanted /\ Pos' = ReadFrom + Wanted
    BY <1>2, <1>3, <1>5, <1>8
  <2>3. CASE stage = "greeting"
    <3>1. ReadFrom = 0 /\ Wanted = 2
      BY <1>2, <2>3 DEF HandshakeInv, GreetingInv
    <3>2. all[1] = script[1] /\ all[2] = script[2]
      BY <1>4, <1>8, <3>1
    <3>3. stage' = IF script[1] = 5 /\ script[2] = 0 THEN "reply" ELSE "failed"
      BY <2>1, <2>3, <3>2 DEF NextStage
    <3>4. stage' # "domain" /\ ReadFrom' = 2
      BY <2>2, <3>1, <3>3
    <3>5. stage' = "reply" => Len(got') < Wanted'
      BY <2>2, <3>4 DEF Wanted, Need
    <3>6. QED BY <1>1, <3>3, <3>4, <3>5 DEF HandshakeInv, GreetingInv, ReplyInv, AddressInv, LengthInv, OpenInv, Reading, Stages
  <2>4. CASE stage = "reply"
    <3>1. ReadFrom = 2 /\ Wanted = 4 /\ script[1] = 5 /\ script[2] = 0
      BY <1>2, <2>4 DEF HandshakeInv, AddressInv, ReplyInv
    <3>2. all[2] = script[4] /\ all[4] = script[6]
      BY <1>4, <1>8, <3>1
    <3>3. stage' = IF script[4] # 0 THEN "failed"
                   ELSE CASE script[6] = 1 -> "ipv4" [] script[6] = 4 -> "ipv6"
                          [] script[6] = 3 -> "length" [] OTHER -> "failed"
      BY <2>1, <2>4, <3>2 DEF NextStage
    <3>4. /\ stage' \in {"failed", "ipv4", "ipv6", "length"}
          /\ stage' # "failed" => script[4] = 0
          /\ stage' = "ipv4" => script[6] = 1
          /\ stage' = "ipv6" => script[6] = 4
          /\ stage' = "length" => script[6] = 3
      BY <3>3
    <3>5. ReadFrom' = 6 /\ got' = <<>>
      BY <2>2, <3>1, <3>4
    <3>6. stage' # "failed" => Len(got') < Wanted'
      BY <2>2, <3>4 DEF Wanted, Need
    <3>7. QED BY <1>1, <3>1, <3>4, <3>5, <3>6 DEF HandshakeInv, GreetingInv, ReplyInv, AddressInv, LengthInv, OpenInv, Reading, Stages
  <2>5. CASE stage = "length"
    <3>1. ReadFrom = 6 /\ Wanted = 1 /\ script[1] = 5 /\ script[2] = 0 /\ script[4] = 0 /\ script[6] = 3
      BY <1>2, <2>5 DEF HandshakeInv, AddressInv, ReplyInv
    <3>2. stage' = "domain" /\ got' = all /\ ReadFrom' = 6
      <4>1. stage' = "domain"
        BY <2>1, <2>5 DEF NextStage
      <4>2. got' = all
        BY <1>3, <4>1, Zenon
      <4>3. ReadFrom' = ReadFrom
        BY <1>6, <4>2, Zenon
      <4>4. ReadFrom' = 6
        BY <3>1, <4>3, Zenon
      <4>5. QED BY <4>1, <4>2, <4>4
    <3>3. all # <<>> /\ all[1] \in Bytes
      <4>1. Len(all) = 1 /\ 1 \in 1 .. 1
        BY <1>8, <3>1
      <4>2. all[1] \in Bytes
        BY <1>4, <4>1, Zenon
      <4>3. QED BY <4>1, <4>2, EmptySeq
    <3>4. Len(got') < Wanted'
      <4>1. Wanted' = all[1] + 2 + 1
        BY <3>2 DEF Wanted, Need
      <4>2. \A b \in Bytes : 1 < b + 2 + 1
        BY DEF Bytes
      <4>3. QED BY <1>8, <3>1, <3>2, <3>3, <4>1, <4>2
    <3>5. QED BY <1>1, <3>1, <3>2, <3>3, <3>4 DEF HandshakeInv, GreetingInv, ReplyInv, AddressInv, LengthInv, OpenInv, Reading, Stages
  <2>6. CASE stage \in {"ipv4", "ipv6", "domain"}
    <3>1. /\ ReadFrom = 6 /\ script[1] = 5 /\ script[2] = 0 /\ script[4] = 0
          /\ stage = "ipv4" => script[6] = 1 /\ Wanted = 6
          /\ stage = "ipv6" => script[6] = 4 /\ Wanted = 18
          /\ stage = "domain" => script[6] = 3 /\ Wanted = script[7] + 3
      <4>1. ASSUME stage = "domain" PROVE got[1] = script[7]
        <5>1. 1 \in 1 .. Len(got) /\ 1 \in 1 .. Len(all)
          BY <1>2, <1>3, <1>4, <4>1
        <5>2. ReadFrom + 1 = 7
          BY <4>1 DEF HandshakeInv, AddressInv
        <5>3. got[1] = all[1] /\ all[1] = script[ReadFrom + 1]
          BY <1>3, <1>4, <5>1
        <5>4. QED BY <5>2, <5>3
      <4>2. QED BY <1>2, <2>6, <4>1 DEF HandshakeInv, AddressInv, ReplyInv
    <3>2. stage' = "open"
      BY <2>1, <2>6 DEF NextStage
    <3>3. got' = <<>> /\ Pos' = 6 + Wanted
      BY <2>2, <3>1, <3>2
    <3>4. Len(script) >= 7
      BY <1>4, <3>1
    <3>5. Granted(script)
      BY <2>6, <3>1, <3>4 DEF Granted
    <3>6. Pos' = HandshakeLength(script)
      <4>1. script[7] \in Bytes
        BY <3>4, Lengths, ElementOfSeq
      <4>2. \A b \in Bytes : 6 + (b + 3) = 2 + 4 + (1 + b) + 2
        BY DEF Bytes
      <4>3. CASE stage = "domain"
        BY <3>1, <3>3, <4>1, <4>2, <4>3 DEF HandshakeLength
      <4>4. CASE stage \in {"ipv4", "ipv6"}
        BY <3>1, <3>3, <4>4 DEF HandshakeLength
      <4>5. QED BY <2>6, <4>3, <4>4
    <3>7. QED BY <1>1, <3>1, <3>2, <3>3, <3>5, <3>6 DEF HandshakeInv, GreetingInv, ReplyInv, AddressInv, LengthInv, OpenInv, Reading, Stages
  <2>7. QED BY <1>1, <2>3, <2>4, <2>5, <2>6 DEF Reading
<1>9. QED BY <1>2, <1>3, <1>4, <1>7, <1>8

-----------------------------------------------------------------------------
\* A step that leaves the bytes alone leaves the reader where it stands.
LEMMA SameStream ==
  ASSUME StreamInv, UNCHANGED <<script, wire, buf, got>>
  PROVE  StreamInv' /\ Pos' = Pos /\ ReadFrom' = ReadFrom
<1>1. Pos' = Pos /\ ReadFrom' = ReadFrom
  BY DEF Pos, ReadFrom
<1>2. QED BY <1>1 DEF StreamInv

\* Nothing of a new connection has been read.
LEMMA FreshStream ==
  ASSUME script' \in Seq(Bytes), wire' = script', buf' = <<>>, got' = <<>>
  PROVE  /\ StreamInv' /\ Pos' = 0 /\ ReadFrom' = 0
         /\ wire' \in Seq(Bytes) /\ buf' \in Seq(Bytes) /\ got' \in Seq(Bytes)
<1>1. Len(script') \in Nat /\ Len(<<>>) = 0 /\ <<>> \in Seq(Bytes)
  BY LenProperties, EmptySeq
<1>2. Pos' = Len(script') - Len(buf') - Len(wire') /\ Len(buf') = 0 /\ Len(got') = 0
  BY <1>1 DEF Pos
<1>3. Pos' = 0
  <2>1. Pos' = Len(script') - 0 - Len(script')
    BY <1>2
  <2>2. QED BY <1>1, <2>1
<1>4. ReadFrom' = 0
  <2>1. ReadFrom' = 0 - 0
    BY <1>2, <1>3 DEF ReadFrom
  <2>2. QED BY <2>1
<1>5. PieceOf(got', script', ReadFrom') /\ PieceOf(buf', script', Pos')
  BY <1>1, <1>2, <1>3, <1>4 DEF PieceOf
<1>6. PieceOf(wire', script', Pos' + Len(buf'))
  <2>1. PieceOf(script', script', 0)
    BY <1>1 DEF PieceOf
  <2>2. Pos' + Len(buf') = 0
    <3>1. Pos' + Len(buf') = 0 + 0
      BY <1>2, <1>3
    <3>2. QED BY <3>1
  <2>3. QED BY <2>1, <2>2
<1>7. QED BY <1>1, <1>3, <1>4, <1>5, <1>6 DEF StreamInv

\* A step of the handshake keeps what it knows of the stream.
LEMMA TunnelKeeps ==
  ASSUME TunnelTypeOK, StreamInv, HandshakeInv, TunnelStep, stage # "idle"
  PROVE  TunnelTypeOK' /\ StreamInv' /\ HandshakeInv' /\ script' = script /\ stage' # "idle"
<1>1. CASE Connected
  <2>1. /\ stage = "connect" /\ stage' = "greeting" /\ got = <<>>
        /\ UNCHANGED <<script, wire, buf, got, sock>>
    BY <1>1 DEF Connected, HandshakeInv, LengthInv
  <2>2. StreamInv' /\ ReadFrom' = ReadFrom
    BY <2>1, SameStream
  <2>3. Len(got') < Wanted'
    BY <2>1, EmptySeq DEF Wanted, Need
  <2>4. HandshakeInv'
    BY <2>1, <2>2, <2>3 DEF HandshakeInv, GreetingInv, ReplyInv, AddressInv, LengthInv, OpenInv, Reading
  <2>5. QED BY <2>1, <2>2, <2>4 DEF TunnelTypeOK, Stages, Reading
<1>2. CASE Arrive
  <2>1. /\ StreamInv' /\ Pos' = Pos /\ ReadFrom' = ReadFrom
        /\ buf' \in Seq(Bytes) /\ wire' \in Seq(Bytes)
        /\ UNCHANGED <<stage, script, got, sock>>
    BY <1>2, ArriveKeeps
  <2>2. Wanted' = Wanted
    BY <2>1 DEF Wanted
  <2>3. HandshakeInv'
    BY <2>1, <2>2 DEF HandshakeInv, GreetingInv, ReplyInv, AddressInv, LengthInv, OpenInv
  <2>4. QED BY <2>1, <2>3 DEF TunnelTypeOK, Bytes
<1>3. CASE Read
  <2>1. stage \in Reading
    BY <1>3 DEF Read
  <2>2. Wanted \in Nat /\ Len(got) < Wanted
    BY <2>1, WantedBytes
  <2>3. /\ StreamInv' /\ buf' \in Seq(Bytes) /\ got' \in Seq(Bytes)
        /\ UNCHANGED <<script, wire>>
        /\ sock' = IF stage' = "failed" THEN "destroyed" ELSE sock
    BY <1>3, <2>2, ReadTakes
  <2>4. HandshakeInv' /\ stage' \in Stages \ {"idle"}
    BY <1>3, ReadKeeps
  <2>5. QED BY <2>3, <2>4 DEF TunnelTypeOK, Bytes
<1>4. CASE TunnelFails
  <2>1. stage' = "failed" /\ sock' = "destroyed" /\ UNCHANGED <<script, wire, buf, got>>
    BY <1>4 DEF TunnelFails
  <2>2. StreamInv'
    BY <2>1, SameStream
  <2>3. HandshakeInv'
    BY <2>1 DEF HandshakeInv, GreetingInv, ReplyInv, AddressInv, LengthInv, OpenInv, Reading
  <2>4. QED BY <2>1, <2>2, <2>3 DEF TunnelTypeOK, Stages
<1>5. QED BY <1>1, <1>2, <1>3, <1>4 DEF TunnelStep, Broken, ClosedMidHandshake, Deadline

-----------------------------------------------------------------------------
Same == UNCHANGED <<script, wire, buf, got>>

\* What the proxies and nodes send is bytes.
LEMMA ScriptBytes == Scripts \subseteq Seq(Bytes) /\ Bodies \subseteq Seq(Bytes)
<1>1. {Status200, Status500} \cup BodyParts \subseteq Bytes
  BY DEF Status200, Status500, BodyParts, LastParts, Piece, WholeJson, NoResult, NotJson, Bytes
<1>2. Seq({Status200, Status500} \cup BodyParts) \subseteq Seq(Bytes)
  <2> SUFFICES ASSUME NEW s \in Seq({Status200, Status500} \cup BodyParts) PROVE s \in Seq(Bytes)
    OBVIOUS
  <2>1. Len(s) \in Nat /\ \A i \in 1 .. Len(s) : s[i] \in Bytes
    BY <1>1, LenProperties, ElementOfSeq
  <2>2. QED BY <2>1, LenProperties, IsASeq
<1>3. QED BY <1>2, ScriptsAssumption, CallAssumption DEF Bytes

\* How long a granted handshake is.
LEMMA HandshakeIsLong ==
  ASSUME NEW s \in Seq(Bytes), Granted(s)
  PROVE  HandshakeLength(s) \in Nat
<1>1. s[7] \in Bytes
  <2>1. Len(s) \in Nat /\ 7 \in 1 .. Len(s)
    BY LenProperties DEF Granted
  <2>2. QED BY <2>1, ElementOfSeq
<1>2. s[7] \in 0 .. 255 /\ s[6] \in {1, 3, 4}
  BY <1>1 DEF Granted, Bytes
<1>3. CASE s[6] = 3
  <2>1. \A b \in 0 .. 255 : 2 + 4 + (1 + b) + 2 \in Nat
    OBVIOUS
  <2>2. HandshakeLength(s) = 2 + 4 + (1 + s[7]) + 2
    BY <1>3 DEF HandshakeLength
  <2>3. QED BY <1>2, <2>1, <2>2
<1>4. CASE s[6] \in {1, 4}
  BY <1>4 DEF HandshakeLength
<1>5. QED BY <1>2, <1>3, <1>4

\* A call begins with nothing read of a new connection.
LEMMA BeginKeeps ==
  ASSUME SorobanInv, BeginCall
  PROVE  SorobanInv'
<1>1. /\ call = "idle" /\ calls < MaxCalls /\ via' = via /\ call' = "dialing" /\ result' = "none"
      /\ calls' = calls + 1 /\ stage' = "connect" /\ sock' = "open"
      /\ script' \in IF via = "socks" THEN Scripts ELSE Bodies
      /\ wire' = script' /\ buf' = <<>> /\ got' = <<>>
  BY DEF BeginCall, Dial, DialDirectly
<1>2. via \in {"socks", "fetch"} /\ calls \in 0 .. MaxCalls
  BY DEF SorobanInv, CallTypeOK
<1>3. script' \in Seq(Bytes)
  BY <1>1, ScriptBytes
<1>4. /\ StreamInv' /\ Pos' = 0 /\ ReadFrom' = 0
      /\ wire' \in Seq(Bytes) /\ buf' \in Seq(Bytes) /\ got' \in Seq(Bytes)
  BY <1>1, <1>3, FreshStream
<1>5. CallTypeOK'
  BY <1>1, <1>2, <1>3, <1>4, CallAssumption DEF CallTypeOK, TunnelTypeOK, Stages, Bytes
<1>6. HandshakeInv'
  BY <1>1, <1>4 DEF HandshakeInv, GreetingInv, ReplyInv, AddressInv, LengthInv, OpenInv, Reading
<1>7. SourceInv'
  BY <1>1, <1>2 DEF SourceInv
<1>8. CallInv'
  BY <1>1, <1>4, <1>6 DEF CallInv
<1>9. QED BY <1>4, <1>5, <1>7, <1>8 DEF SorobanInv

\* The steps that touch none of the bytes: the handshake ends, well or not,
\* the request goes out, the call fails or is cut.
LEMMA SettleKeeps ==
  ASSUME SorobanInv, FetchConnects \/ RequestSent \/ DialFailed \/ CallFails \/ NodeCloses
  PROVE  SorobanInv'
<1>1. Same /\ UNCHANGED <<via, calls>>
  BY DEF FetchConnects, RequestSent, DialFailed, CallFails, NodeCloses, Same, tunnelVars
<1>2. StreamInv' /\ Pos' = Pos
  BY <1>1, SameStream DEF SorobanInv, Same
<1>3. CallTypeOK /\ SourceInv /\ CallInv /\ Base' = Base
  BY <1>1 DEF SorobanInv, Base, Same
<1>4. stage # "idle"
  BY <1>3 DEF FetchConnects, RequestSent, DialFailed, CallFails, NodeCloses, Answering, CallInv
<1>5. CallTypeOK' /\ stage' # "idle"
  <2>1. /\ stage' \in Stages \ {"idle"} /\ sock' \in {"none", "open", "destroyed"}
        /\ call' \in {"idle", "dialing", "asked", "body", "cut"}
        /\ result' \in {"none", "value", "null", "error"}
    BY <1>3, <1>4 DEF FetchConnects, RequestSent, DialFailed, CallFails, NodeCloses, tunnelVars, Settle, CallTypeOK, TunnelTypeOK, Stages
  <2>2. QED BY <1>1, <1>3, <2>1 DEF CallTypeOK, TunnelTypeOK, Same
<1>6. SourceInv'
  BY <1>1, <1>3, <1>4 DEF SourceInv, Same
<1>7. CallInv'
  <2>1. CASE FetchConnects
    BY <1>1, <1>2, <1>3, <1>5, <2>1 DEF FetchConnects, CallInv, Base
  <2>2. CASE RequestSent
    BY <1>1, <1>2, <1>3, <1>5, <2>2 DEF RequestSent, CallInv, Base, HandshakeInv, OpenInv, Same
  <2>3. CASE DialFailed \/ CallFails
    BY <2>3 DEF DialFailed, CallFails, Settle, CallInv
  <2>4. CASE NodeCloses
    <3>1. \/ call' = "cut" /\ result' = result /\ call # "idle"
          \/ call' = "idle" /\ result' = "error"
      BY <2>4 DEF NodeCloses, Answering, Settle
    <3>2. QED BY <1>3, <1>5, <3>1 DEF CallInv
  <2>5. QED BY <2>1, <2>2, <2>3, <2>4
<1>8. QED BY <1>2, <1>5, <1>6, <1>7 DEF SorobanInv

\* A part of the response is the next number of the stream.
LEMMA PartTaken ==
  ASSUME SorobanInv, NEW p, NextPart(p), call \in {"asked", "body"}
  PROVE  /\ StreamInv' /\ Pos' = Pos + 1 /\ Pos \in Nat /\ Pos + 1 <= Len(script) /\ Len(script) \in Nat
         /\ script[Pos + 1] = p
         /\ buf' \in Seq(Bytes) /\ UNCHANGED <<stage, script, wire, got, sock, via, calls>>
<1>1. buf # <<>> /\ Head(buf) = p /\ buf' = Tail(buf) /\ UNCHANGED <<stage, script, wire, got, sock, via, calls>>
  BY DEF NextPart
<1>2. /\ script \in Seq(Bytes) /\ wire \in Seq(Bytes) /\ buf \in Seq(Bytes)
      /\ Len(script) \in Nat /\ Len(wire) \in Nat /\ Len(buf) \in Nat /\ Pos \in Nat
      /\ Pos + Len(buf) + Len(wire) = Len(script)
      /\ got = <<>> /\ Len(got) = 0
  BY Lengths, EmptySeq DEF SorobanInv, CallTypeOK, CallInv
<1>3. /\ buf' \in Seq(Bytes) /\ Len(buf') = Len(buf) - 1 /\ p = buf[1]
      /\ \A i \in 1 .. Len(buf') : buf'[i] = buf[i + 1]
  BY <1>1, <1>2, HeadTailProperties
<1>4. Len(buf) >= 1
  BY <1>1, <1>2, EmptySeq
<1>5. PieceOf(buf, script, Pos) /\ PieceOf(wire, script, Pos + Len(buf))
  BY DEF SorobanInv, StreamInv
<1>6. Pos' = Pos + 1
  <2>1. Pos' = Len(script) - (Len(buf) - 1) - Len(wire)
    BY <1>1, <1>3 DEF Pos
  <2>2. QED BY <1>2, <2>1
<1>7. ReadFrom' = Pos + 1
  <2>1. ReadFrom' = Pos' - Len(got')
    BY DEF ReadFrom
  <2>2. ReadFrom' = Pos + 1 - 0
    BY <1>1, <1>2, <1>6, <2>1
  <2>3. QED BY <1>2, <2>2
<1>8. script[Pos + 1] = p /\ Pos + 1 <= Len(script)
  BY <1>2, <1>3, <1>4, <1>5 DEF PieceOf
<1>9. PieceOf(buf', script, Pos + 1)
  <2>1. \A i \in 1 .. Len(buf') : i + 1 \in 1 .. Len(buf) /\ Pos + 1 + i = Pos + (i + 1)
    BY <1>2, <1>3, <1>4
  <2>2. \A i \in 1 .. Len(buf) : buf[i] = script[Pos + i]
    BY <1>5 DEF PieceOf
  <2>3. \A i \in 1 .. Len(buf') : buf'[i] = script[Pos + 1 + i]
    BY <1>3, <2>1, <2>2
  <2>4. QED BY <1>2, <1>3, <1>4, <2>3 DEF PieceOf
<1>10. PieceOf(got', script, Pos + 1)
  BY <1>1, <1>2, <1>8 DEF PieceOf
<1>11. Pos + 1 + Len(buf') = Pos + Len(buf)
  BY <1>2, <1>3, <1>4
<1>12. StreamInv'
  BY <1>1, <1>5, <1>6, <1>7, <1>9, <1>10, <1>11 DEF StreamInv
<1>13. QED BY <1>1, <1>2, <1>3, <1>6, <1>8, <1>12

\* Reading the response keeps the invariant: the status stands where the
\* response begins, and nothing follows a last part.
LEMMA ResponseKeeps ==
  ASSUME SorobanInv, StatusOk \/ StatusError \/ BodyPiece \/ BodyEnds
  PROVE  SorobanInv'
<1>1. PICK p \in {Status200, Status500} \cup BodyParts : NextPart(p)
  BY DEF StatusOk, StatusError, BodyPiece, BodyEnds, BodyParts, LastParts
<1>2. call \in {"asked", "body"}
  BY DEF StatusOk, StatusError, BodyPiece, BodyEnds
<1>3. /\ StreamInv' /\ Pos' = Pos + 1 /\ Pos \in Nat /\ Pos + 1 <= Len(script) /\ Len(script) \in Nat
      /\ buf' \in Seq(Bytes) /\ UNCHANGED <<stage, script, wire, got, sock, via, calls>>
  BY <1>1, <1>2, PartTaken
<1>4. CallTypeOK /\ SourceInv /\ CallInv /\ Base' = Base
  BY <1>3 DEF SorobanInv, Base
<1>5. stage # "idle" /\ result = "none" /\ got = <<>> /\ (via = "socks" => Granted(script))
  BY <1>2, <1>4 DEF CallInv
<1>6. Base \in Nat
  <2>1. via \in {"socks", "fetch"} /\ script \in Seq(Bytes)
    BY <1>4 DEF CallTypeOK, TunnelTypeOK, Bytes
  <2>2. QED BY <1>5, <2>1, HandshakeIsLong DEF Base
<1>7. CallTypeOK'
  <2>1. /\ call' \in {"idle", "dialing", "asked", "body", "cut"}
        /\ result' \in {"none", "value", "null", "error"}
    BY <1>4 DEF StatusOk, StatusError, BodyPiece, BodyEnds, Settle, CallTypeOK
  <2>2. QED BY <1>3, <1>4, <2>1 DEF CallTypeOK, TunnelTypeOK, Bytes
<1>8. SourceInv'
  BY <1>3, <1>4 DEF SourceInv
<1>9. CallInv'
  <2>1. CASE StatusOk
    <3>1. call = "asked" /\ NextPart(Status200) /\ call' = "body" /\ result' = result
      BY <2>1 DEF StatusOk
    <3>2. script[Pos + 1] = Status200
      BY <1>2, <3>1, PartTaken
    <3>3. Pos = Base
      BY <1>4, <3>1 DEF CallInv
    <3>4. Base < Pos' /\ script'[Base' + 1] = Status200
      BY <1>3, <1>4, <3>2, <3>3
    <3>5. QED BY <1>3, <1>4, <1>5, <3>1, <3>4 DEF CallInv
  <2>2. CASE StatusError
    BY <1>3, <2>2 DEF StatusError, Settle, CallInv
  <2>3. CASE BodyPiece
    <3>1. call = "body" /\ call' = call /\ result' = result
      BY <2>3 DEF BodyPiece
    <3>2. Base < Pos /\ script[Base + 1] = Status200
      BY <1>4, <3>1 DEF CallInv
    <3>3. Base' < Pos' /\ script'[Base' + 1] = Status200
      <4>1. Base < Pos + 1
        BY <1>3, <1>6, <3>2
      <4>2. QED BY <1>3, <1>4, <3>2, <4>1
    <3>4. QED BY <1>3, <1>4, <1>5, <3>1, <3>3 DEF CallInv
  <2>4. CASE BodyEnds
    <3>1. call = "body" /\ call' = "idle"
      BY <2>4 DEF BodyEnds, Settle
    <3>2. PICK q \in LastParts :
            NextPart(q) /\ result' = IF q = WholeJson THEN "value" ELSE IF q = NoResult THEN "null" ELSE "error"
      BY <2>4 DEF BodyEnds, Settle, LastParts, WholeJson, NoResult, NotJson
    <3>3. script[Pos + 1] = q
      BY <1>2, <3>2, PartTaken
    <3>4. Base < Pos /\ script[Base + 1] = Status200
      BY <1>4, <3>1 DEF CallInv
    <3>5. Pos + 1 = Len(script)
      <4>1. SUFFICES ASSUME Pos + 1 # Len(script) PROVE FALSE
        OBVIOUS
      <4>2. Pos + 1 \in Base + 1 .. Len(script) - 1
        BY <1>3, <1>6, <3>4, <4>1
      <4>3. CASE via = "fetch"
        <5>1. script \in Bodies /\ Base = 0
          BY <1>4, <1>5, <4>3 DEF SourceInv, Base
        <5>2. Pos + 1 \in 1 .. Len(script) - 1
          BY <1>3, <4>2, <5>1
        <5>3. QED BY <3>2, <3>3, <5>1, <5>2, LastAssumption
      <4>4. CASE via # "fetch"
        <5>1. via = "socks" /\ script \in Scripts /\ Base = HandshakeLength(script)
          BY <1>4, <1>5, <4>4 DEF SourceInv, Base, CallTypeOK
        <5>2. QED BY <1>5, <3>2, <3>3, <4>2, <5>1, LastAssumption
      <4>5. QED BY <4>3, <4>4
    <3>6. Base < Pos'
      BY <1>3, <1>6, <3>4
    <3>7. result' = "value" <=> script[Len(script)] = WholeJson
      BY <3>2, <3>3, <3>5
    <3>8. QED BY <1>3, <1>4, <1>5, <3>1, <3>4, <3>5, <3>6, <3>7 DEF CallInv
  <2>5. QED BY <2>1, <2>2, <2>3, <2>4
<1>10. QED BY <1>3, <1>7, <1>8, <1>9 DEF SorobanInv

\* A step of the handshake leaves the call where it is.
LEMMA HandshakeKeeps ==
  ASSUME SorobanInv, Handshake
  PROVE  SorobanInv'
<1>1. call = "dialing" /\ via = "socks" /\ TunnelStep /\ UNCHANGED <<via, call, result, calls>>
  BY DEF Handshake
<1>2. CallTypeOK /\ TunnelTypeOK /\ StreamInv /\ SourceInv /\ HandshakeInv /\ stage # "idle" /\ result = "none"
  BY <1>1 DEF SorobanInv, CallTypeOK, CallInv
<1>3. TunnelTypeOK' /\ StreamInv' /\ HandshakeInv' /\ script' = script /\ stage' # "idle"
  BY <1>1, <1>2, TunnelKeeps
<1>4. CallTypeOK'
  BY <1>1, <1>2, <1>3 DEF CallTypeOK
<1>5. SourceInv' /\ CallInv'
  BY <1>1, <1>2, <1>3 DEF SourceInv, CallInv
<1>6. QED BY <1>3, <1>4, <1>5 DEF SorobanInv

\* So does a part of the response that arrives.
LEMMA ArrivalKeeps ==
  ASSUME SorobanInv, ResponseArrives
  PROVE  SorobanInv'
<1>1. call \in {"asked", "body"} /\ Arrive /\ UNCHANGED <<via, call, result, calls>>
  BY DEF ResponseArrives, Answering
<1>2. CallTypeOK /\ TunnelTypeOK /\ StreamInv /\ SourceInv /\ CallInv
  BY DEF SorobanInv, CallTypeOK
<1>3. /\ StreamInv' /\ Pos' = Pos
      /\ buf' \in Seq(Bytes) /\ wire' \in Seq(Bytes)
      /\ UNCHANGED <<stage, script, got, sock>>
  BY <1>1, <1>2, ArriveKeeps
<1>4. CallTypeOK'
  BY <1>1, <1>2, <1>3 DEF CallTypeOK, TunnelTypeOK, Bytes
<1>5. SourceInv' /\ Base' = Base
  BY <1>1, <1>2, <1>3 DEF SourceInv, Base
<1>6. CallInv'
  BY <1>1, <1>2, <1>3, <1>5 DEF CallInv
<1>7. QED BY <1>3, <1>4, <1>5, <1>6 DEF SorobanInv

\* The reader's place in the stream is known throughout every call.
THEOREM SorobanInductive == Spec => []SorobanInv
<1>1. Init => SorobanInv
  <2> SUFFICES ASSUME Init PROVE SorobanInv
    OBVIOUS
  <2>1. /\ stage = "idle" /\ sock = "none" /\ script = <<>> /\ wire = <<>> /\ buf = <<>> /\ got = <<>>
        /\ via \in {"socks", "fetch"} /\ call = "idle" /\ result = "none" /\ calls = 0
    BY DEF Init, TunnelIdle
  <2>2. <<>> \in Seq(Bytes) /\ Len(<<>>) = 0
    BY EmptySeq
  <2>3. CallTypeOK
    BY <2>1, <2>2, CallAssumption DEF CallTypeOK, TunnelTypeOK, Stages, Bytes
  <2>4. Pos = 0 /\ ReadFrom = 0 /\ Pos + Len(buf) = 0
    <3>1. Len(script) = 0 /\ Len(buf) = 0 /\ Len(wire) = 0 /\ Len(got) = 0
      BY <2>1, <2>2
    <3>2. Pos = 0
      BY <3>1 DEF Pos
    <3>3. QED BY <3>1, <3>2 DEF ReadFrom
  <2>5. PieceOf(<<>>, <<>>, 0)
    BY <2>2 DEF PieceOf
  <2>6. StreamInv
    BY <2>1, <2>4, <2>5 DEF StreamInv
  <2>7. QED BY <2>1, <2>3, <2>6 DEF SorobanInv, SourceInv, CallInv
<1>2. SorobanInv /\ [Next]_vars => SorobanInv'
  <2> SUFFICES ASSUME SorobanInv, [Next]_vars PROVE SorobanInv'
    OBVIOUS
  <2>1. CASE UNCHANGED vars
    <3>1. Same /\ UNCHANGED <<stage, sock, via, call, result, calls>>
      BY <2>1 DEF vars, tunnelVars, Same
    <3>2. StreamInv' /\ Pos' = Pos /\ ReadFrom' = ReadFrom
      BY <3>1, SameStream DEF SorobanInv, Same
    <3>3. CallTypeOK' /\ SourceInv' /\ Base' = Base /\ Wanted' = Wanted
      BY <3>1 DEF SorobanInv, CallTypeOK, TunnelTypeOK, SourceInv, Base, Wanted, Same
    <3>4. HandshakeInv => HandshakeInv'
      BY <3>1, <3>2, <3>3 DEF HandshakeInv, GreetingInv, ReplyInv, AddressInv, LengthInv, OpenInv, Same
    <3>5. CallInv'
      BY <3>1, <3>2, <3>3, <3>4 DEF SorobanInv, CallInv, Same
    <3>6. QED BY <3>2, <3>3, <3>5 DEF SorobanInv
  <2>2. CASE BeginCall
    BY <2>2, BeginKeeps
  <2>3. CASE Handshake
    BY <2>3, HandshakeKeeps
  <2>4. CASE FetchConnects \/ RequestSent \/ DialFailed \/ CallFails \/ NodeCloses
    BY <2>4, SettleKeeps
  <2>5. CASE ResponseArrives
    BY <2>5, ArrivalKeeps
  <2>6. CASE StatusOk \/ StatusError \/ BodyPiece \/ BodyEnds
    BY <2>6, ResponseKeeps
  <2>7. QED BY <2>1, <2>2, <2>3, <2>4, <2>5, <2>6 DEF Next
<1>3. QED BY <1>1, <1>2, PTL DEF Spec

-----------------------------------------------------------------------------
\* What is left of the stream is all of it behind the reader's place.
LEMMA RestOfStream ==
  ASSUME TunnelTypeOK, StreamInv
  PROVE  buf \o wire = SubSeq(script, Pos + 1, Len(script))
<1> DEFINE rest == buf \o wire
           all == SubSeq(script, Pos + 1, Len(script))
<1>1. /\ script \in Seq(Bytes) /\ wire \in Seq(Bytes) /\ buf \in Seq(Bytes)
      /\ Len(script) \in Nat /\ Len(wire) \in Nat /\ Len(buf) \in Nat /\ Pos \in Nat
      /\ Pos + Len(buf) + Len(wire) = Len(script)
  BY Lengths
<1>2. rest \in Seq(Bytes) /\ Len(rest) = Len(buf) + Len(wire) /\ PieceOf(rest, script, Pos)
  BY <1>1, PieceJoin DEF StreamInv
<1>3. /\ all \in Seq(Bytes) /\ Len(all) = Len(script) - Pos
      /\ \A i \in 1 .. Len(script) - Pos : all[i] = script[Pos + i]
  <2>1. \A i \in Pos + 1 .. Len(script) : script[i] \in Bytes
    BY <1>1, ElementOfSeq
  <2>2. /\ all \in Seq(Bytes)
        /\ Len(all) = IF Pos + 1 <= Len(script) THEN Len(script) - (Pos + 1) + 1 ELSE 0
        /\ \A i \in 1 .. Len(script) - (Pos + 1) + 1 : all[i] = script[Pos + 1 + i - 1]
    BY <1>1, <2>1, SubSeqProperties
  <2> HIDE DEF all
  <2>3. QED BY <1>1, <2>2
<1> HIDE DEF rest, all
<1>4. Len(rest) = Len(all) /\ \A i \in 1 .. Len(rest) : rest[i] = all[i]
  BY <1>1, <1>2, <1>3 DEF PieceOf
<1>5. rest = all
  BY <1>2, <1>3, <1>4, SeqEqual
<1>6. QED BY <1>5 DEF rest, all

\* Over any proxy and however its bytes were cut, the request goes out over a
\* tunnel that was granted, and the response begins at the first byte behind
\* the handshake.
THEOREM TunnelHandsOver == Spec => []TunnelIsTransparent
<1>1. SorobanInv => TunnelIsTransparent
  <2> SUFFICES ASSUME SorobanInv, via = "socks", call = "dialing", stage = "open"
               PROVE  /\ script[1] = 5 /\ script[2] = 0 /\ script[4] = 0
                      /\ buf \o wire = SubSeq(script, HandshakeLength(script) + 1, Len(script))
    BY DEF TunnelIsTransparent, StreamStartsAtPayload
  <2>1. Granted(script) /\ Pos = HandshakeLength(script)
    BY DEF SorobanInv, CallInv, HandshakeInv, OpenInv
  <2>2. buf \o wire = SubSeq(script, Pos + 1, Len(script))
    BY RestOfStream DEF SorobanInv, CallTypeOK
  <2>3. QED BY <2>1, <2>2 DEF Granted
<1>2. QED BY <1>1, SorobanInductive, PTL

\* With any answers of proxy and node, a call resolves only with the text of a
\* whole response that began with a good status.
THEOREM ResolvesWithTheWhole == Spec => []WholeAnswerOnly
<1>1. SorobanInv => WholeAnswerOnly
  <2> DEFINE answer == IF via = "fetch" THEN script
                       ELSE SubSeq(script, HandshakeLength(script) + 1, Len(script))
  <2> SUFFICES ASSUME SorobanInv, result \in {"value", "null"}
               PROVE  /\ answer[1] = Status200
                      /\ buf \o wire = <<>>
                      /\ result = "value" <=> answer[Len(answer)] = WholeJson
    BY DEF WholeAnswerOnly
  <2>1. /\ Base < Pos /\ script[Base + 1] = Status200 /\ Pos = Len(script)
        /\ result = "value" <=> script[Len(script)] = WholeJson
        /\ via = "socks" => Granted(script)
    BY DEF SorobanInv, CallInv
  <2>2. /\ script \in Seq(Bytes) /\ wire \in Seq(Bytes) /\ buf \in Seq(Bytes)
        /\ Len(script) \in Nat /\ Len(wire) \in Nat /\ Len(buf) \in Nat /\ Pos \in Nat
        /\ Pos + Len(buf) + Len(wire) = Len(script)
    BY Lengths DEF SorobanInv, CallTypeOK
  <2>3. buf \o wire = <<>>
    <3>1. Len(buf) = 0 /\ Len(wire) = 0
      BY <2>1, <2>2
    <3>2. buf = <<>> /\ wire = <<>>
      BY <2>2, <3>1, EmptySeq
    <3>3. QED BY <2>2, <3>2, ConcatEmptySeq
  <2>4. Base \in Nat
    BY <2>1, <2>2, HandshakeIsLong DEF Base, SorobanInv, CallTypeOK
  <2>5. /\ Len(answer) = Len(script) - Base
        /\ \A i \in 1 .. Len(script) - Base : answer[i] = script[Base + i]
    <3>1. CASE via = "fetch"
      BY <2>2, <3>1 DEF Base
    <3>2. CASE via # "fetch"
      <4> DEFINE rest == SubSeq(script, Base + 1, Len(script))
      <4>1. \A i \in Base + 1 .. Len(script) : script[i] \in Bytes
        BY <2>2, <2>4, ElementOfSeq
      <4>2. /\ Len(rest) = IF Base + 1 <= Len(script) THEN Len(script) - (Base + 1) + 1 ELSE 0
            /\ \A i \in 1 .. Len(script) - (Base + 1) + 1 : rest[i] = script[Base + 1 + i - 1]
        BY <2>2, <2>4, <4>1, SubSeqProperties
      <4>3. answer = rest
        BY <3>2 DEF Base
      <4> HIDE DEF rest, answer
      <4>4. QED BY <2>1, <2>2, <2>4, <4>2, <4>3
    <3>3. QED BY <3>1, <3>2
  <2> HIDE DEF answer
  <2>6. answer[1] = script[Base + 1] /\ answer[Len(answer)] = script[Len(script)]
    <3>1. /\ 1 \in 1 .. Len(script) - Base /\ Len(script) - Base \in 1 .. Len(script) - Base
          /\ Base + (Len(script) - Base) = Len(script)
      BY <2>1, <2>2, <2>4
    <3>2. QED BY <2>5, <3>1
  <2>7. QED BY <2>1, <2>3, <2>6
<1>2. QED BY <1>1, SorobanInductive, PTL

\* The client's state keeps its types.
THEOREM CallTypeCorrect == Spec => []CallTypeOK
<1>1. SorobanInv => CallTypeOK
  BY DEF SorobanInv
<1>2. QED BY <1>1, SorobanInductive, PTL

=============================================================================

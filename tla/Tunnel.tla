------------------------------- MODULE Tunnel -------------------------------
(***************************************************************************)
(* socksConnect of src/src/socks.ts: one SOCKS5 CONNECT over a byte stream *)
(* that arrives in pieces of any size.  Between two awaits the code runs   *)
(* to completion; a step is one event of the socket or of the timer and    *)
(* everything up to the next await.                                        *)
(*                                                                         *)
(* What the proxy sends is a fixed sequence of bytes, Script, chosen when  *)
(* the connection opens.  The bytes behind the handshake belong to the     *)
(* protocol above, which must find all of them.                            *)
(***************************************************************************)
EXTENDS Integers, Sequences

CONSTANT Scripts   \* what a proxy may send over one connection

ASSUME ScriptsAssumption == Scripts \subseteq Seq(0 .. 255)

VARIABLES
  stage,    \* the read the handshake is waiting for, or how it ended
  script,   \* history: all the proxy sends over this connection
  wire,     \* bytes that have not arrived yet
  buf,      \* bytes the socket has received and nobody has read
  got,      \* bytes the current readExactly has taken
  sock      \* the socket: "none", "open" or "destroyed"

tunnelVars == <<stage, script, wire, buf, got, sock>>

Reading == {"greeting", "reply", "ipv4", "ipv6", "length", "domain"}
Stages == Reading \cup {"idle", "connect", "open", "failed"}

TunnelTypeOK ==
  /\ stage \in Stages
  /\ script \in Seq(0 .. 255)
  /\ wire \in Seq(0 .. 255) /\ buf \in Seq(0 .. 255) /\ got \in Seq(0 .. 255)
  /\ sock \in {"none", "open", "destroyed"}

TunnelIdle ==
  /\ stage = "idle"
  /\ script = <<>> /\ wire = <<>> /\ buf = <<>> /\ got = <<>>
  /\ sock = "none"

-----------------------------------------------------------------------------
\* The socket is created and the deadline over the whole handshake armed.
Dial ==
  /\ stage' = "connect"
  /\ sock' = "open"
  /\ script' \in Scripts
  /\ wire' = script'
  /\ buf' = <<>>
  /\ got' = <<>>

Connected ==
  /\ stage = "connect"
  /\ stage' = "greeting"
  /\ UNCHANGED <<script, wire, buf, got, sock>>

\* Any number of the bytes still under way arrive together.
Arrive ==
  /\ sock = "open"
  /\ stage # "connect"
  /\ \E k \in 1 .. Len(wire) :
       /\ buf' = buf \o SubSeq(wire, 1, k)
       /\ wire' = SubSeq(wire, k + 1, Len(wire))
  /\ UNCHANGED <<stage, script, got, sock>>

\* How many bytes the current readExactly asks for.
Need(s, g) ==
  CASE s = "greeting" -> 2
    [] s = "reply"    -> 4
    [] s = "ipv4"     -> 4 + 2
    [] s = "ipv6"     -> 16 + 2
    [] s = "length"   -> 1
    [] s = "domain"   -> g + 2

\* The read that follows the answer a, or the end.
NextStage(s, a) ==
  CASE s = "greeting" -> IF a[1] = 5 /\ a[2] = 0 THEN "reply" ELSE "failed"
    [] s = "reply"    -> IF a[2] # 0 THEN "failed"
                         ELSE CASE a[4] = 1 -> "ipv4"
                                [] a[4] = 4 -> "ipv6"
                                [] a[4] = 3 -> "length"
                                [] OTHER    -> "failed"
    [] s = "length"   -> "domain"
    [] OTHER          -> "open"

\* The length byte of a domain name is read on its own and kept for the read
\* of the name; the other reads start with nothing.
Wanted == IF stage = "domain" THEN Need(stage, got[1]) + 1 ELSE Need(stage, 0)

\* Mutant: the reader takes all that has arrived, as a 'data' handler would.
TakenGreedily == Len(buf)

Taken == IF Wanted - Len(got) < Len(buf) THEN Wanted - Len(got) ELSE Len(buf)

\* readExactly takes what has arrived, never more than it was asked for, and
\* resolves once it has all of it.
Read ==
  /\ stage \in Reading
  /\ buf # <<>>
  /\ LET all == got \o SubSeq(buf, 1, Taken)
         done == Len(all) >= Wanted
         next == IF done THEN NextStage(stage, all) ELSE stage
     IN /\ stage' = next
        /\ got' = IF done /\ next # "domain" THEN <<>> ELSE all
        /\ sock' = IF next = "failed" THEN "destroyed" ELSE sock
  /\ buf' = SubSeq(buf, Taken + 1, Len(buf))
  /\ UNCHANGED <<script, wire>>

TunnelFails ==
  /\ stage' = "failed"
  /\ sock' = "destroyed"
  /\ UNCHANGED <<script, wire, buf, got>>

\* The connection is refused or reset.
Broken == stage \in Reading \cup {"connect"} /\ TunnelFails

\* The proxy has closed, and what it sent does not answer the read.
ClosedMidHandshake ==
  /\ stage \in Reading
  /\ buf = <<>> /\ wire = <<>>
  /\ TunnelFails

\* Mutant: the deadline covers the TCP connect alone.
DeadlineOfConnect == stage = "connect" /\ TunnelFails

Deadline == stage \in Reading \cup {"connect"} /\ TunnelFails

TunnelStep == Connected \/ Arrive \/ Read \/ Broken \/ ClosedMidHandshake \/ Deadline

-----------------------------------------------------------------------------
\* How long a granted handshake is, from its bytes alone: two of greeting,
\* four of reply, the bound address and two of port.
HandshakeLength(s) ==
  2 + 4 + (CASE s[6] = 1 -> 4 [] s[6] = 4 -> 16 [] s[6] = 3 -> 1 + s[7]) + 2

\* However the bytes were cut, an open tunnel is one the proxy granted, and
\* the protocol above it finds every byte behind the handshake and none of it.
StreamStartsAtPayload ==
  stage = "open" =>
    /\ script[1] = 5 /\ script[2] = 0 /\ script[4] = 0
    /\ buf \o wire = SubSeq(script, HandshakeLength(script) + 1, Len(script))
=============================================================================

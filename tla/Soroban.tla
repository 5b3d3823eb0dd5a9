------------------------------ MODULE Soroban ------------------------------
(***************************************************************************)
(* One call at a time of the Soroban client (src/src/soroban.ts), made by  *)
(* the listen job: over socksTransport, inside a Tunnel, when the node is  *)
(* an onion service, else over fetchTransport.  Daemon.schedule starts no  *)
(* run while the promise of the previous one is unsettled.                 *)
(*                                                                         *)
(* The response is the payload of the byte stream, one number per part:    *)
(* a status line, pieces of the body, its last piece.                      *)
(***************************************************************************)
EXTENDS Tunnel

CONSTANTS
  Bodies,     \* responses of a node reached without a proxy
  MaxCalls    \* bound: calls in a behaviour

Status200 == 200
Status500 == 250
Piece     == 80   \* part of the body, more follows
WholeJson == 90   \* the last part; the text parses and has a result
NoResult  == 91   \* the last part; the text parses and has no result
NotJson   == 92   \* the last part; the text does not parse

LastParts == {WholeJson, NoResult, NotJson}
BodyParts == {Piece} \cup LastParts

ASSUME CallAssumption ==
  /\ MaxCalls \in Nat
  /\ Bodies \subseteq Seq({Status200, Status500} \cup BodyParts)

\* The proxy grants the connection in s.
Granted(s) == Len(s) >= 7 /\ s[1] = 5 /\ s[2] = 0 /\ s[4] = 0 /\ s[6] \in {1, 3, 4}

\* A last part is one because nothing follows it.
ASSUME LastAssumption ==
  /\ \A s \in Bodies : \A i \in 1 .. Len(s) - 1 : s[i] \notin LastParts
  /\ \A s \in Scripts : Granted(s) =>
       \A i \in HandshakeLength(s) + 1 .. Len(s) - 1 : s[i] \notin LastParts

VARIABLES
  via,      \* the transport forUrl chose: "socks" or "fetch"
  call,     \* the call's promise: "idle" when there is none or it is settled
  result,   \* how the last one settled
  calls     \* bound: calls made

vars == <<tunnelVars, via, call, result, calls>>

CallTypeOK ==
  /\ TunnelTypeOK
  /\ via \in {"socks", "fetch"}
  /\ call \in {"idle", "dialing", "asked", "body", "cut"}
  /\ result \in {"none", "value", "null", "error"}
  /\ calls \in 0 .. MaxCalls

Init ==
  /\ TunnelIdle
  /\ via \in {"socks", "fetch"}
  /\ call = "idle"
  /\ result = "none"
  /\ calls = 0

-----------------------------------------------------------------------------
Settle(r) == call' = "idle" /\ result' = r

\* fetch connects on its own; nothing of its handshake is in the stream.
DialDirectly ==
  /\ stage' = "connect"
  /\ sock' = "open"
  /\ script' \in Bodies
  /\ wire' = script' /\ buf' = <<>> /\ got' = <<>>

BeginCall ==
  /\ call = "idle"
  /\ calls < MaxCalls
  /\ IF via = "socks" THEN Dial ELSE DialDirectly
  /\ call' = "dialing"
  /\ result' = "none"
  /\ calls' = calls + 1
  /\ UNCHANGED via

\* socksConnect's own steps; what follows its end is the callback's.
Handshake ==
  /\ call = "dialing"
  /\ via = "socks"
  /\ TunnelStep
  /\ UNCHANGED <<via, call, result, calls>>

FetchConnects ==
  /\ call = "dialing"
  /\ via = "fetch"
  /\ stage' = "open"
  /\ call' = "asked"
  /\ UNCHANGED <<script, wire, buf, got, sock, via, result, calls>>

\* createConnection's callback gets the socket, and the request is written.
RequestSent ==
  /\ call = "dialing"
  /\ via = "socks"
  /\ stage = "open"
  /\ call' = "asked"
  /\ UNCHANGED <<tunnelVars, via, result, calls>>

\* The callback gets the error, and the request emits it.
DialFailed ==
  /\ call = "dialing"
  /\ stage = "failed"
  /\ Settle("error")
  /\ UNCHANGED <<tunnelVars, via, calls>>

\* The response is under way.
Answering == call \in {"asked", "body"} /\ sock = "open"

ResponseArrives ==
  /\ Answering
  /\ Arrive
  /\ UNCHANGED <<via, call, result, calls>>

NextPart(p) ==
  /\ Answering
  /\ buf # <<>>
  /\ Head(buf) = p
  /\ buf' = Tail(buf)
  /\ UNCHANGED <<stage, script, wire, got, sock, via, calls>>

StatusOk == call = "asked" /\ NextPart(Status200) /\ call' = "body" /\ UNCHANGED result

\* The body is read and thrown away.
StatusError == call = "asked" /\ NextPart(Status500) /\ Settle("error")

BodyPiece == call = "body" /\ NextPart(Piece) /\ UNCHANGED <<call, result>>

\* Mutant: the text is parsed at the first piece.
BodyEndsEarly ==
  /\ call = "body"
  /\ \E p \in BodyParts : NextPart(p) /\ Settle(IF p = NotJson THEN "error" ELSE "value")

\* 'end': parse the text; call takes the result member, or null.
BodyEnds ==
  /\ call = "body"
  /\ \/ NextPart(WholeJson) /\ Settle("value")
     \/ NextPart(NoResult) /\ Settle("null")
     \/ NextPart(NotJson) /\ Settle("error")

\* A reset, or silence until the timer destroys the request.  The socket's
\* error reaches the request's 'error' handler in every phase.  fetch has one
\* deadline over connection and response.
CallFails ==
  /\ Answering \/ (via = "fetch" /\ call # "idle")
  /\ sock' = "destroyed"
  /\ Settle("error")
  /\ UNCHANGED <<stage, script, wire, buf, got, via, calls>>

\* The node closes cleanly before its answer is complete.  Without a response
\* yet the request fails ("socket hang up").  Inside the body only the
\* response learns of it, as 'aborted', which nobody listens to; the socket's
\* timer is gone with the socket.  fetch rejects in both cases.
NodeCloses ==
  /\ Answering
  /\ buf = <<>>
  /\ sock' = "destroyed"
  /\ IF via = "socks" /\ call = "body"
     THEN call' = "cut" /\ UNCHANGED result
     ELSE Settle("error")
  /\ UNCHANGED <<stage, script, wire, buf, got, via, calls>>

Next ==
  \/ BeginCall \/ Handshake \/ FetchConnects \/ RequestSent \/ DialFailed
  \/ ResponseArrives \/ StatusOk \/ StatusError \/ BodyPiece \/ BodyEnds
  \/ CallFails \/ NodeCloses

Spec == Init /\ [][Next]_vars

\* The process runs its callbacks and its timers: the deadline of a handshake
\* and the idle timer of a request (in CallFails) fire unless they are cleared.
\* Nothing is assumed of the proxy or of the node.
Fairness ==
  /\ WF_vars(call = "dialing" /\ Deadline /\ UNCHANGED <<via, call, result, calls>>)
  /\ WF_vars(RequestSent)
  /\ WF_vars(DialFailed)
  /\ WF_vars(CallFails)

FairSpec == Spec /\ Fairness

-----------------------------------------------------------------------------
\* However the proxy's bytes were cut, the request goes out over a tunnel that
\* was granted, and the response begins at the first byte behind the handshake.
TunnelIsTransparent == (via = "socks" /\ call = "dialing") => StreamStartsAtPayload

\* soroban.ts:93-97, 160-163: a call resolves only with the text of a whole
\* response that began with a good status, and every byte of it is used.
WholeAnswerOnly ==
  result \in {"value", "null"} =>
    LET answer == IF via = "fetch" THEN script
                  ELSE SubSeq(script, HandshakeLength(script) + 1, Len(script))
    IN /\ answer[1] = Status200
       /\ buf \o wire = <<>>
       /\ result = "value" <=> answer[Len(answer)] = WholeJson

\* soroban.ts:103-104, 113-115: no proxy and no node, silent at any point,
\* keeps the promise pending, and with it the job - except by the one way
\* named in NodeCloses.
SettlesUnlessCut == (call # "idle") ~> (call \in {"idle", "cut"})

\* The same without the exception, as the comments have it: "a stalled node
\* must not wedge a tick forever".
CallSettles == (call # "idle") ~> (call = "idle")
=============================================================================

-------------------------------- MODULE Site --------------------------------
(***************************************************************************)
(* The binding of a challenge to the published host (src/src/server.ts)    *)
(* and what of a proof is checked against it (src/src/auth47.ts).  A host  *)
(* as text is its name, whether it is written in capitals, and its port.   *)
(***************************************************************************)
EXTENDS Integers, FiniteSets

CONSTANTS SiteNames, PaymentCodes

Spelled == [name : SiteNames, capitals : BOOLEAN, port : {"none", "80", "8480"}]

\* Mutant: the default port stays.
HostKeyWithPort(host) == [host EXCEPT !.capitals = FALSE]

HostKey(host) == [host EXCEPT !.capitals = FALSE, !.port = IF @ = "80" THEN "none" ELSE @]

\* originOf: the configured host, if the request was addressed to it.
OriginOf(published, sent) == IF HostKey(sent) = HostKey(published) THEN {HostKey(published)} ELSE {}

\* challengeURI of the route: the nonce, the callback and the resource.
Challenge(origin, nonce) == [nonce |-> nonce, c |-> <<origin>>, r |-> origin]

\* signedForm: without the callback.  It is what a wallet signs and echoes.
SignedForm(uri) == [uri EXCEPT !.c = <<>>]

\* A payment code signs from the address of the network its wallet is set to,
\* and may have signed from either.
NotificationAddressOf(code, network) == <<code, network>>
NotificationAddresses(code) == {NotificationAddressOf(code, network) : network \in {"bitcoin", "testnet"}}

\* A wallet's proof; without a nym it proves an address only.
Proof(uri, code, network, named) ==
  [challenge |-> SignedForm(uri), by |-> NotificationAddressOf(code, network), nym |-> IF named THEN {code} ELSE {}]

\* verifyProof: the code that has signed, if the proof names one.
VerifyProof(proof) ==
  {code \in proof.nym : proof.challenge.c = <<>> /\ proof.by \in NotificationAddresses(code)}

\* sameResource: case does not matter, the port of the scheme neither.
SameResource(a, b) == HostKey(a) = HostKey(b)

\* The callback route up to the nonce: whom it authenticates.
Authenticates(published, sent, proof) ==
  UNION {IF SameResource(proof.challenge.r, origin) THEN VerifyProof(proof) ELSE {} : origin \in OriginOf(published, sent)}

\* Two spellings name one host: case does not matter, and 80 is the port that
\* is meant when none is written.
NameOneHost(a, b) == a.name = b.name /\ (a.port = b.port \/ {a.port, b.port} = {"none", "80"})

\* server.ts:74-77, 183-187, 308-309 and auth47.ts:52-59: however the published
\* host and the Host headers of the page and of the wallet are spelled, and
\* whichever network the wallet is set to, a challenge issued for this host
\* comes back as the customer's code; one issued for another host, or posted to
\* another, does not; and there is no challenge for a host that is not ours.
ChallengeComesBack ==
  \A published \in Spelled, asked \in Spelled, posted \in Spelled, elsewhere \in Spelled :
    LET issued == {Challenge(origin, 1) : origin \in OriginOf(published, asked)}
    IN  /\ issued # {} <=> NameOneHost(asked, published)
        /\ \A code \in PaymentCodes, network \in {"bitcoin", "testnet"}, named \in BOOLEAN :
             /\ \A uri \in issued :
                  Authenticates(published, posted, Proof(uri, code, network, named))
                    = IF NameOneHost(posted, published) /\ named THEN {code} ELSE {}
             /\ ~NameOneHost(elsewhere, published) =>
                  \A uri \in {Challenge(origin, 1) : origin \in OriginOf(elsewhere, elsewhere)} :
                    Authenticates(published, posted, Proof(uri, code, network, named)) = {}
=============================================================================

-------------------------------- MODULE Keys --------------------------------
(***************************************************************************)
(* The derivation of payment addresses (src/src/bip47.ts and identity.ts)  *)
(* over a group of prime order in which a point is the multiple of the     *)
(* base that it is, and the script hashes the indexer is asked about       *)
(* (src/src/electrum.ts).                                                  *)
(*                                                                         *)
(* A wallet is its child private keys, an address encoding and a network.  *)
(* CKDpub, which gives a payment code's children their public keys without *)
(* the private ones, is the library's.                                     *)
(***************************************************************************)
EXTENDS Integers, Sequences

CONSTANTS
  Order,      \* CURVE_N, a prime
  Children,   \* child indices, 0 among them
  Digest,     \* SHA256 of an x coordinate as a number, which may exceed Order
  CacheMax    \* ADDRESS_CACHE_MAX

ASSUME KeysAssumption ==
  /\ Order \in Nat /\ Order > 2
  /\ Children \subseteq Nat /\ 0 \in Children
  /\ Digest \in [1 .. Order -> Nat]
  /\ CacheMax \in Nat \ {0}

Encodings == {"p2pkh", "p2wpkh"}
Wallets == [prv : [Children -> 1 .. Order - 1], type : Encodings, network : {"mainnet", "testnet"}]

Multiply(point, scalar) == (point * scalar) % Order
Base == 1

\* A point and its inverse have the same x coordinate.
XOf(point) == IF 2 * point <= Order THEN point ELSE Order - point

\* encodePaymentCode: the account's public half, and a flag for its encoding.
PaymentCode(w) == [child |-> [i \in Children |-> Multiply(Base, w.prv[i])], segwit |-> w.type = "p2wpkh"]

Throws == [type |-> "throws", point |-> 0, network |-> "none"]

\* sharedSecretScalar, and the address of the tweaked key: no address if the
\* scalar is out of range or the key is the point at infinity.
Tweaked(public, shared, type, network) ==
  LET s == Digest[XOf(shared)]
      key == (public + Multiply(Base, s)) % Order
  IN  IF s \notin 1 .. Order - 1 \/ key = 0 THEN Throws ELSE [type |-> type, point |-> key, network |-> network]

ReceiveAddress(w, senderCode, i) ==
  LET b == w.prv[i]
  IN  Tweaked(Multiply(Base, b), Multiply(senderCode.child[0], b), w.type, w.network)

ReceivePrivateKey(w, senderCode, i) ==
  (w.prv[i] + Digest[XOf(Multiply(senderCode.child[0], w.prv[i]))]) % Order

\* Mutant: the sender's own flag selects the encoding.
AdvertisedOwn(w, receiverCode) == w.type

\* sendAddress of an identity: what the receiver's code advertises.
Advertised(w, receiverCode) == IF receiverCode.segwit THEN "p2wpkh" ELSE "p2pkh"

SendAddress(w, receiverCode, i) ==
  LET B == receiverCode.child[i]
  IN  Tweaked(B, Multiply(B, w.prv[0]), Advertised(w, receiverCode), w.network)

\* addressToScriptHash: refuses an address of the other network.
HashedScript(address, network) ==
  IF address.network # network THEN <<>> ELSE <<address.type, address.point>>

\* PaynymIdentity.receiveAddress: the memo is a sequence of <<key, address>>,
\* the oldest first, and a call is <<code, index>>.
Memoised(w, memo, call) ==
  LET hits == {k \in DOMAIN memo : memo[k][1] = call}
      address == ReceiveAddress(w, call[1], call[2])
      kept == IF Len(memo) >= CacheMax THEN Tail(memo) ELSE memo
  IN  IF hits # {} THEN [answer |-> memo[CHOOSE k \in hits : TRUE][2], memo |-> memo]
      ELSE IF address = Throws THEN [answer |-> Throws, memo |-> memo]
      ELSE [answer |-> address, memo |-> Append(kept, <<call, address>>)]

\* bip47.ts:224-227, "that equality is the entire mechanism": for every pair of
\* wallets of a network, what the sender pays is the address the receiver
\* watches, the receiver's key spends it, the indexer is asked about it - and
\* the memo, whatever it has dropped, answers what a derivation would.
BothSidesAgree ==
  /\ \A receiver \in Wallets, sender \in Wallets, i \in Children :
       sender.network = receiver.network =>
         LET address == ReceiveAddress(receiver, PaymentCode(sender), i)
         IN  /\ SendAddress(sender, PaymentCode(receiver), i) = address
             /\ address # Throws =>
                  /\ Multiply(Base, ReceivePrivateKey(receiver, PaymentCode(sender), i)) = address.point
                  /\ HashedScript(address, receiver.network) # <<>>
  /\ \A w \in Wallets : w.type = "p2wpkh" /\ w.network = "mainnet" =>
       LET other == [w EXCEPT !.prv = [i \in Children |-> w.prv[0]]]
           calls == {PaymentCode(w), PaymentCode(other)} \X Children
       IN  \A one \in calls, two \in calls, three \in calls :
             Memoised(w, Memoised(w, Memoised(w, <<>>, one).memo, two).memo, three).answer
               = ReceiveAddress(w, three[1], three[2])
=============================================================================

-------------------------------- MODULE Z85 --------------------------------
(***************************************************************************)
(* The base-85 text of a Samourai payload (src/src/samourai.ts), with the  *)
(* partial last block that extlibj adds to ZeroMQ's code.  Bytes and       *)
(* digits are numbers; the bases are parameters, 256 and 85 in the code.   *)
(***************************************************************************)
EXTENDS Integers, Sequences

CONSTANTS ByteBase, DigitBase

\* Four bytes fit in five digits, and not for want of digits.
ASSUME Z85Assumption ==
  /\ DigitBase \in Nat /\ DigitBase >= 2
  /\ ByteBase \in Nat /\ ByteBase >= DigitBase
  /\ DigitBase * DigitBase * DigitBase * DigitBase * DigitBase >= ByteBase * ByteBase * ByteBase * ByteBase

\* What a block is short of n items.
Padding(len, n) == (n - (len % n)) % n

\* Item i of s, or the filler past its end.
ItemAt(s, i, filler) == IF i <= Len(s) THEN s[i] ELSE filler

\* The n items of block k as a number, the most significant first.
BlockValue(s, k, n, base, filler) ==
  LET v[j \in 0 .. n] == IF j = 0 THEN 0 ELSE v[j - 1] * base + ItemAt(s, n * k + j, filler) IN v[n]

\* What item j of a block of n counts: 1 if it is the last one.
Weight(n, base) ==
  LET w[j \in 1 .. n] == IF j = n THEN 1 ELSE base * w[j + 1] IN w

\* Item i of the blocks of n items that stand for the values.
Spread(value, i, n, base) == (value[(i - 1) \div n] \div Weight(n, base)[1 + ((i - 1) % n)]) % base

\* The digits of a last block that no byte of it needs are dropped.
Z85Encode(bytes) ==
  LET padding == Padding(Len(bytes), 4)
      value == [k \in 0 .. Len(bytes) \div 4 |-> BlockValue(bytes, k, 4, ByteBase, 0)]
  IN  [i \in 1 .. (((Len(bytes) + padding) \div 4) * 5 - padding) |-> Spread(value, i, 5, DigitBase)]

\* Mutant: a short block is filled up with the first digit of the alphabet.
FillerFirst == 0

\* ENCODERS[ENCODERS.length - 1]
Filler == DigitBase - 1

Z85Decode(text) ==
  LET padding == Padding(Len(text), 5)
      value == [k \in 0 .. Len(text) \div 5 |-> BlockValue(text, k, 5, DigitBase, Filler)]
  IN  [i \in 1 .. (((Len(text) + padding) \div 5) * 4 - padding) |-> Spread(value, i, 4, ByteBase)]

\* samourai.ts:32-34: whatever the length, the bytes come back.
Z85Inverts ==
  \A n \in 0 .. 5 : \A bytes \in [1 .. n -> 0 .. ByteBase - 1] : Z85Decode(Z85Encode(bytes)) = bytes
=============================================================================

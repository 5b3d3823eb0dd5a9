-------------------------------- MODULE Wire --------------------------------
(***************************************************************************)
(* What an inbox entry proves (src/src/register.ts, channel.ts and         *)
(* samourai.ts), with ideal cryptography: a shared secret is the set of    *)
(* the two keys it is made of, a box or a MAC is good if it was made with  *)
(* the secret it is opened with and arrived undamaged, a signature is good *)
(* for the key and the message it was made for.                            *)
(*                                                                         *)
(* A result is a set: empty where the code returns null.                   *)
(***************************************************************************)
EXTENDS Integers

CONSTANTS
  Parties,     \* payment codes, each standing for its keys too
  Ephemeral,   \* a key drawn for one entry
  MaxSkew,     \* MAX_SKEW_MS
  MaxClock     \* bound: the latest time

ASSUME WireAssumption ==
  /\ Ephemeral \notin Parties
  /\ MaxSkew \in Nat /\ MaxClock \in Nat

Times == 0 .. MaxClock

\* buildRegisterEnvelope; version 1 did not name the receiver.
BuildRegisterEnvelope(sender, receiver, ts, version) ==
  [v |-> version, type |-> "paynym.register", paymentCode |-> sender, ts |-> ts,
   sig |-> [by |-> sender, receiver |-> IF version = 1 THEN Ephemeral ELSE receiver, sender |-> sender, ts |-> ts]]

\* Mutant: an envelope from the future is never too far off.
FreshOneSided(ts, now) == now - ts <= MaxSkew

Fresh(ts, now) == now - ts <= MaxSkew /\ ts - now <= MaxSkew

VerifyRegisterEnvelope(env, receiver, now) ==
  IF /\ env.type = "paynym.register" /\ env.v = 2
     /\ Fresh(env.ts, now)
     /\ env.sig = [by |-> env.paymentCode, receiver |-> receiver, sender |-> env.paymentCode, ts |-> env.ts]
  THEN {env.paymentCode} ELSE {}

\* sealToPaymentCode, sealSamourai: the plaintext of the second is any text.
Seal(form, sender, receiver, text) ==
  LET ours == IF form = "samourai" THEN sender ELSE Ephemeral
  IN  [form |-> form, sender |-> ours, secret |-> {ours, receiver}, text |-> text, intact |-> TRUE]

Damaged(entry) == [entry EXCEPT !.intact = FALSE]

\* openWithIdentityKey
OpenWithIdentityKey(me, entry) ==
  IF entry.form = "sealed" /\ entry.intact /\ entry.secret = {me, entry.sender} THEN {entry.text} ELSE {}

\* openSamourai: the sender it names, if the MAC is good.
OpenSamourai(me, entry) ==
  IF entry.form = "samourai" /\ entry.intact /\ entry.secret = {me, entry.sender} THEN {entry.sender} ELSE {}

\* The directory an entry for a receiver is posted to, and those poll drains.
InboxName(receiver, form) == <<receiver, IF form = "samourai" THEN "bare" ELSE "inbox">>
Inboxes(me) == {InboxName(me, "sealed"), InboxName(me, "samourai")}

\* Registrar.ingest
Ingest(me, entry, now) ==
  IF OpenSamourai(me, entry) # {} THEN OpenSamourai(me, entry)
  ELSE UNION {VerifyRegisterEnvelope(env, me, now) : env \in OpenWithIdentityKey(me, entry)}

\* register.ts:36-39, 404-416: an entry registers exactly the customer who made
\* it, for the one receiver they made it for: sealed to somebody else, naming
\* another receiver, of the first version, outside the six hours on either
\* side, or damaged, it registers nobody.  The Samourai form has no clock.
IngestExact ==
  \A sender \in Parties, named \in Parties, to \in Parties, me \in Parties, form \in {"sealed", "samourai"} :
    \A ts \in Times, now \in Times, version \in {1, 2} :
      LET entry == Seal(form, sender, to, BuildRegisterEnvelope(sender, named, ts, version))
          fresh == named = me /\ version = 2 /\ (IF now >= ts THEN now - ts ELSE ts - now) <= MaxSkew
      IN  /\ Ingest(me, entry, now) = (IF to = me /\ (form = "samourai" \/ fresh) THEN {sender} ELSE {})
          /\ Ingest(me, Damaged(entry), now) = {}
          /\ InboxName(to, form) \in Inboxes(me) <=> to = me
=============================================================================

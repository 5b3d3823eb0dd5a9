----------------------------- MODULE Algorithms -----------------------------
(***************************************************************************)
(* The parts of the code that decide without waiting, each against what it *)
(* promises: the loops of RegistryCheck, the derivation of addresses, the  *)
(* entries of an inbox, the text of a payload, the binding of a challenge, *)
(* the endpoints of an installation, and the bucket, which runs beside a   *)
(* registry that has nothing to do.                                        *)
(***************************************************************************)
EXTENDS RegistryCheck, Z85, Keys, Wire, Site, Endpoints, Bucket

MCDigest == [x \in 1 .. Order |-> CASE x = 1 -> 3 [] x = 2 -> 5 [] OTHER -> Order + 2]

Idle == start = [nextIndex |-> 0, usedAhead |-> {}, firstSeen |-> 0] /\ given = {}

AllInit == Init /\ BucketInit /\ (~Idle => last = 0)

AllNext ==
  \/ Next /\ UNCHANGED bucketVars
  \/ Idle /\ BucketNext /\ UNCHANGED vars

AllSpec == AllInit /\ [][AllNext]_<<vars, bucketVars>>

\* What follows is about every input and no state: it is asked once.
AtRest == Idle /\ calls = 0 /\ last = 0

\* Z85Inverts: the text of a payload gives its bytes back (samourai.ts).
TextGivesBytesBack == AtRest => Z85Inverts

\* BothSidesAgree: payer and receiver derive one address (bip47.ts, identity.ts).
DerivationAgrees == AtRest => BothSidesAgree

\* IngestExact: an entry is taken exactly when a client sealed it for us and,
\* where the form carries a time, in time (register.ts, channel.ts).
TakenAsSealed == AtRest => IngestExact

\* ChallengeComesBack: however the host is spelled (server.ts, auth47.ts).
LoginAnySpelling == AtRest => ChallengeComesBack

\* ServiceRunsWhereProbed: what the installer found is what the service talks
\* to (discover.ts, install.ts, config.ts).
RunsAsInstalled == AtRest => ServiceRunsWhereProbed
=============================================================================

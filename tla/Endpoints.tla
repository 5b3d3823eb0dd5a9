----------------------------- MODULE Endpoints -----------------------------
(***************************************************************************)
(* Where the services are: what an operator types, what discovery tries,   *)
(* what the installer writes into the unit and what the service makes of   *)
(* it (src/src/config.ts, src/src/discover.ts, src/scripts/install.ts).    *)
(* A host is named by its kind; port 0 is no port in the text.             *)
(***************************************************************************)
EXTENDS Integers, Sequences

CONSTANTS
  TypedPorts,  \* the ports an operator may type, 0 for none
  TypedPaths   \* ... and the paths of a URL

ASSUME EndpointAssumption == TypedPorts \subseteq 0 .. 65535

Hosts == {"loopback", "dojonet", "remote", "onion"}
IsOnion(host) == host = "onion"
IsLocalHost(host) == host \in {"loopback", "dojonet"}

ElectrumPort == 50001
SorobanPort == 4242

\* parseElectrumEndpoint, of an endpoint whose port is a port.
ParseElectrumEndpoint(typed) ==
  [host |-> typed.host, port |-> IF typed.port = 0 THEN ElectrumPort ELSE typed.port]

DefaultPort(scheme) == IF scheme = "https" THEN 443 ELSE 80

RpcPath(path) == IF path \in {"", "/"} THEN "/rpc" ELSE path

\* normaliseSorobanUrl: URL drops the default port of the scheme.
NormaliseSorobanUrl(typed) ==
  LET scheme == IF typed.scheme = "" THEN "http" ELSE typed.scheme
  IN  [scheme |-> scheme, host |-> typed.host,
       port |-> IF typed.port = DefaultPort(scheme) THEN 0 ELSE typed.port, path |-> RpcPath(typed.path)]

ProxyFor(host) == IsOnion(host)

Candidate(host, port) == [host |-> host, port |-> port, proxy |-> ProxyFor(host)]

\* explicitCandidate
ExplicitCandidate(host, port) == <<Candidate(host, port)>>

\* candidatesFor: the host, then the bridge and the container, if docker knows.
CandidatesFor(port, gateway, container) ==
  <<Candidate("loopback", port)>>
    \o (IF gateway THEN <<Candidate("dojonet", port)>> ELSE <<>>)
    \o (IF container THEN <<Candidate("dojonet", port)>> ELSE <<>>)

\* probeElectrum, probeSoroban: the first candidate that answers, if one does.
Probe(candidates, hostsUp) ==
  LET up == {i \in DOMAIN candidates : candidates[i].host \in hostsUp}
  IN  IF up = {} THEN <<>> ELSE <<candidates[CHOOSE i \in up : \A j \in up : i <= j]>>

\* sorobanUrlFor
SorobanUrlFor(c) == [scheme |-> "http", host |-> c.host, port |-> IF c.port = 80 THEN 0 ELSE c.port, path |-> "/rpc"]

\* What a transport for the URL talks to: over Tor it is plain HTTP, port 80 if
\* the URL names none; fetch goes by the scheme.
Reached(url) ==
  LET scheme == IF ProxyFor(url.host) THEN "http" ELSE url.scheme
  IN  <<scheme, url.host, IF url.port = 0 THEN DefaultPort(scheme) ELSE url.port, url.path>>

\* assertIndexerAllowed
IndexerAllowed(network, host, allowed) == network # "mainnet" \/ IsLocalHost(host) \/ allowed

-----------------------------------------------------------------------------
(* The installer's answers q: network, allow (PAYNYM_BOT_ALLOW_REMOTE_     *)
(* INDEXER), remote, the typed electrum and soroban endpoints, and what    *)
(* docker shows.                                                           *)

ElectrumCandidates(q) ==
  IF q.remote THEN LET e == ParseElectrumEndpoint(q.electrum) IN ExplicitCandidate(e.host, e.port)
  ELSE CandidatesFor(ElectrumPort, q.gateway, q.container)

SorobanCandidates(q) ==
  IF q.remote
  THEN LET url == NormaliseSorobanUrl(q.soroban) IN ExplicitCandidate(url.host, IF url.port = 0 THEN 80 ELSE url.port)
  ELSE CandidatesFor(SorobanPort, q.gateway, q.container)

\* Mutant: the unit never allows a remote indexer.
UnitForbidding(q, indexer, soroban) ==
  [soroban |-> IF q.remote THEN NormaliseSorobanUrl(q.soroban) ELSE SorobanUrlFor(soroban),
   electrum |-> [host |-> indexer.host, port |-> indexer.port], allow |-> FALSE]

\* The environment in the unit.
Unit(q, indexer, soroban) ==
  [soroban |-> IF q.remote THEN NormaliseSorobanUrl(q.soroban) ELSE SorobanUrlFor(soroban),
   electrum |-> [host |-> indexer.host, port |-> indexer.port], allow |-> q.allow]

\* loadConfig: both endpoints are parsed again.
LoadConfig(unit) ==
  [soroban |-> NormaliseSorobanUrl(unit.soroban), electrum |-> ParseElectrumEndpoint(unit.electrum),
   allow |-> unit.allow]

\* What the doctor command probes: the endpoints the environment names, or any
\* onion; for the others it looks around as the installer does.
DoctorElectrum(named, config, q) ==
  IF named \/ IsOnion(config.electrum.host) THEN ExplicitCandidate(config.electrum.host, config.electrum.port)
  ELSE CandidatesFor(ElectrumPort, q.gateway, q.container)

DoctorSoroban(named, config, q) ==
  LET url == config.soroban
  IN  IF named \/ IsOnion(url.host) THEN ExplicitCandidate(url.host, IF url.port = 0 THEN 80 ELSE url.port)
      ELSE CandidatesFor(SorobanPort, q.gateway, q.container)

\* A plain URL of the kind a Dojo publishes.
Plain(typed) == typed.scheme # "https" /\ typed.path \in {"", "/", "/rpc"}

\* Whoever has a remote Dojo is asked for the endpoints, docker for the others.
AskedFor ==
  [network : {"mainnet", "testnet"}, allow : BOOLEAN, remote : {TRUE}, gateway : {FALSE}, container : {FALSE},
   electrum : [host : Hosts, port : TypedPorts],
   soroban : [scheme : {"", "http", "https"}, host : Hosts, port : TypedPorts, path : TypedPaths]]

Discovered ==
  [network : {"mainnet", "testnet"}, allow : BOOLEAN, remote : {FALSE}, gateway : BOOLEAN, container : BOOLEAN]

\* install.ts:275-276, 309-310 and bin/paynym-bot.ts:376-377: the service uses
\* the indexer and, given a plain URL, the Soroban node that the installer has
\* probed, over Tor exactly if the probe was; an indexer the installer admits
\* is one the service starts with; a path that is typed is kept; and the
\* doctor, in the environment of the service, asks where the service will.
ServiceRunsWhereProbed ==
  \A q \in AskedFor \cup Discovered :
    \A up \in {Hosts, {"dojonet"}, {"loopback"}} :
      LET e == Probe(ElectrumCandidates(q), up)
          s == Probe(SorobanCandidates(q), up)
      IN  e # <<>> /\ s # <<>> /\ IndexerAllowed(q.network, e[1].host, q.allow) =>
            LET config == LoadConfig(Unit(q, e[1], s[1]))
            IN  /\ Candidate(config.electrum.host, config.electrum.port) = e[1]
                /\ IndexerAllowed(q.network, config.electrum.host, config.allow)
                /\ (q.remote => Plain(q.soroban)) => Reached(config.soroban) = Reached(SorobanUrlFor(s[1]))
                /\ (q.remote /\ q.soroban.path \notin {"", "/"}) => config.soroban.path = q.soroban.path
                /\ DoctorElectrum(TRUE, config, q) = e
                /\ (q.remote => Plain(q.soroban)) =>
                     Reached(SorobanUrlFor(DoctorSoroban(TRUE, config, q)[1])) = Reached(config.soroban)
=============================================================================

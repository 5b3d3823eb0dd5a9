-------------------------------- MODULE Host --------------------------------
(***************************************************************************)
(* One machine: the data directory, torrc and the systemd unit, and the    *)
(* programs that write them beside each other: install.ts, uninstall.ts,   *)
(* the init command, and the service, which reads the data directory when  *)
(* it starts and rewrites state.json from what it read then.               *)
(*                                                                         *)
(* A command may stop before each of its steps: it is interrupted, killed, *)
(* or a system command it runs fails, which makes it die.  A read of       *)
(* state.json and the write that follows in the same turn are one step.    *)
(***************************************************************************)
EXTENDS Torrc

CONSTANTS
  Phrases,      \* recovery phrases
  Passwords,    \* BIP39 passphrases, NoPassword for none
  NoPassword,
  Networks,
  Customers,
  Torrcs,       \* what torrc may hold at first
  Added,        \* lines other operators may add to it
  Forces,       \* whether --force is ever passed: a subset of BOOLEAN
  MaxCommands,  \* bound: commands in a behaviour
  MaxEdits      \* bound: edits of torrc and of state.json by hand

None == "none"
NoState == [network |-> None, onion |-> 0, paynym |-> None, senders |-> {}]
NoCommand == [name |-> None, at |-> None, phrase |-> None, password |-> NoPassword, network |-> None, purge |-> {}]
Stopped == [on |-> FALSE, read |-> NoState, wallet |-> <<None, NoPassword, None>>, senders |-> {}]

Onions == 1 .. MaxCommands + MaxEdits
Wallets == Phrases \X Passwords \X Networks
CodesOf == Phrases \X Passwords

ASSUME HostAssumption ==
  /\ Phrases \subseteq STRING /\ None \notin Phrases
  /\ NoPassword \in Passwords
  /\ Networks \subseteq {"mainnet", "testnet"}
  /\ Added \subseteq STRING /\ \A l \in Added : Foreign(l)
  /\ Forces \subseteq BOOLEAN
  /\ MaxCommands \in Nat /\ MaxEdits \in Nat

\* torrc is found with our service declared once at most, and a block whose
\* markers balance was written by mergeTorrc.
ASSUME TorrcsAssumption ==
  \A f \in Torrcs :
    /\ f \in Seq(STRING) /\ Count(OwnDir, f) <= 1
    /\ Count(Begin, f) = Count(End, f) => Tidy(f)

VARIABLES
  seed, password, state,   \* the files of the data directory, None / NoState if absent
  torrc,
  onion,                   \* the hostname tor wrote beside its key, 0 if none
  unit,                    \* the unit: "none", "written" or "enabled"
  shim,                    \* /usr/local/bin/paynym-bot: "none", "ours" or "theirs"
  service,                 \* the running service and what it read when it started
  command,                 \* the command at the terminal and its next step
  commands, edits,         \* bounds
  minted,                  \* the onions tor has made
  directory,               \* paynym.rs: what it knows of the code of <<phrase, password>>
  theirs,                  \* history: what others have written in torrc, in order
  told,                    \* history: the PayNyms a customer was registered with
  recorded,                \* history: the onion and the paynym last recorded
  raced,                   \* history: a service that had read the file before ran on
  abandoned                \* history: --force has overwritten, or --purge-data was asked for

files == <<seed, password, state>>
tor == <<torrc, onion, minted, directory>>
system == <<unit, shim>>
history == <<theirs, told, recorded, raced, abandoned>>
vars == <<files, tor, system, service, command, commands, edits, history>>

States ==
  [network : Networks \cup {None}, onion : {0} \cup Onions, paynym : {None, "claimed", "pending"},
   senders : SUBSET Customers]

HostTypeOK ==
  /\ seed \in Phrases \cup {None} /\ password \in Passwords
  /\ state \in States /\ (state.network = None => state = NoState)
  /\ torrc \in Seq(STRING)
  /\ onion \in {0} \cup Onions /\ minted \in {0} \cup Onions
  /\ directory \in [CodesOf -> {None, "created", "claimed"}]
  /\ unit \in {"none", "written", "enabled"} /\ shim \in {"none", "ours", "theirs"}
  /\ service.on \in BOOLEAN /\ service.read \in States /\ service.senders \subseteq Customers
  /\ service.on => service.wallet \in Wallets
  /\ command.name \in {None, "install", "init", "uninstall"}
  /\ commands \in 0 .. MaxCommands /\ edits \in 0 .. MaxEdits
  /\ told \in [Customers -> SUBSET Wallets]
  /\ recorded \in [onion : {0} \cup Onions, paynym : {None, "claimed", "pending"}]
  /\ raced \in BOOLEAN /\ abandoned \in BOOLEAN

NothingRecorded == [onion |-> 0, paynym |-> None]

Init ==
  /\ seed = None /\ password = NoPassword /\ state = NoState
  /\ torrc \in Torrcs
  /\ onion = 0 /\ minted = 0 /\ directory = [k \in CodesOf |-> None] /\ unit = "none" /\ shim \in {"none", "theirs"}
  /\ service = Stopped /\ command = NoCommand
  /\ commands = 0 /\ edits = 0
  /\ theirs = Theirs(torrc)
  /\ told = [c \in Customers |-> {}]
  /\ recorded = NothingRecorded /\ raced = FALSE /\ abandoned = FALSE

-----------------------------------------------------------------------------
(* A command.  At(name, step): it is about to take that step.              *)

At(name, step) == command.name = name /\ command.at = step
Goto(step) == command' = [command EXCEPT !.at = step]
Done == command' = NoCommand

Begins(name, step, ph, pw, nw, purge) ==
  /\ command = NoCommand
  /\ commands < MaxCommands
  /\ commands' = commands + 1
  /\ command' = [name |-> name, at |-> step, phrase |-> ph, password |-> pw, network |-> nw, purge |-> purge]

\* It is interrupted, or dies with the step that fails.
Dies ==
  /\ command # NoCommand
  /\ Done
  /\ UNCHANGED <<files, tor, system, service, commands, edits, history>>

\* Mutant: an existing state file is overwritten.
MayWriteUnasked(force) == TRUE

\* install.ts and init refuse to replace a state file unless forced.
MayWrite(force) == state = NoState \/ force

BeginInstall(ph, pw, nw, force) ==
  /\ MayWrite(force)
  /\ Begins("install", "dojo", ph, pw, nw, {})
  /\ abandoned' = (abandoned \/ (force /\ state # NoState))
  /\ UNCHANGED <<files, tor, system, service, edits, theirs, told, recorded, raced>>

BeginInit(ph, pw, nw, force) ==
  /\ MayWrite(force)
  /\ Begins("init", "seed", ph, pw, nw, {})
  /\ abandoned' = (abandoned \/ (force /\ state # NoState))
  /\ UNCHANGED <<files, tor, system, service, edits, theirs, told, recorded, raced>>

\* The Dojo's services answer, the indexer is allowed on this network, and the
\* account, the application and the data directory are in place.
DojoFound ==
  /\ At("install", "dojo")
  /\ Goto("seed")
  /\ UNCHANGED <<files, tor, system, service, commands, edits, history>>

WriteSeed ==
  /\ command.at = "seed"
  /\ seed' = command.phrase
  /\ Goto("state")
  /\ UNCHANGED <<password, state, tor, system, service, commands, edits, history>>

\* What a service that runs would write over.
Races == raced \/ service.on

\* newState: neither onion nor paynym, no customers.
WriteState ==
  /\ command.at = "state"
  /\ state' = [NoState EXCEPT !.network = command.network]
  /\ recorded' = NothingRecorded
  /\ IF command.name = "install" THEN Goto("password")
     ELSE IF command.network = "mainnet" THEN Goto("create") ELSE Done
  /\ raced' = Races
  /\ UNCHANGED <<seed, password, tor, system, service, commands, edits, theirs, told, abandoned>>

\* A passphrase file of an earlier install is left where it is.
WritePassword ==
  /\ At("install", "password")
  /\ password' = IF command.password # NoPassword THEN command.password ELSE password
  /\ Goto("torrc")
  /\ UNCHANGED <<seed, state, tor, system, service, commands, edits, history>>

\* Otherwise mergeTorrc throws and the installer dies.
WriteTorrc ==
  /\ At("install", "torrc")
  /\ MayMerge(torrc)
  /\ torrc' = MergeTorrc(torrc)
  /\ Goto("hostname")
  /\ UNCHANGED <<files, onion, minted, directory, system, service, commands, edits, history>>

\* Tor has written the hostname within the 30 seconds.
RecordOnion ==
  /\ At("install", "hostname") /\ onion # 0 /\ state # NoState
  /\ state' = [state EXCEPT !.onion = onion]
  /\ recorded' = [recorded EXCEPT !.onion = onion]
  /\ raced' = Races
  /\ Goto("unit")
  /\ UNCHANGED <<seed, password, tor, system, service, commands, edits, theirs, told, abandoned>>

\* It has not, and scan-to-pay stays disabled.
OnionPending ==
  /\ At("install", "hostname") /\ onion = 0
  /\ Goto("unit")
  /\ UNCHANGED <<files, tor, system, service, commands, edits, history>>

WriteUnit ==
  /\ At("install", "unit")
  /\ unit' = IF unit = "none" THEN "written" ELSE unit
  /\ Goto("shim")
  /\ UNCHANGED <<files, tor, shim, service, commands, edits, history>>

WriteShim ==
  /\ At("install", "shim")
  /\ shim' = IF shim = "theirs" THEN shim ELSE "ours"
  /\ Goto("enable")
  /\ UNCHANGED <<files, tor, unit, service, commands, edits, history>>

\* enable --now starts the service unless it runs; see StartService.
EnableUnit ==
  /\ At("install", "enable")
  /\ unit' = "enabled"
  /\ Done
  /\ UNCHANGED <<files, tor, shim, service, commands, edits, history>>

\* registerWithPaynymRs, for init on mainnet.  A request that fails or times
\* out throws and nothing is recorded; the directory may have taken it.
Code == <<command.phrase, command.password>>

Taken(knows) == directory' = [directory EXCEPT ![Code] = IF @ = "claimed" THEN @ ELSE knows]

\* A refusal throws as well - except over Tor, where postOverTor reads no
\* status and returns the refusal's body, which has none of the fields.
RefusalReturned == UNCHANGED directory

\* POST /create; the answer is only used for its names.
PostCreate ==
  /\ At("init", "create")
  /\ Taken("created") \/ RefusalReturned
  /\ Goto("token")
  /\ UNCHANGED <<files, torrc, onion, minted, system, service, commands, edits, history>>

\* POST /token: a body without a token throws.
PostToken ==
  /\ At("init", "token")
  /\ IF directory[Code] # None THEN Goto("claim") ELSE Done
  /\ UNCHANGED <<files, tor, system, service, commands, edits, history>>

AnswerLost ==
  /\ \/ At("init", "create") /\ Taken("created")
     \/ At("init", "claim") /\ Taken("claimed")
  /\ Done
  /\ UNCHANGED <<files, torrc, onion, minted, system, service, commands, edits, history>>

\* POST /claim, and what it answers is recorded beside what the file holds.
RecordPaynym ==
  /\ At("init", "claim") /\ state # NoState
  /\ \E answer \in {"claimed", "pending"} :
       /\ IF answer = "claimed" THEN Taken("claimed") ELSE RefusalReturned
       /\ state' = [state EXCEPT !.paynym = answer]
       /\ recorded' = [recorded EXCEPT !.paynym = answer]
  /\ raced' = Races
  /\ Done
  /\ UNCHANGED <<seed, password, torrc, onion, minted, system, service, commands, edits, theirs, told, abandoned>>

-----------------------------------------------------------------------------
(* uninstall.ts --apply: a step that fails is reported and passed over.    *)

BeginUninstall(purge) ==
  /\ Begins("uninstall", IF unit = "none" THEN "shim" ELSE "stop", None, NoPassword, None, purge)
  /\ abandoned' = (abandoned \/ "data" \in purge)
  /\ UNCHANGED <<files, tor, system, service, edits, theirs, told, recorded, raced>>

StopUnit ==
  /\ At("uninstall", "stop")
  /\ \/ service' = Stopped /\ unit' = "written"
     \/ UNCHANGED <<service, unit>>
  /\ Goto("unit")
  /\ UNCHANGED <<files, tor, shim, commands, edits, history>>

RemoveUnit ==
  /\ At("uninstall", "unit")
  /\ unit' = "none"
  /\ Goto("shim")
  /\ UNCHANGED <<files, tor, shim, service, commands, edits, history>>

RemoveShim ==
  /\ At("uninstall", "shim")
  /\ shim' = IF shim = "ours" THEN "none" ELSE shim
  /\ Goto("torrc")
  /\ UNCHANGED <<files, tor, unit, service, commands, edits, history>>

\* removeBlock is called outside act: if it throws, the uninstaller ends.
CleanTorrc ==
  /\ At("uninstall", "torrc")
  /\ Balanced(torrc)
  /\ torrc' = IF Content(RemoveBlock(torrc)) = Content(torrc) THEN torrc ELSE RemoveBlock(torrc)
  /\ Goto("purge")
  /\ UNCHANGED <<files, onion, minted, directory, system, service, commands, edits, history>>

PurgeOnion ==
  /\ At("uninstall", "purge") /\ "onion" \in command.purge
  /\ onion' = 0
  /\ command' = [command EXCEPT !.purge = @ \ {"onion"}]
  /\ UNCHANGED <<files, torrc, minted, directory, system, service, commands, edits, history>>

\* The files of the directory go one by one, in no particular order.
PurgeFile ==
  /\ At("uninstall", "purge") /\ command.purge = {"data"}
  /\ \/ seed # None /\ seed' = None /\ UNCHANGED <<password, state>>
     \/ password # NoPassword /\ password' = NoPassword /\ UNCHANGED <<seed, state>>
     \/ state # NoState /\ state' = NoState /\ UNCHANGED <<seed, password>>
  /\ raced' = Races
  /\ UNCHANGED <<tor, system, service, command, commands, edits, theirs, told, recorded, abandoned>>

UninstallDone ==
  /\ At("uninstall", "purge")
  /\ command.purge = {} \/ (command.purge = {"data"} /\ state = NoState /\ seed = None /\ password = NoPassword)
  /\ Done
  /\ UNCHANGED <<files, tor, system, service, commands, edits, history>>

-----------------------------------------------------------------------------
(* The service.                                                            *)

\* Mutant: the seed is not looked for.
LoadableUnchecked == state # NoState

\* loadState, and loadSeed with the passphrase beside the phrase: without
\* either file the command dies.
StateLoads == state # NoState
SeedLoads == seed # None

Loadable == StateLoads /\ SeedLoads

\* systemd starts an enabled unit; without one the operator does, by hand.
StartService ==
  /\ ~service.on
  /\ unit = "enabled" \/ command = NoCommand
  /\ Loadable
  /\ service' = [on |-> TRUE, read |-> state, wallet |-> <<seed, password, state.network>>, senders |-> state.senders]
  /\ UNCHANGED <<files, tor, system, command, commands, edits, history>>

\* Mutant: the state is rebuilt rather than spread.
PersistAnew(senders) ==
  state' = [NoState EXCEPT !.network = service.read.network, !.senders = senders]

\* persist: what was read at the start, with the senders of now.
Persist(senders) == state' = [service.read EXCEPT !.senders = senders]

Register(c) ==
  /\ service.on
  /\ c \notin service.senders
  /\ service' = [service EXCEPT !.senders = @ \cup {c}]
  /\ Persist(service.senders \cup {c})
  /\ told' = [told EXCEPT ![c] = @ \cup {service.wallet}]
  /\ UNCHANGED <<seed, password, tor, system, command, commands, edits, theirs, recorded, raced, abandoned>>

StopService ==
  /\ service.on
  /\ service' = Stopped
  /\ UNCHANGED <<files, tor, system, command, commands, edits, history>>

-----------------------------------------------------------------------------
(* Tor and the operators.                                                  *)

\* Tor makes a key for a service it has none for, and writes its hostname.
TorPublishes ==
  /\ \E i \in DOMAIN torrc : torrc[i] = OwnDir
  /\ onion = 0 /\ minted < MaxCommands
  /\ onion' = minted + 1 /\ minted' = minted + 1
  /\ UNCHANGED <<files, torrc, directory, system, service, command, commands, edits, history>>

\* The "onion" field is set in state.json by hand, as announceOnion suggests.
EditOnion ==
  /\ command = NoCommand
  /\ edits < MaxEdits /\ edits' = edits + 1
  /\ state # NoState
  /\ \E o \in Onions \ {state.onion} :
       state' = [state EXCEPT !.onion = o] /\ recorded' = [recorded EXCEPT !.onion = o]
  /\ raced' = Races
  /\ UNCHANGED <<seed, password, tor, system, service, command, commands, theirs, told, abandoned>>

\* Another operator appends a service of theirs.
EditTorrc ==
  /\ edits < MaxEdits /\ edits' = edits + 1
  /\ \E l \in Added :
       /\ torrc' = torrc \o <<l, Empty>>
       /\ theirs' = Append(theirs, l)
  /\ UNCHANGED <<files, onion, minted, directory, system, service, command, commands, told, recorded, raced, abandoned>>

-----------------------------------------------------------------------------
Overwrite ==
  \E ph \in Phrases, pw \in Passwords, nw \in Networks, force \in Forces :
    BeginInstall(ph, pw, nw, force) \/ BeginInit(ph, pw, nw, force)

CommandStep ==
  \/ DojoFound \/ WriteSeed \/ WriteState \/ WritePassword
  \/ WriteTorrc \/ RecordOnion \/ OnionPending \/ WriteUnit \/ WriteShim \/ EnableUnit
  \/ PostCreate \/ PostToken \/ AnswerLost \/ RecordPaynym
  \/ StopUnit \/ RemoveUnit \/ RemoveShim \/ CleanTorrc \/ PurgeOnion \/ PurgeFile \/ UninstallDone

Next ==
  \/ Overwrite
  \/ \E purge \in SUBSET {"onion", "data"} : BeginUninstall(purge)
  \/ CommandStep \/ Dies
  \/ StartService \/ StopService \/ \E c \in Customers : Register(c)
  \/ TorPublishes \/ EditOnion \/ EditTorrc

Spec == Init /\ [][Next]_vars

-----------------------------------------------------------------------------
\* state.ts:3-8, bin/paynym-bot.ts:220-221: a customer the shop has registered
\* is in the state file, and the files beside it derive the very PayNym they
\* were registered with - wherever a command was interrupted and however often
\* the service was restarted, until an operator forces or purges.
CustomersKeepTheirWallet ==
  ~abandoned =>
    /\ state # NoState => seed # None
    /\ \A c \in Customers : told[c] # {} =>
         c \in state.senders /\ told[c] = {<<seed, password, state.network>>}

\* bin/paynym-bot.ts:313: what is recorded in the state file beside the
\* customers stays recorded - unless a service that has read the file before
\* is left running, whose next write takes it back; and (paynymrs.ts:187) a
\* claim is recorded only if the directory has granted it to this phrase.
RecordedStays ==
  /\ ~raced /\ state # NoState => recorded = [onion |-> state.onion, paynym |-> state.paynym]
  /\ ~abandoned /\ state.paynym = "claimed" => \E pw \in Passwords : directory[<<seed, pw>>] = "claimed"

\* torrc.ts:3-8: no line of anybody else is lost, doubled or moved, and the
\* service is never declared twice.
OthersServicesKept == Theirs(torrc) = theirs /\ Count(OwnDir, torrc) <= 1
=============================================================================

----------------------------- MODULE HostProofs -----------------------------
(***************************************************************************)
(* One machine under any commands, any interruptions of them, any edits of *)
(* torrc and any restarts of the service.                                  *)
(***************************************************************************)
EXTENDS Host, FiniteSetTheorems, SequenceTheorems, TLAPS

\* The steps of install.ts and init before the state file is written, and
\* those of the installer behind it.
Early == {"dojo", "seed", "state"}
Late == {"password", "torrc", "hostname", "unit", "shim", "enable"}
OfInit == {"create", "token", "claim"}
OfUninstall == {"stop", "unit", "shim", "torrc", "purge"}

StepsOf(name) ==
  CASE name = "install"   -> Early \cup Late
    [] name = "init"      -> (Early \ {"dojo"}) \cup OfInit
    [] name = "uninstall" -> OfUninstall
    [] OTHER              -> {None}

\* The command at the terminal: what it was given, and which steps it has.
CommandType ==
  /\ command \in
       [name : {None, "install", "init", "uninstall"},
        at : {None} \cup Early \cup Late \cup OfInit \cup OfUninstall,
        phrase : Phrases \cup {None}, password : Passwords, network : Networks \cup {None},
        purge : SUBSET {"onion", "data"}]
  /\ command.name = None => command = NoCommand
  /\ command.name \in {"install", "init"} =>
       command.phrase \in Phrases /\ command.network \in Networks /\ command.purge = {}
  /\ command.at \in StepsOf(command.name)

CommandInv ==
  /\ CommandType
  /\ command.at \in {"state"} \cup OfInit => seed = command.phrase
  /\ "data" \in command.purge => abandoned

ServiceInv ==
  /\ service \in [on : BOOLEAN, read : States, wallet : Wallets \cup {<<None, NoPassword, None>>},
                   senders : SUBSET Customers]
  /\ service.on => service.wallet \in Wallets /\ service.read.network = service.wallet[3]

\* Before the state file there is nothing to lose; once it is there, the
\* files beside it stay what they are.
Unused == ~service.on /\ unit # "enabled" /\ \A c \in Customers : told[c] = {}

OrderInv ==
  /\ state = NoState => Unused
  /\ state # NoState => seed # None
  /\ command.at \in Early => state = NoState
  /\ command.name = "install" /\ command.at \in Late => state # NoState
  /\ At("install", "password") => Unused

WalletInv ==
  /\ service.on => service.wallet = <<seed, password, state.network>>
  /\ \A c \in Customers : told[c] # {} =>
       /\ c \in state.senders /\ told[c] = {<<seed, password, state.network>>}
       /\ service.on => c \in service.senders

KeptInv == ~abandoned => OrderInv /\ WalletInv

\* What the service would write back is what was recorded last.
RecordInv ==
  ~raced =>
    /\ state # NoState => recorded = [onion |-> state.onion, paynym |-> state.paynym]
    /\ service.on => recorded = [onion |-> service.read.onion, paynym |-> service.read.paynym]

\* A claim that is recorded, or would be again, was granted to the phrase.
Granted == \E pw \in Passwords : directory[<<seed, pw>>] = "claimed"
ClaimInv ==
  ~abandoned /\ (state.paynym = "claimed" \/ (service.on /\ service.read.paynym = "claimed")) => Granted

\* torrc: their lines, our service once at most, and a block that is only ours.
TorrcInv ==
  /\ torrc \in Seq(STRING) /\ Theirs(torrc) = theirs /\ Count(OwnDir, torrc) <= 1
  /\ Balanced(torrc) => Tidy(torrc)

FilesInv == CommandInv /\ ServiceInv /\ KeptInv /\ RecordInv /\ ClaimInv

-----------------------------------------------------------------------------
\* A command that takes its next step.
LEMMA CommandGoes ==
  ASSUME CommandInv, command # NoCommand, NEW s \in StepsOf(command.name),
         NEW purge \in SUBSET command.purge,
         command' = [command EXCEPT !.at = s, !.purge = purge],
         s \in {"state"} \cup OfInit => seed' = command.phrase,
         abandoned => abandoned'
  PROVE  CommandInv'
<1>1. command.name \in {"install", "init", "uninstall"} /\ CommandType
  BY DEF CommandInv, CommandType
<1>2. s \in Early \cup Late \cup OfInit \cup OfUninstall
  BY <1>1 DEF StepsOf
<1>3. CommandType'
  BY <1>1, <1>2 DEF CommandType
<1>4. QED BY <1>1, <1>3 DEF CommandInv, CommandType

\* One that ends.
LEMMA CommandEnds ==
  ASSUME command' = NoCommand
  PROVE  CommandInv'
<1>1. NoPassword \in Passwords
  BY HostAssumption
<1>2. QED BY <1>1 DEF CommandInv, CommandType, NoCommand, StepsOf, None, OfInit

\* One that begins, with what it was asked or has read.
LEMMA CommandBegins ==
  ASSUME NEW name \in {"install", "init", "uninstall"}, NEW s \in StepsOf(name) \ ({"state"} \cup OfInit),
         NEW ph \in Phrases \cup {None}, NEW pw \in Passwords, NEW nw \in Networks \cup {None},
         NEW purge \in SUBSET {"onion", "data"},
         command' = [name |-> name, at |-> s, phrase |-> ph, password |-> pw, network |-> nw, purge |-> purge],
         name # "uninstall" => ph \in Phrases /\ nw \in Networks /\ purge = {},
         "data" \in purge => abandoned'
  PROVE  CommandInv'
<1>1. s \in Early \cup Late \cup OfInit \cup OfUninstall
  BY DEF StepsOf
<1>2. CommandType'
  BY <1>1 DEF CommandType, None
<1>3. QED BY <1>1, <1>2 DEF CommandInv

\* Once forced or purged, it stays so.
LEMMA AbandonedStays ==
  ASSUME [Next]_vars, abandoned
  PROVE  abandoned'
<1>1. CASE UNCHANGED vars
  BY <1>1 DEF vars, history
<1>2. CASE Overwrite
  BY <1>2 DEF Overwrite, BeginInstall, BeginInit
<1>3. CASE \E purge \in SUBSET {"onion", "data"} : BeginUninstall(purge)
  BY <1>3 DEF BeginUninstall
<1>4. CASE CommandStep
  BY <1>4 DEF CommandStep, history,
     DojoFound, WriteSeed, WriteState, WritePassword, WriteTorrc, RecordOnion, OnionPending,
     WriteUnit, WriteShim, EnableUnit, PostCreate, PostToken, AnswerLost, RecordPaynym,
     StopUnit, RemoveUnit, RemoveShim, CleanTorrc, PurgeOnion, PurgeFile, UninstallDone
<1>5. CASE Dies \/ StartService \/ StopService \/ (\E c \in Customers : Register(c)) \/ TorPublishes \/ EditOnion \/ EditTorrc
  BY <1>5 DEF Dies, StartService, StopService, Register, TorPublishes, EditOnion, EditTorrc, history
<1>6. QED BY <1>1, <1>2, <1>3, <1>4, <1>5 DEF Next

\* Every step keeps what is known of the command.
LEMMA CommandKeeps ==
  ASSUME HostTypeOK, CommandInv, [Next]_vars
  PROVE  CommandInv'
<1> USE DEF At, Goto, Done
<1>0. CommandType /\ NoPassword \in Passwords
  BY HostAssumption DEF CommandInv
<1>a. abandoned => abandoned'
  BY AbandonedStays
<1>1. CASE UNCHANGED vars
  BY <1>1 DEF vars, files, history, CommandInv, CommandType
<1>2. ASSUME NEW ph \in Phrases, NEW pw \in Passwords, NEW nw \in Networks, NEW force \in Forces,
             BeginInstall(ph, pw, nw, force) \/ BeginInit(ph, pw, nw, force)
      PROVE  CommandInv'
  <2>1. CASE BeginInstall(ph, pw, nw, force)
    <3>1. command' = [name |-> "install", at |-> "dojo", phrase |-> ph, password |-> pw, network |-> nw, purge |-> {}]
      BY <2>1 DEF BeginInstall, Begins
    <3>2. "dojo" \in StepsOf("install") \ ({"state"} \cup OfInit)
      BY DEF StepsOf, Early, OfInit
    <3>3. QED BY <3>1, <3>2, CommandBegins
  <2>2. CASE BeginInit(ph, pw, nw, force)
    <3>1. command' = [name |-> "init", at |-> "seed", phrase |-> ph, password |-> pw, network |-> nw, purge |-> {}]
      BY <2>2 DEF BeginInit, Begins
    <3>2. "seed" \in StepsOf("init") \ ({"state"} \cup OfInit)
      BY DEF StepsOf, Early, OfInit
    <3>3. QED BY <3>1, <3>2, CommandBegins
  <2>3. QED BY <1>2, <2>1, <2>2
<1>3. ASSUME NEW purge \in SUBSET {"onion", "data"}, BeginUninstall(purge)
      PROVE  CommandInv'
  <2>1. PICK s \in {"shim", "stop"} :
          command' = [name |-> "uninstall", at |-> s, phrase |-> None, password |-> NoPassword, network |-> None, purge |-> purge]
    BY <1>3 DEF BeginUninstall, Begins
  <2>2. s \in StepsOf("uninstall") \ ({"state"} \cup OfInit)
    BY DEF StepsOf, OfUninstall, OfInit
  <2>3. "data" \in purge => abandoned'
    BY <1>3 DEF BeginUninstall
  <2>4. QED BY <1>0, <2>1, <2>2, <2>3, CommandBegins
<1>4. CASE Dies \/ EnableUnit \/ AnswerLost \/ RecordPaynym \/ UninstallDone
  BY <1>4, CommandEnds DEF Dies, EnableUnit, AnswerLost, RecordPaynym, UninstallDone
\* A step of a command that goes on.
<1>g. ASSUME command # NoCommand, NEW s \in StepsOf(command.name), command' = [command EXCEPT !.at = s],
             s \in {"state"} \cup OfInit => seed' = command.phrase
      PROVE  CommandInv'
  <2>1. command' = [command EXCEPT !.at = s, !.purge = command.purge]
    BY <1>0, <1>g DEF CommandType
  <2>2. command.purge \in SUBSET command.purge
    OBVIOUS
  <2>3. QED BY <1>a, <1>g, <2>1, <2>2, CommandGoes
<1>s. \A n \in {"install", "init", "uninstall"} : command.name = n => command # NoCommand
  BY DEF NoCommand, None
<1>5. CASE DojoFound
  BY <1>5, <1>g, <1>s DEF DojoFound, StepsOf, Early, OfInit
<1>6. CASE WriteSeed
  <2>1. command.at = "seed" /\ seed' = command.phrase /\ command' = [command EXCEPT !.at = "state"]
    BY <1>6 DEF WriteSeed
  <2>2. command # NoCommand /\ "state" \in StepsOf(command.name)
    BY <1>0, <2>1 DEF CommandType, NoCommand, None, StepsOf, Early, OfUninstall
  <2>3. QED BY <1>g, <2>1, <2>2
<1>7. CASE WriteState
  <2>1. command.at = "state" /\ seed' = seed /\ seed = command.phrase
    BY <1>7 DEF WriteState, CommandInv
  <2>2. command # NoCommand /\ command.name \in {"install", "init"}
    BY <1>0, <2>1 DEF CommandType, NoCommand, None, StepsOf, OfUninstall
  <2>3. CASE command.name = "install"
    BY <1>7, <1>g, <2>1, <2>2, <2>3 DEF WriteState, StepsOf, Late, OfInit
  <2>4. CASE command.name = "init" /\ command.network = "mainnet"
    BY <1>7, <1>g, <2>1, <2>2, <2>4 DEF WriteState, StepsOf, OfInit
  <2>5. CASE command.name = "init" /\ command.network # "mainnet"
    BY <1>7, <2>5, CommandEnds DEF WriteState
  <2>6. QED BY <2>2, <2>3, <2>4, <2>5
<1>8. CASE WritePassword \/ WriteTorrc \/ RecordOnion \/ OnionPending \/ WriteUnit \/ WriteShim
  <2>1. command.name = "install" /\ \E s \in Late : command' = [command EXCEPT !.at = s]
    BY <1>8 DEF WritePassword, WriteTorrc, RecordOnion, OnionPending, WriteUnit, WriteShim, Late
  <2>2. Late \subseteq StepsOf("install") /\ \A s \in Late : s \notin {"state"} \cup OfInit
    BY DEF Late, StepsOf, OfInit
  <2>3. QED BY <1>g, <1>s, <2>1, <2>2
<1>9. CASE PostCreate \/ PostToken
  <2>1. command.name = "init" /\ command.at \in OfInit /\ seed' = seed
    BY <1>9 DEF PostCreate, PostToken, OfInit, files
  <2>2. seed' = command.phrase
    BY <2>1 DEF CommandInv
  <2>3. OfInit \subseteq StepsOf("init")
    BY DEF StepsOf
  <2>4. \/ command' = NoCommand
        \/ \E s \in OfInit : command' = [command EXCEPT !.at = s]
    BY <1>9 DEF PostCreate, PostToken, OfInit
  <2>5. QED BY <1>g, <1>s, <2>1, <2>2, <2>3, <2>4, CommandEnds
<1>10. CASE StopUnit \/ RemoveUnit \/ RemoveShim \/ CleanTorrc
  <2>1. command.name = "uninstall" /\ \E s \in OfUninstall : command' = [command EXCEPT !.at = s]
    BY <1>10 DEF StopUnit, RemoveUnit, RemoveShim, CleanTorrc, OfUninstall
  <2>2. OfUninstall \subseteq StepsOf("uninstall") /\ \A s \in OfUninstall : s \notin {"state"} \cup OfInit
    BY DEF OfUninstall, StepsOf, OfInit
  <2>3. QED BY <1>g, <1>s, <2>1, <2>2
<1>11. CASE PurgeOnion
  <2>1. /\ command.name = "uninstall" /\ command.at = "purge"
        /\ command' = [command EXCEPT !.purge = command.purge \ {"onion"}]
    BY <1>11 DEF PurgeOnion
  <2>2. command' = [command EXCEPT !.at = "purge", !.purge = command.purge \ {"onion"}]
    BY <1>0, <2>1 DEF CommandType
  <2>3. "purge" \in StepsOf(command.name) /\ "purge" \notin {"state"} \cup OfInit
    BY <2>1 DEF StepsOf, OfUninstall, OfInit
  <2>4. command.purge \ {"onion"} \in SUBSET command.purge
    OBVIOUS
  <2>5. QED BY <1>a, <1>s, <2>1, <2>2, <2>3, <2>4, CommandGoes
<1>12. CASE PurgeFile
  <2>1. command' = command /\ command.name = "uninstall" /\ command.at = "purge"
    BY <1>12 DEF PurgeFile
  <2>2. command.at \notin {"state"} \cup OfInit
    BY <2>1 DEF OfInit
  <2>3. QED BY <1>0, <1>a, <2>1, <2>2 DEF CommandInv, CommandType
<1>13. CASE StartService \/ StopService \/ (\E c \in Customers : Register(c)) \/ TorPublishes \/ EditOnion \/ EditTorrc
  <2>1. command' = command /\ seed' = seed
    BY <1>13 DEF StartService, StopService, Register, TorPublishes, EditOnion, EditTorrc, files
  <2>2. QED BY <1>0, <1>a, <2>1 DEF CommandInv, CommandType
<1>14. QED
  BY <1>1, <1>2, <1>3, <1>4, <1>5, <1>6, <1>7, <1>8, <1>9, <1>10, <1>11, <1>12, <1>13 DEF Next, CommandStep, Overwrite

-----------------------------------------------------------------------------
\* Which steps write what.
LEMMA Writers ==
  ASSUME [Next]_vars
  PROVE  /\ seed' = seed \/ WriteSeed \/ PurgeFile
         /\ password' = password \/ WritePassword \/ PurgeFile
         /\ \/ state' = state \/ WriteState \/ RecordOnion \/ RecordPaynym \/ PurgeFile \/ EditOnion
            \/ \E c \in Customers : Register(c)
         /\ UNCHANGED torrc \/ WriteTorrc \/ CleanTorrc \/ EditTorrc
         /\ theirs' = theirs \/ EditTorrc
         /\ UNCHANGED <<onion, minted>> \/ TorPublishes \/ PurgeOnion
         /\ directory' = directory \/ PostCreate \/ AnswerLost \/ RecordPaynym
         /\ unit' = unit \/ WriteUnit \/ EnableUnit \/ StopUnit \/ RemoveUnit
         /\ shim' = shim \/ WriteShim \/ RemoveShim
         /\ service' = service \/ StartService \/ StopService \/ StopUnit \/ \E c \in Customers : Register(c)
         /\ told' = told \/ \E c \in Customers : Register(c)
         /\ UNCHANGED <<recorded, raced>> \/ WriteState \/ RecordOnion \/ RecordPaynym \/ PurgeFile \/ EditOnion
         /\ \/ abandoned' = abandoned
            \/ Overwrite
            \/ \E purge \in SUBSET {"onion", "data"} : BeginUninstall(purge)
         /\ commands' = commands \/ (commands < MaxCommands /\ commands' = commands + 1)
         /\ edits' = edits \/ (edits < MaxEdits /\ edits' = edits + 1)
<1> USE DEF files, tor, system, history
<1>1. CASE UNCHANGED vars
  BY <1>1 DEF vars
<1>2. CASE Overwrite
  BY <1>2 DEF Overwrite, BeginInstall, BeginInit, Begins
<1>3. CASE \E purge \in SUBSET {"onion", "data"} : BeginUninstall(purge)
  BY <1>3 DEF BeginUninstall, Begins
<1>4. CASE DojoFound \/ OnionPending \/ PostToken \/ UninstallDone \/ Dies
  BY <1>4 DEF DojoFound, OnionPending, PostToken, UninstallDone, Dies
<1>5. CASE WriteSeed \/ WritePassword
  BY <1>5 DEF WriteSeed, WritePassword
<1>6. CASE WriteState \/ RecordOnion \/ RecordPaynym \/ PurgeFile \/ EditOnion
  BY <1>6 DEF WriteState, RecordOnion, RecordPaynym, PurgeFile, EditOnion
<1>7. CASE WriteTorrc \/ CleanTorrc \/ EditTorrc \/ TorPublishes \/ PurgeOnion
  BY <1>7 DEF WriteTorrc, CleanTorrc, EditTorrc, TorPublishes, PurgeOnion
<1>8. CASE WriteUnit \/ WriteShim \/ EnableUnit \/ StopUnit \/ RemoveUnit \/ RemoveShim
  BY <1>8 DEF WriteUnit, WriteShim, EnableUnit, StopUnit, RemoveUnit, RemoveShim
<1>9. CASE PostCreate \/ AnswerLost
  BY <1>9 DEF PostCreate, AnswerLost
<1>10. CASE StartService \/ StopService \/ (\E c \in Customers : Register(c))
  BY <1>10 DEF StartService, StopService, Register
<1>11. QED
  BY <1>1, <1>2, <1>3, <1>4, <1>5, <1>6, <1>7, <1>8, <1>9, <1>10 DEF Next, CommandStep

-----------------------------------------------------------------------------
\* What the constants say of the values a machine can hold.
LEMMA Values ==
  /\ NoPassword \in Passwords
  /\ None \notin Networks /\ None \notin Phrases
  /\ NoState \in States /\ NoState.network = None /\ NoState.paynym = None
  /\ 0 \notin Onions
  /\ \A s \in States, o \in {0} \cup Onions :
       [s EXCEPT !.onion = o] \in States /\ [s EXCEPT !.onion = o].network = s.network
  /\ \A s \in States, p \in {None, "claimed", "pending"} :
       [s EXCEPT !.paynym = p] \in States /\ [s EXCEPT !.paynym = p].network = s.network
  /\ \A s \in States, S \in SUBSET Customers :
       [s EXCEPT !.senders = S] \in States /\ [s EXCEPT !.senders = S].network = s.network
<1>1. None \notin Networks /\ None \notin Phrases /\ NoPassword \in Passwords
  BY HostAssumption DEF None
<1>2. MaxCommands \in Nat /\ MaxEdits \in Nat
  BY HostAssumption
<1>3. QED BY <1>1, <1>2 DEF NoState, States, None, Onions

\* The types of everything but torrc.
LEMMA TypesKept ==
  ASSUME HostTypeOK, CommandInv, ServiceInv, [Next]_vars, torrc' \in Seq(STRING)
  PROVE  HostTypeOK' /\ ServiceInv'
<1>0. CommandType /\ CommandInv'
  BY CommandKeeps DEF CommandInv
<1>1. seed' \in Phrases \cup {None}
  <2>1. ASSUME WriteSeed PROVE command.phrase \in Phrases \cup {None} /\ seed' = command.phrase
    BY <1>0, <2>1 DEF WriteSeed, CommandType
  <2>2. ASSUME PurgeFile PROVE seed' \in {seed, None}
    BY <2>2 DEF PurgeFile
  <2>3. QED BY <2>1, <2>2, Writers DEF HostTypeOK
<1>2. password' \in Passwords
  <2>1. ASSUME WritePassword PROVE password' \in {password, command.password}
    BY <2>1 DEF WritePassword
  <2>2. ASSUME PurgeFile PROVE password' \in {password, NoPassword}
    BY <2>2 DEF PurgeFile
  <2>3. QED BY <1>0, <2>1, <2>2, Values, Writers DEF HostTypeOK, CommandType
<1>3. state' \in States /\ (state'.network = None => state' = NoState)
  <2>1. CASE state' = state \/ PurgeFile
    BY <2>1, Values DEF PurgeFile, HostTypeOK
  <2>2. CASE WriteState
    <3>1. command.name \in {"install", "init"} /\ command.network \in Networks
      BY <1>0, <2>2 DEF WriteState, CommandType, StepsOf, OfUninstall, None
    <3>2. state' = [NoState EXCEPT !.network = command.network]
      BY <2>2 DEF WriteState
    <3>3. QED BY <3>1, <3>2, Values DEF States, NoState
  <2>3. CASE RecordOnion \/ EditOnion
    <3>1. state # NoState
      BY <2>3 DEF RecordOnion, EditOnion
    <3>2. PICK o \in {0} \cup Onions : state' = [state EXCEPT !.onion = o]
      BY <2>3 DEF RecordOnion, EditOnion, HostTypeOK
    <3>3. state \in States /\ state.network # None
      BY <3>1 DEF HostTypeOK
    <3>4. state' \in States /\ state'.network = state.network
      BY <3>2, <3>3, Values
    <3>5. QED BY <3>3, <3>4
  <2>4. CASE RecordPaynym
    <3>1. state # NoState
      BY <2>4 DEF RecordPaynym
    <3>2. PICK p \in {None, "claimed", "pending"} : state' = [state EXCEPT !.paynym = p]
      BY <2>4 DEF RecordPaynym
    <3>3. state \in States /\ state.network # None
      BY <3>1 DEF HostTypeOK
    <3>4. state' \in States /\ state'.network = state.network
      BY <3>2, <3>3, Values
    <3>5. QED BY <3>3, <3>4
  <2>5. ASSUME NEW c \in Customers, Register(c) PROVE state' \in States /\ state'.network # None
    <3>1. service.on /\ state' = [service.read EXCEPT !.senders = service.senders \cup {c}]
      BY <2>5 DEF Register, Persist
    <3>2. service.read \in States /\ service.senders \cup {c} \in SUBSET Customers
      BY DEF ServiceInv
    <3>3. service.read.network \in Networks
      BY <3>1 DEF ServiceInv, Wallets
    <3>4. QED BY <3>1, <3>2, <3>3, Values
  <2>6. QED BY <2>1, <2>2, <2>3, <2>4, <2>5, Writers
<1>4. onion' \in {0} \cup Onions /\ minted' \in {0} \cup Onions
  <2>1. ASSUME TorPublishes PROVE onion' \in Onions /\ minted' \in Onions
    <3>1. onion' = minted + 1 /\ minted' = minted + 1 /\ minted < MaxCommands
      BY <2>1 DEF TorPublishes
    <3>2. minted \in {0} \cup Onions /\ MaxCommands \in Nat /\ MaxEdits \in Nat
      BY HostAssumption DEF HostTypeOK
    <3>3. QED BY <3>1, <3>2 DEF Onions
  <2>2. ASSUME PurgeOnion PROVE onion' = 0 /\ minted' = minted
    BY <2>2 DEF PurgeOnion
  <2>3. QED BY <2>1, <2>2, Writers DEF HostTypeOK
<1>5. directory' \in [CodesOf -> {None, "created", "claimed"}]
  <2>1. ASSUME PostCreate \/ AnswerLost \/ RecordPaynym
        PROVE  Taken("created") \/ Taken("claimed") \/ directory' = directory
    BY <2>1 DEF PostCreate, AnswerLost, RecordPaynym, RefusalReturned
  <2>2. ASSUME NEW knows \in {"created", "claimed"}, Taken(knows)
        PROVE  directory' \in [CodesOf -> {None, "created", "claimed"}]
    BY <2>2 DEF Taken, HostTypeOK
  <2>3. QED BY <2>1, <2>2, Writers DEF HostTypeOK
<1>6. unit' \in {"none", "written", "enabled"} /\ shim' \in {"none", "ours", "theirs"}
  <2>1. unit' \in {"none", "written", "enabled"}
    BY Writers DEF HostTypeOK, WriteUnit, EnableUnit, StopUnit, RemoveUnit
  <2>2. shim' \in {"none", "ours", "theirs"}
    BY Writers DEF HostTypeOK, WriteShim, RemoveShim
  <2>3. QED BY <2>1, <2>2
<1>7. ServiceInv'
  <2>1. CASE service' = service
    BY <2>1 DEF ServiceInv
  <2>2. CASE StopService \/ StopUnit
    <3>1. service' = Stopped \/ service' = service
      BY <2>2 DEF StopService, StopUnit
    <3>2. Stopped \in [on : BOOLEAN, read : States, wallet : Wallets \cup {<<None, NoPassword, None>>},
                        senders : SUBSET Customers]
      BY Values DEF Stopped
    <3>3. Stopped.on = FALSE
      BY DEF Stopped
    <3>4. QED BY <3>1, <3>2, <3>3 DEF ServiceInv
  <2>3. CASE StartService
    <3>1. /\ service' = [on |-> TRUE, read |-> state, wallet |-> <<seed, password, state.network>>, senders |-> state.senders]
          /\ state # NoState /\ seed # None
      BY <2>3 DEF StartService, Loadable, StateLoads, SeedLoads
    <3>2. state \in States /\ state.network \in Networks /\ state.senders \in SUBSET Customers /\ seed \in Phrases /\ password \in Passwords
      BY <3>1 DEF HostTypeOK, States
    <3>3. <<seed, password, state.network>> \in Wallets
      BY <3>2 DEF Wallets
    <3>4. QED BY <3>1, <3>2, <3>3 DEF ServiceInv
  <2>4. ASSUME NEW c \in Customers, Register(c) PROVE ServiceInv'
    <3>1. service' = [service EXCEPT !.senders = service.senders \cup {c}]
      BY <2>4 DEF Register
    <3>2. QED BY <3>1 DEF ServiceInv
  <2>5. QED BY <2>1, <2>2, <2>3, <2>4, Writers
<1>8. /\ service'.on \in BOOLEAN /\ service'.read \in States /\ service'.senders \subseteq Customers
      /\ service'.on => service'.wallet \in Wallets
  BY <1>7 DEF ServiceInv
<1>9. command'.name \in {None, "install", "init", "uninstall"}
  BY <1>0 DEF CommandInv, CommandType
<1>10. commands' \in 0 .. MaxCommands /\ edits' \in 0 .. MaxEdits
  <2>1. MaxCommands \in Nat /\ MaxEdits \in Nat /\ commands \in 0 .. MaxCommands /\ edits \in 0 .. MaxEdits
    BY HostAssumption DEF HostTypeOK
  <2>2. /\ commands' = commands \/ (commands < MaxCommands /\ commands' = commands + 1)
        /\ edits' = edits \/ (edits < MaxEdits /\ edits' = edits + 1)
    BY Writers
  <2>3. QED BY <2>1, <2>2
<1>11. told' \in [Customers -> SUBSET Wallets]
  <2>1. ASSUME NEW c \in Customers, Register(c) PROVE told' \in [Customers -> SUBSET Wallets]
    <3>1. service.wallet \in Wallets /\ told' = [told EXCEPT ![c] = @ \cup {service.wallet}]
      BY <2>1 DEF Register, ServiceInv
    <3>2. QED BY <3>1 DEF HostTypeOK
  <2>2. QED BY <2>1, Writers DEF HostTypeOK
<1>12. recorded' \in [onion : {0} \cup Onions, paynym : {None, "claimed", "pending"}]
  <2>1. CASE WriteState \/ PurgeFile \/ recorded' = recorded
    BY <2>1 DEF WriteState, PurgeFile, NothingRecorded, HostTypeOK
  <2>2. CASE RecordOnion \/ EditOnion
    <3>1. \E o \in {0} \cup Onions : recorded' = [recorded EXCEPT !.onion = o]
      BY <2>2 DEF RecordOnion, EditOnion, HostTypeOK
    <3>2. QED BY <3>1 DEF HostTypeOK
  <2>3. CASE RecordPaynym
    <3>1. \E p \in {"claimed", "pending"} : recorded' = [recorded EXCEPT !.paynym = p]
      BY <2>3 DEF RecordPaynym
    <3>2. QED BY <3>1 DEF HostTypeOK
  <2>4. QED BY <2>1, <2>2, <2>3, Writers
<1>13. raced' \in BOOLEAN
  BY Writers DEF HostTypeOK, ServiceInv, WriteState, RecordOnion, RecordPaynym, PurgeFile, EditOnion, Races
<1>14. abandoned' \in BOOLEAN
  BY Writers DEF HostTypeOK, Overwrite, BeginInstall, BeginInit, BeginUninstall
<1>15. QED
  BY <1>1, <1>2, <1>3, <1>4, <1>5, <1>6, <1>7, <1>8, <1>9, <1>10, <1>11, <1>12, <1>13, <1>14 DEF HostTypeOK

-----------------------------------------------------------------------------
\* Nobody's files are replaced: an early step finds no state file, hence no
\* customer and no service, and no other step touches seed, passphrase or
\* network while there is one.
LEMMA KeptKeeps ==
  ASSUME HostTypeOK, CommandInv, ServiceInv, KeptInv, [Next]_vars
  PROVE  KeptInv'
<1> SUFFICES ASSUME ~abandoned' PROVE OrderInv' /\ WalletInv'
  BY DEF KeptInv
<1> USE DEF At, Goto, Done
<1>0. ~abandoned /\ OrderInv /\ WalletInv /\ CommandType
  BY AbandonedStays DEF KeptInv, CommandInv
<1>n. NoCommand.name = None /\ NoCommand.at = None /\ None \notin Early \cup Late
      /\ None \notin {"install", "init", "uninstall"}
  BY DEF NoCommand, None, Early, Late
<1>w. ASSUME UNCHANGED <<seed, password, state, service, told>> PROVE WalletInv'
  BY <1>0, <1>w DEF WalletInv
\* The steps that change neither the files nor the service.
<1>q. ASSUME UNCHANGED <<seed, password, state, service, told>>,
             \/ UNCHANGED unit
             \/ unit' # "enabled"
             \/ (state # NoState /\ ~(command'.name = "install" /\ command'.at = "password")),
             command'.at \in Early => state = NoState,
             command'.name = "install" /\ command'.at \in Late => state # NoState,
             command'.name = "install" /\ command'.at = "password" => Unused
      PROVE  OrderInv' /\ WalletInv'
  BY <1>0, <1>q, <1>w DEF OrderInv, Unused
<1>1. CASE UNCHANGED vars
  BY <1>0, <1>1, <1>q DEF vars, files, system, history, OrderInv
<1>2. ASSUME NEW ph \in Phrases, NEW pw \in Passwords, NEW nw \in Networks, NEW force \in Forces,
             BeginInstall(ph, pw, nw, force) \/ BeginInit(ph, pw, nw, force)
      PROVE  OrderInv' /\ WalletInv'
  <2>1. /\ MayWrite(force) /\ abandoned' = (abandoned \/ (force /\ state # NoState))
        /\ UNCHANGED <<files, tor, system, service, told>>
        /\ command'.at \in {"dojo", "seed"}
    BY <1>2 DEF BeginInstall, BeginInit, Begins
  <2>2. state = NoState
    BY <2>1 DEF MayWrite
  <2>3. QED BY <1>q, <2>1, <2>2 DEF files, system, Late
<1>3. ASSUME NEW purge \in SUBSET {"onion", "data"}, BeginUninstall(purge)
      PROVE  OrderInv' /\ WalletInv'
  <2>1. UNCHANGED <<files, tor, system, service, told>> /\ command'.name = "uninstall" /\ command'.at \in {"shim", "stop"}
    BY <1>3 DEF BeginUninstall, Begins
  <2>2. QED BY <1>q, <2>1 DEF files, system, Early
<1>4. CASE Dies \/ UninstallDone \/ AnswerLost
  BY <1>4, <1>n, <1>q DEF Dies, UninstallDone, AnswerLost, files, system, history
<1>5. CASE DojoFound
  <2>1. UNCHANGED <<files, system, service, told>> /\ command'.at = "seed" /\ command.at = "dojo"
    BY <1>0, <1>5 DEF DojoFound, history, CommandType
  <2>2. state = NoState
    BY <1>0, <2>1 DEF OrderInv, Early
  <2>3. QED BY <1>q, <2>1, <2>2 DEF files, system, Late
<1>6. CASE WriteSeed
  <2>1. command.at = "seed" /\ command'.at = "state" /\ UNCHANGED <<password, state, unit, service, told>>
    BY <1>0, <1>6 DEF WriteSeed, history, system, CommandType
  <2>2. state = NoState /\ Unused
    BY <1>0, <2>1 DEF OrderInv, Early
  <2>3. Unused'
    BY <2>1, <2>2 DEF Unused
  <2>4. QED BY <2>1, <2>2, <2>3 DEF OrderInv, WalletInv, Unused, Late
<1>7. CASE WriteState
  <2>1. /\ command.at = "state" /\ state' = [NoState EXCEPT !.network = command.network]
        /\ UNCHANGED <<seed, password, unit, service, told>>
    BY <1>7 DEF WriteState, system
  <2>2. Unused /\ command.name \in {"install", "init"}
    BY <1>0, <2>1 DEF OrderInv, Early, CommandType, StepsOf, OfUninstall, None
  <2>3. seed # None /\ state' # NoState
    <3>1. seed = command.phrase /\ command.phrase \in Phrases /\ command.network \in Networks
      BY <1>0, <2>1, <2>2 DEF CommandInv, CommandType
    <3>2. state'.network = command.network
      BY <2>1 DEF NoState
    <3>3. QED BY <3>1, <3>2, Values
  <2>4. command'.at \notin Early
    BY <1>0, <1>7, <1>n DEF WriteState, CommandType, Early
  <2>5. Unused'
    BY <2>1, <2>2 DEF Unused
  <2>6. QED BY <2>1, <2>3, <2>4, <2>5 DEF OrderInv, WalletInv, Unused
<1>8. CASE WritePassword
  <2>1. /\ command.name = "install" /\ command.at = "password" /\ command'.at = "torrc"
        /\ UNCHANGED <<seed, state, unit, service, told>>
    BY <1>0, <1>8 DEF WritePassword, system, history, CommandType
  <2>2. Unused /\ state # NoState
    BY <1>0, <2>1 DEF OrderInv, Late
  <2>3. Unused'
    BY <2>1, <2>2 DEF Unused
  <2>4. QED BY <1>0, <2>1, <2>2, <2>3 DEF OrderInv, WalletInv, Unused, Early
<1>9. CASE WriteTorrc \/ OnionPending \/ WriteUnit \/ WriteShim
  <2>1. /\ UNCHANGED <<seed, password, state, service, told>>
        /\ unit' = unit \/ unit' # "enabled"
        /\ command.name = "install" /\ command.at \in Late
        /\ command'.at \in {"hostname", "unit", "shim", "enable"}
    BY <1>0, <1>9 DEF WriteTorrc, OnionPending, WriteUnit, WriteShim, files, system, history, CommandType, Late
  <2>2. state # NoState
    BY <1>0, <2>1 DEF OrderInv
  <2>3. QED BY <1>q, <2>1, <2>2 DEF Early
<1>10. CASE EnableUnit
  <2>1. /\ UNCHANGED <<seed, password, state, service, told>>
        /\ command.name = "install" /\ command.at \in Late /\ command' = NoCommand
    BY <1>10 DEF EnableUnit, files, history, Late
  <2>2. state # NoState
    BY <1>0, <2>1 DEF OrderInv
  <2>3. QED BY <1>n, <1>q, <2>1, <2>2
<1>11. CASE PostCreate \/ PostToken
  <2>1. /\ UNCHANGED <<seed, password, state, service, told, unit>>
        /\ command'.name # "install" /\ command'.at \notin Early
    BY <1>0, <1>11, <1>n DEF PostCreate, PostToken, files, system, history, CommandType, Early, None
  <2>2. QED BY <1>q, <2>1
<1>12. CASE RemoveUnit \/ RemoveShim \/ CleanTorrc \/ PurgeOnion
  <2>1. /\ UNCHANGED <<seed, password, state, service, told>>
        /\ unit' = unit \/ unit' # "enabled"
        /\ command'.name = "uninstall" /\ command'.at \notin Early
    BY <1>0, <1>12 DEF RemoveUnit, RemoveShim, CleanTorrc, PurgeOnion, files, system, history, CommandType, Early
  <2>2. QED BY <1>q, <2>1
<1>13. CASE StopService \/ StopUnit
  <2>1. /\ UNCHANGED <<seed, password, state, told>>
        /\ unit' = unit \/ unit' # "enabled"
        /\ service' = service \/ ~service'.on
    BY <1>13 DEF StopService, StopUnit, files, system, history, Stopped
  <2>2. command' = command \/ (command'.name = "uninstall" /\ command'.at \notin Early)
    BY <1>0, <1>13 DEF StopService, StopUnit, CommandType, Early
  <2>3. Unused => Unused'
    BY <2>1 DEF Unused
  <2>4. QED BY <1>0, <2>1, <2>2, <2>3 DEF OrderInv, WalletInv
<1>14. CASE RecordOnion \/ RecordPaynym \/ EditOnion
  <2>1. /\ UNCHANGED <<seed, password, service, told, unit>>
        /\ state # NoState /\ state \in States
    BY <1>14 DEF RecordOnion, RecordPaynym, EditOnion, system, HostTypeOK
  <2>2. state' # NoState /\ state'.network = state.network /\ state'.senders = state.senders
    <3>1. \/ \E o : state' = [state EXCEPT !.onion = o]
          \/ \E p : state' = [state EXCEPT !.paynym = p]
      BY <1>14 DEF RecordOnion, RecordPaynym, EditOnion
    <3>2. state'.network = state.network /\ state'.senders = state.senders
      BY <2>1, <3>1 DEF States
    <3>3. state.network # None
      BY <2>1 DEF HostTypeOK
    <3>4. QED BY <3>2, <3>3, Values
  <2>3. /\ command' = command \/ command' = NoCommand \/ command'.at = "unit"
        /\ command'.at \notin Early
    BY <1>0, <1>14, <1>n DEF RecordOnion, RecordPaynym, EditOnion, CommandType, Early
  <2>4. command'.name = "install" /\ command'.at = "password" => Unused
    BY <1>0, <1>n, <2>3 DEF OrderInv
  <2>5. Unused => Unused'
    BY <2>1 DEF Unused
  <2>6. QED BY <1>0, <2>1, <2>2, <2>3, <2>4, <2>5 DEF OrderInv, WalletInv
<1>15. CASE PurgeFile
  BY <1>0, <1>15 DEF PurgeFile, CommandInv
<1>16. CASE StartService
  <2>1. /\ service' = [on |-> TRUE, read |-> state, wallet |-> <<seed, password, state.network>>, senders |-> state.senders]
        /\ state # NoState /\ seed # None
        /\ unit = "enabled" \/ command = NoCommand
        /\ UNCHANGED <<seed, password, state, unit, command, told>>
    BY <1>16 DEF StartService, Loadable, StateLoads, SeedLoads, files, system, history
  <2>2. ~(command.name = "install" /\ command.at = "password")
    BY <1>0, <1>n, <2>1 DEF OrderInv, Unused
  <2>3. OrderInv'
    BY <1>0, <2>1, <2>2 DEF OrderInv
  <2>4. WalletInv'
    BY <1>0, <2>1 DEF WalletInv
  <2>5. QED BY <2>3, <2>4
<1>17. ASSUME NEW c \in Customers, Register(c)
       PROVE  OrderInv' /\ WalletInv'
  <2>1. /\ service.on /\ service' = [service EXCEPT !.senders = service.senders \cup {c}]
        /\ state' = [service.read EXCEPT !.senders = service.senders \cup {c}]
        /\ told' = [told EXCEPT ![c] = @ \cup {service.wallet}]
        /\ UNCHANGED <<seed, password, unit, command>>
    BY <1>17 DEF Register, Persist, system
  <2>2. state # NoState /\ seed # None /\ ~(command.name = "install" /\ command.at = "password") /\ command.at \notin Early
    BY <1>0, <2>1 DEF OrderInv, Unused
  <2>3. service.wallet = <<seed, password, state.network>>
    BY <1>0, <2>1 DEF WalletInv
  <2>4. /\ state'.network = state.network /\ state' # NoState
        /\ state'.senders = service.senders \cup {c}
    <3>1. service.read.network = state.network /\ service.read \in States /\ state.network # None
      BY <2>1, <2>2, <2>3 DEF ServiceInv, HostTypeOK
    <3>2. state'.network = state.network /\ state'.senders = service.senders \cup {c}
      BY <2>1, <3>1 DEF States
    <3>3. QED BY <3>1, <3>2, Values
  <2>5. OrderInv'
    BY <2>1, <2>2, <2>4 DEF OrderInv
  <2>6. service'.on /\ service'.wallet = service.wallet /\ service'.senders = service.senders \cup {c}
    BY <2>1 DEF ServiceInv
  <2>7. ASSUME NEW d \in Customers, told'[d] # {}
        PROVE  d \in service.senders \cup {c} /\ told'[d] = {<<seed, password, state.network>>}
    <3>1. told'[d] = IF d = c THEN told[d] \cup {service.wallet} ELSE told[d]
      BY <2>1 DEF HostTypeOK
    <3>2. told[d] # {} => d \in service.senders /\ told[d] = {<<seed, password, state.network>>}
      BY <1>0, <2>1 DEF WalletInv
    <3>3. QED BY <2>3, <2>7, <3>1, <3>2
  <2>8. WalletInv'
    BY <2>1, <2>3, <2>4, <2>6, <2>7 DEF WalletInv
  <2>9. QED BY <2>5, <2>8
<1>18. CASE TorPublishes \/ EditTorrc
  BY <1>0, <1>18, <1>q DEF TorPublishes, EditTorrc, files, system, history, OrderInv
<1>19. QED
  BY <1>1, <1>2, <1>3, <1>4, <1>5, <1>6, <1>7, <1>8, <1>9, <1>10, <1>11, <1>12, <1>13, <1>14, <1>15,
     <1>16, <1>17, <1>18 DEF Next, CommandStep, Overwrite

-----------------------------------------------------------------------------
\* What was recorded stays, unless a service that read the file before goes on.
LEMMA RecordKeeps ==
  ASSUME HostTypeOK, ServiceInv, RecordInv, [Next]_vars
  PROVE  RecordInv'
<1> SUFFICES ASSUME ~raced' PROVE RecordInv'
  BY DEF RecordInv
<1> USE DEF At, Goto, Done
<1>1. CASE WriteState
  BY <1>1 DEF WriteState, Races, NothingRecorded, NoState, RecordInv
<1>2. CASE RecordOnion \/ EditOnion
  <2>1. PICK o : state' = [state EXCEPT !.onion = o] /\ recorded' = [recorded EXCEPT !.onion = o]
    BY <1>2 DEF RecordOnion, EditOnion
  <2>2. state # NoState /\ ~raced /\ ~service.on /\ service' = service
    BY <1>2 DEF RecordOnion, EditOnion, Races
  <2>3. recorded = [onion |-> state.onion, paynym |-> state.paynym] /\ state \in States
    BY <2>2 DEF RecordInv, HostTypeOK
  <2>4. QED BY <2>1, <2>2, <2>3 DEF RecordInv, States
<1>3. CASE RecordPaynym
  <2>1. PICK p : state' = [state EXCEPT !.paynym = p] /\ recorded' = [recorded EXCEPT !.paynym = p]
    BY <1>3 DEF RecordPaynym
  <2>2. state # NoState /\ ~raced /\ ~service.on /\ service' = service
    BY <1>3 DEF RecordPaynym, Races
  <2>3. recorded = [onion |-> state.onion, paynym |-> state.paynym] /\ state \in States
    BY <2>2 DEF RecordInv, HostTypeOK
  <2>4. QED BY <2>1, <2>2, <2>3 DEF RecordInv, States
<1>4. CASE PurgeFile
  BY <1>4 DEF PurgeFile, Races, RecordInv
<1>5. CASE UNCHANGED <<recorded, raced>>
  <2>1. ~raced
    BY <1>5
  <2>2. CASE StartService
    <3>1. state # NoState /\ service'.read = state /\ state' = state
      BY <2>2 DEF StartService, Loadable, StateLoads, files
    <3>2. QED BY <1>5, <2>1, <3>1 DEF RecordInv
  <2>3. CASE StopService \/ StopUnit
    BY <1>5, <2>1, <2>3 DEF StopService, StopUnit, Stopped, files, RecordInv
  <2>4. ASSUME NEW c \in Customers, Register(c) PROVE RecordInv'
    <3>1. /\ service.on /\ service' = [service EXCEPT !.senders = service.senders \cup {c}]
          /\ state' = [service.read EXCEPT !.senders = service.senders \cup {c}]
      BY <2>4 DEF Register, Persist
    <3>2. state'.onion = service.read.onion /\ state'.paynym = service.read.paynym
      BY <3>1 DEF ServiceInv, States
    <3>3. service'.read = service.read
      BY <3>1 DEF ServiceInv
    <3>4. QED BY <1>5, <2>1, <3>1, <3>2, <3>3 DEF RecordInv
  <2>5. CASE UNCHANGED service /\ ~(\E c \in Customers : Register(c))
    <3>1. CASE state' = state
      BY <1>5, <2>1, <2>5, <3>1 DEF RecordInv
    <3>2. CASE state' # state
      BY <1>1, <1>2, <1>3, <1>4, <2>5, <3>2, Writers
    <3>3. QED BY <3>1, <3>2
  <2>6. QED BY <2>2, <2>3, <2>4, <2>5, Writers
<1>6. QED BY <1>1, <1>2, <1>3, <1>4, <1>5, Writers

\* A claim is never taken back by the directory, and the phrase it was granted
\* to is the one beside the state file that records it.
LEMMA ClaimKeeps ==
  ASSUME HostTypeOK, CommandInv, ServiceInv, KeptInv, ClaimInv, [Next]_vars
  PROVE  ClaimInv'
<1> SUFFICES ASSUME ~abandoned' PROVE ClaimInv'
  BY DEF ClaimInv
<1> USE DEF At, Goto, Done
<1>0. ~abandoned /\ OrderInv /\ WalletInv /\ CommandType
  BY AbandonedStays DEF KeptInv, CommandInv
<1>1. \A k \in CodesOf : directory[k] = "claimed" => directory'[k] = "claimed"
  <2>1. ASSUME PostCreate \/ AnswerLost \/ RecordPaynym
        PROVE  Taken("created") \/ Taken("claimed") \/ directory' = directory
    BY <2>1 DEF PostCreate, AnswerLost, RecordPaynym, RefusalReturned
  <2>2. ASSUME NEW knows, Taken(knows), NEW k \in CodesOf, directory[k] = "claimed"
        PROVE  directory'[k] = "claimed"
    BY <2>2 DEF Taken, HostTypeOK
  <2>3. QED BY <2>1, <2>2, Writers
<1>2. ASSUME seed' = seed, seed # None, Granted PROVE Granted'
  <2>1. PICK pw \in Passwords : directory[<<seed, pw>>] = "claimed"
    BY <1>2 DEF Granted
  <2>2. <<seed, pw>> \in CodesOf
    BY <1>2 DEF CodesOf, HostTypeOK
  <2>3. QED BY <1>1, <1>2, <2>1, <2>2 DEF Granted
<1>3. CASE WriteSeed
  <2>1. command.at = "seed" /\ state' = state /\ service' = service
    BY <1>3 DEF WriteSeed
  <2>2. state = NoState /\ ~service.on
    BY <1>0, <2>1 DEF OrderInv, Unused, Early
  <2>3. QED BY <2>1, <2>2, Values DEF ClaimInv, None
<1>4. CASE PurgeFile
  BY <1>0, <1>4 DEF PurgeFile, CommandInv
<1>5. CASE WriteState
  <2>1. state'.paynym = None /\ service' = service /\ ~service.on
    BY <1>0, <1>5 DEF WriteState, NoState, OrderInv, Unused, Early
  <2>2. QED BY <2>1 DEF ClaimInv, None
<1>6. CASE seed' = seed /\ ~WriteState /\ ~PurgeFile
  <2>1. state # NoState => seed # None
    BY <1>0 DEF OrderInv
  <2>2. service.on => state # NoState
    BY <1>0 DEF OrderInv, Unused
  <2>3. CASE StartService
    <3>1. state # NoState /\ service'.read = state /\ state' = state
      BY <2>3 DEF StartService, Loadable, StateLoads, files
    <3>2. QED BY <1>0, <1>2, <1>6, <2>1, <3>1 DEF ClaimInv
  <2>4. CASE StopService \/ StopUnit
    <3>1. state' = state /\ (service' = service \/ ~service'.on)
      BY <2>4 DEF StopService, StopUnit, Stopped, files
    <3>2. state.paynym = "claimed" => state # NoState
      BY Values DEF None
    <3>3. QED BY <1>0, <1>2, <1>6, <2>1, <2>2, <3>1, <3>2 DEF ClaimInv
  <2>5. ASSUME NEW c \in Customers, Register(c) PROVE ClaimInv'
    <3>1. /\ service.on /\ service' = [service EXCEPT !.senders = service.senders \cup {c}]
          /\ state' = [service.read EXCEPT !.senders = service.senders \cup {c}]
      BY <2>5 DEF Register, Persist
    <3>2. state'.paynym = service.read.paynym /\ service'.read = service.read
      BY <3>1 DEF ServiceInv, States
    <3>3. QED BY <1>0, <1>2, <1>6, <2>1, <2>2, <3>1, <3>2 DEF ClaimInv
  <2>6. CASE RecordPaynym
    <3>1. PICK answer \in {"claimed", "pending"} :
            /\ IF answer = "claimed" THEN Taken("claimed") ELSE RefusalReturned
            /\ state' = [state EXCEPT !.paynym = answer]
      BY <2>6 DEF RecordPaynym
    <3>2. state # NoState /\ state \in States /\ service' = service /\ command.at = "claim" /\ command.name = "init"
      BY <2>6 DEF RecordPaynym, HostTypeOK
    <3>3. state'.paynym = answer
      BY <3>1, <3>2 DEF States
    <3>4. CASE answer = "claimed"
      <4>1. seed = command.phrase /\ Code \in CodesOf
        BY <1>0, <3>2 DEF CommandInv, CommandType, OfInit, Code, CodesOf
      <4>2. directory'[Code] = "claimed"
        BY <3>1, <3>4, <4>1 DEF Taken, HostTypeOK
      <4>3. command.password \in Passwords
        BY <1>0 DEF CommandType
      <4>4. Granted'
        BY <1>6, <4>1, <4>2, <4>3 DEF Granted, Code
      <4>5. QED BY <4>4 DEF ClaimInv
    <3>5. CASE answer = "pending"
      BY <1>0, <1>2, <1>6, <2>1, <3>2, <3>3, <3>5 DEF ClaimInv
    <3>6. QED BY <3>1, <3>4, <3>5
  <2>7. CASE RecordOnion \/ EditOnion
    <3>1. state # NoState /\ state \in States /\ service' = service /\ \E o : state' = [state EXCEPT !.onion = o]
      BY <2>7 DEF RecordOnion, EditOnion, HostTypeOK
    <3>2. state'.paynym = state.paynym
      BY <3>1 DEF States
    <3>3. QED BY <1>0, <1>2, <1>6, <2>1, <3>1, <3>2 DEF ClaimInv
  <2>8. CASE UNCHANGED <<state, service>>
    <3>1. state.paynym = "claimed" => state # NoState
      BY Values DEF None
    <3>2. QED BY <1>0, <1>2, <1>6, <2>1, <2>2, <2>8, <3>1 DEF ClaimInv
  <2>9. QED BY <1>6, <2>3, <2>4, <2>5, <2>6, <2>7, <2>8, Writers
<1>7. QED BY <1>3, <1>4, <1>5, <1>6, Writers

-----------------------------------------------------------------------------
(* The lines of a text at a set of indices.                                *)

\* d enumerates I in order.
Enumerates(d, n, I) ==
  /\ n \in Nat /\ d \in [1 .. n -> I]
  /\ \A k, m \in 1 .. n : k < m => d[k] < d[m]
  /\ \A i \in I : \E k \in 1 .. n : d[k] = i

Upto(I, i) == {j \in I : j <= i}

\* An enumeration counts what it enumerates, as far as it has come.
LEMMA EnumerationCounts ==
  ASSUME NEW I \in SUBSET Nat, NEW n, NEW d, Enumerates(d, n, I)
  PROVE  /\ IsFiniteSet(I) /\ Cardinality(I) = n
         /\ \A k \in 1 .. n : Cardinality(Upto(I, d[k])) = k
<1> USE DEF Enumerates
<1>1. \A k, m \in 1 .. n : d[k] = d[m] => k = m
  <2> SUFFICES ASSUME NEW k \in 1 .. n, NEW m \in 1 .. n, d[k] = d[m], k # m PROVE FALSE
    OBVIOUS
  <2>1. k < m \/ m < k
    OBVIOUS
  <2>2. d[k] < d[m] \/ d[m] < d[k]
    BY <2>1
  <2>3. d[k] \in Nat
    OBVIOUS
  <2>4. QED BY <2>2, <2>3
<1>2. IsFiniteSet(I) /\ Cardinality(I) = n
  <2>1. d \in Bijection(1 .. n, I)
    BY <1>1 DEF Bijection, Injection, Surjection, IsInjective
  <2>2. ExistsBijection(1 .. n, I)
    BY <2>1 DEF ExistsBijection
  <2>3. QED BY <2>2, FS_NatBijection, FS_CountingElements
<1>3. ASSUME NEW k \in 1 .. n PROVE Cardinality(Upto(I, d[k])) = k
  <2> DEFINE c == [m \in 1 .. k |-> d[m]]
  <2>1. \A m \in 1 .. k : m \in 1 .. n /\ d[m] \in Upto(I, d[k])
    <3> SUFFICES ASSUME NEW m \in 1 .. k PROVE m \in 1 .. n /\ d[m] \in Upto(I, d[k])
      OBVIOUS
    <3>1. m \in 1 .. n /\ (m < k \/ m = k)
      OBVIOUS
    <3>2. d[m] \in Nat /\ d[k] \in Nat
      BY <3>1
    <3>3. QED BY <3>1, <3>2 DEF Upto
  <2>2. c \in [1 .. k -> Upto(I, d[k])]
    BY <2>1
  <2>3. \A x, y \in 1 .. k : c[x] = c[y] => x = y
    BY <1>1, <2>1
  <2>4. ASSUME NEW i \in Upto(I, d[k]) PROVE \E m \in 1 .. k : c[m] = i
    <3>1. PICK m \in 1 .. n : d[m] = i
      BY DEF Upto
    <3>2. i \in Nat /\ d[k] \in Nat /\ i <= d[k]
      BY DEF Upto
    <3>3. ~(k < m)
      BY <3>1, <3>2
    <3>4. m \in 1 .. k
      BY <3>3
    <3>5. QED BY <3>1, <3>4
  <2>5. c \in Bijection(1 .. k, Upto(I, d[k]))
    BY <2>2, <2>3, <2>4 DEF Bijection, Injection, Surjection, IsInjective
  <2>6. ExistsBijection(1 .. k, Upto(I, d[k])) /\ k \in Nat
    BY <2>5 DEF ExistsBijection
  <2>7. QED BY <2>6, FS_CountingElements
<1>4. QED BY <1>2, <1>3

\* A set of numbers has one enumeration, and Pick follows it.
LEMMA PickIs ==
  ASSUME NEW f, NEW I \in SUBSET Nat, NEW n, NEW d, Enumerates(d, n, I)
  PROVE  Pick(f, I) = [k \in 1 .. n |-> f[d[k]]]
<1>1. /\ Cardinality(I) = n
      /\ \A k \in 1 .. n : Cardinality(Upto(I, d[k])) = k
  BY EnumerationCounts
<1> USE DEF Enumerates
<1>2. ASSUME NEW k \in 1 .. n
      PROVE  (CHOOSE i \in I : Cardinality({j \in I : j <= i}) = k) = d[k]
  <2>1. d[k] \in I /\ Cardinality({j \in I : j <= d[k]}) = k
    BY <1>1 DEF Upto
  <2>2. ASSUME NEW i \in I, Cardinality({j \in I : j <= i}) = k PROVE i = d[k]
    <3>1. PICK m \in 1 .. n : d[m] = i
      OBVIOUS
    <3>2. Cardinality({j \in I : j <= i}) = m
      BY <1>1, <3>1 DEF Upto
    <3>3. QED BY <2>2, <3>1, <3>2
  <2>3. QED BY <2>1, <2>2
<1>3. Pick(f, I) = [k \in 1 .. n |-> f[d[k]]]
  <2>1. Pick(f, I) = [k \in 1 .. n |-> f[CHOOSE i \in I : Cardinality({j \in I : j <= i}) = k]]
    BY <1>1, Zenon DEF Pick
  <2>2. \A k \in 1 .. n : f[CHOOSE i \in I : Cardinality({j \in I : j <= i}) = k] = f[d[k]]
    BY <1>2
  <2>3. QED BY <2>1, <2>2
<1>4. QED BY <1>3

\* Every finite set of numbers has an enumeration.
LEMMA EnumerationExists ==
  ASSUME NEW I \in SUBSET Nat, IsFiniteSet(I)
  PROVE  \E d : Enumerates(d, Cardinality(I), I)
<1> DEFINE n == Cardinality(I)
           rank == [i \in I |-> Cardinality(Upto(I, i))]
<1>1. n \in Nat
  BY FS_CardinalityType
<1>2. ASSUME NEW i \in I
      PROVE  IsFiniteSet(Upto(I, i)) /\ rank[i] \in 1 .. n
  <2>1. Upto(I, i) \in SUBSET I /\ i \in Upto(I, i)
    BY DEF Upto
  <2>2. IsFiniteSet(Upto(I, i)) /\ rank[i] <= n /\ rank[i] \in Nat
    BY <2>1, FS_Subset, FS_CardinalityType
  <2>3. rank[i] # 0
    BY <2>1, <2>2, FS_EmptySet
  <2>4. QED BY <1>1, <2>2, <2>3
<1>3. ASSUME NEW i \in I, NEW j \in I, i < j PROVE rank[i] < rank[j]
  <2>1. Upto(I, i) \in SUBSET Upto(I, j) /\ j \in Upto(I, j) /\ j \notin Upto(I, i)
    <3>1. i \in Nat /\ j \in Nat /\ \A k \in I : k \in Nat
      OBVIOUS
    <3>2. \A k \in I : k <= i => k <= j
      BY <1>3, <3>1
    <3>3. j <= j /\ ~(j <= i)
      BY <1>3, <3>1
    <3>4. QED BY <3>2, <3>3 DEF Upto
  <2>2. rank[i] <= rank[j] /\ rank[i] # rank[j]
    BY <1>2, <2>1, FS_Subset
  <2>3. rank[i] \in Nat /\ rank[j] \in Nat
    BY <1>2
  <2>4. QED BY <2>2, <2>3
<1>4. \A i, j \in I : rank[i] = rank[j] => i = j
  <2> SUFFICES ASSUME NEW i \in I, NEW j \in I, rank[i] = rank[j], i # j PROVE FALSE
    OBVIOUS
  <2>1. i < j \/ j < i
    OBVIOUS
  <2>2. rank[i] \in Nat
    BY <1>2
  <2>3. QED BY <1>3, <2>1, <2>2
<1>5. rank \in Surjection(I, 1 .. n)
  <2>1. rank \in [I -> 1 .. n]
    BY <1>2
  <2> HIDE DEF rank
  <2>2. rank \in Injection(I, 1 .. n)
    BY <1>4, <2>1 DEF Injection, IsInjective
  <2>3. IsFiniteSet(1 .. n) /\ Cardinality(1 .. n) = n
    BY <1>1, FS_Interval
  <2>4. QED BY <2>2, <2>3, FS_Injection
<1> HIDE DEF rank
<1>6. \A k \in 1 .. n : \E i \in I : rank[i] = k
  BY <1>5 DEF Surjection
<1> DEFINE d == [k \in 1 .. n |-> CHOOSE i \in I : rank[i] = k]
<1>7. \A k \in 1 .. n : d[k] \in I /\ rank[d[k]] = k
  BY <1>6
<1>8. d \in [1 .. n -> I]
  BY <1>7
<1> HIDE DEF d
<1>9. ASSUME NEW k \in 1 .. n, NEW m \in 1 .. n, k < m PROVE d[k] < d[m]
  <2>1. d[k] \in I /\ d[m] \in I /\ rank[d[k]] = k /\ rank[d[m]] = m
    BY <1>7
  <2>2. k \in Nat /\ m \in Nat /\ d[k] \in Nat /\ d[m] \in Nat
    <3>1. I \subseteq Nat
      OBVIOUS
    <3>2. k \in Nat /\ m \in Nat
      BY <1>1
    <3>3. QED BY <2>1, <3>1, <3>2
  <2>3. d[m] # d[k]
    BY <1>9, <2>1, <2>2
  <2>4. ~(d[m] < d[k])
    <3>1. ASSUME d[m] < d[k] PROVE m < k
      BY <1>3, <2>1, <3>1
    <3>2. QED BY <1>9, <2>2, <3>1
  <2>5. QED BY <2>2, <2>3, <2>4
<1>10. \A i \in I : \E k \in 1 .. n : d[k] = i
  BY <1>2, <1>4, <1>7
<1>11. QED BY <1>1, <1>8, <1>9, <1>10 DEF Enumerates

Lines(f) == f \in Seq(STRING)

\* Some of the first n numbers are finitely many.
LEMMA FinitelyMany ==
  ASSUME NEW n \in Nat, NEW T \in SUBSET (1 .. n)
  PROVE  IsFiniteSet(T) /\ Cardinality(T) \in Nat
<1>1. IsFiniteSet(1 .. n)
  BY 1 \in Int, n \in Int, FS_Interval
<1>2. IsFiniteSet(T)
  BY <1>1, FS_Subset
<1>3. QED BY <1>2, FS_CardinalityType

\* The lines of a text at some of its indices are a text.
LEMMA Picked ==
  ASSUME NEW f, Lines(f), NEW I \in SUBSET (DOMAIN f)
  PROVE  /\ DOMAIN f = 1 .. Len(f) /\ Len(f) \in Nat /\ I \in SUBSET Nat /\ IsFiniteSet(I)
         /\ Cardinality(I) \in Nat
         /\ Lines(Pick(f, I)) /\ Len(Pick(f, I)) = Cardinality(I)
         /\ DOMAIN Pick(f, I) = 1 .. Cardinality(I)
         /\ \E d : /\ Enumerates(d, Cardinality(I), I)
                   /\ \A k \in 1 .. Cardinality(I) : d[k] \in I /\ Pick(f, I)[k] = f[d[k]]
<1>1. DOMAIN f = 1 .. Len(f) /\ Len(f) \in Nat
  BY LenProperties DEF Lines
<1>2. I \in SUBSET Nat /\ I \in SUBSET (1 .. Len(f))
  BY <1>1
<1>3. IsFiniteSet(I) /\ Cardinality(I) \in Nat
  BY <1>1, <1>2, FinitelyMany
<1>4. PICK d : Enumerates(d, Cardinality(I), I)
  BY <1>2, <1>3, EnumerationExists
<1>5. Pick(f, I) = [k \in 1 .. Cardinality(I) |-> f[d[k]]]
  BY <1>2, <1>4, PickIs
<1>6. \A k \in 1 .. Cardinality(I) : d[k] \in I /\ f[d[k]] \in STRING
  <2>1. \A i \in 1 .. Len(f) : f[i] \in STRING
    BY <1>1, ElementOfSeq DEF Lines
  <2>2. QED BY <1>2, <1>4, <2>1 DEF Enumerates
<1>7. Pick(f, I) \in Seq(STRING)
  BY <1>3, <1>5, <1>6, IsASeq
<1>8. DOMAIN Pick(f, I) = 1 .. Cardinality(I) /\ \A k \in 1 .. Cardinality(I) : Pick(f, I)[k] = f[d[k]]
  BY <1>5
<1>9. Len(Pick(f, I)) = Cardinality(I)
  BY <1>3, <1>7, <1>8, LenProperties
<1>10. QED BY <1>1, <1>2, <1>3, <1>4, <1>6, <1>7, <1>8, <1>9 DEF Lines

TheirLines(f) == {i \in DOMAIN f : Foreign(f[i])}

\* Leaving out lines that are not theirs leaves theirs as they were.
LEMMA PickTheirs ==
  ASSUME NEW f, Lines(f), NEW I \in SUBSET (DOMAIN f), TheirLines(f) \subseteq I
  PROVE  Theirs(Pick(f, I)) = Theirs(f)
<1> DEFINE g == Pick(f, I)
           n == Cardinality(I)
           J == TheirLines(g)
           p == Cardinality(J)
<1>1. /\ DOMAIN f = 1 .. Len(f) /\ I \in SUBSET Nat /\ n \in Nat /\ Lines(g) /\ DOMAIN g = 1 .. n
  BY Picked
<1>2. PICK d : Enumerates(d, n, I) /\ \A k \in 1 .. n : d[k] \in I /\ g[k] = f[d[k]]
  BY Picked
<1>3. J \in SUBSET (DOMAIN g)
  BY DEF TheirLines
<1> HIDE DEF g, n, J
<1>4. p \in Nat /\ J \in SUBSET Nat /\ J \in SUBSET (1 .. n)
  BY <1>1, <1>3, Picked
<1>5. PICK e : Enumerates(e, p, J)
  BY <1>1, <1>3, Picked
<1> HIDE DEF p
<1>6. Theirs(g) = [m \in 1 .. p |-> g[e[m]]]
  <2>1. Theirs(g) = Pick(g, J)
    BY DEF Theirs, J, TheirLines
  <2>2. QED BY <1>4, <1>5, <2>1, PickIs
<1> DEFINE c == [m \in 1 .. p |-> d[e[m]]]
<1>7. \A m \in 1 .. p : e[m] \in J /\ e[m] \in 1 .. n /\ d[e[m]] \in I /\ g[e[m]] = f[d[e[m]]]
  BY <1>2, <1>4, <1>5 DEF Enumerates
<1>8. Enumerates(c, p, TheirLines(f))
  <2>1. ASSUME NEW m \in 1 .. p PROVE d[e[m]] \in TheirLines(f)
    BY <1>7 DEF J, TheirLines
  <2>2. c \in [1 .. p -> TheirLines(f)]
    BY <2>1
  <2>3. ASSUME NEW k \in 1 .. p, NEW m \in 1 .. p, k < m PROVE c[k] < c[m]
    <3>1. e[k] < e[m]
      BY <1>5, <2>3 DEF Enumerates
    <3>2. d[e[k]] < d[e[m]]
      BY <1>2, <1>7, <3>1 DEF Enumerates
    <3>3. QED BY <3>2
  <2>4. ASSUME NEW i \in TheirLines(f) PROVE \E m \in 1 .. p : c[m] = i
    <3>1. PICK k \in 1 .. n : d[k] = i
      BY <1>2 DEF Enumerates
    <3>2. k \in J
      BY <1>1, <1>2, <3>1 DEF J, TheirLines
    <3>3. PICK m \in 1 .. p : e[m] = k
      BY <1>5, <3>2 DEF Enumerates
    <3>4. QED BY <3>1, <3>3
  <2>5. QED BY <1>4, <2>2, <2>3, <2>4 DEF Enumerates
<1>9. TheirLines(f) \in SUBSET Nat
  BY <1>1
<1>10. Theirs(f) = [m \in 1 .. p |-> f[c[m]]]
  <2>1. Theirs(f) = Pick(f, TheirLines(f))
    BY DEF Theirs, TheirLines
  <2> HIDE DEF c
  <2>2. Pick(f, TheirLines(f)) = [m \in 1 .. p |-> f[c[m]]]
    BY <1>8, <1>9, PickIs
  <2>3. QED BY <2>1, <2>2
<1>11. \A m \in 1 .. p : g[e[m]] = f[c[m]]
  BY <1>7
<1>12. Theirs(g) = Theirs(f)
  BY <1>6, <1>10, <1>11
<1>13. QED BY <1>12 DEF g

\* Leaving lines out makes no line more frequent.
LEMMA PickCount ==
  ASSUME NEW f, Lines(f), NEW I \in SUBSET (DOMAIN f), NEW x
  PROVE  Count(x, Pick(f, I)) <= Count(x, f) /\ Count(x, f) \in Nat /\ Count(x, Pick(f, I)) \in Nat
<1> DEFINE g == Pick(f, I)
           n == Cardinality(I)
           G == {k \in DOMAIN g : g[k] = x}
           F == {i \in DOMAIN f : f[i] = x}
<1>1. DOMAIN f = 1 .. Len(f) /\ Len(f) \in Nat /\ n \in Nat /\ Lines(g) /\ DOMAIN g = 1 .. n /\ I \in SUBSET Nat
  BY Picked
<1>2. PICK d : Enumerates(d, n, I) /\ \A k \in 1 .. n : d[k] \in I /\ g[k] = f[d[k]]
  BY Picked
<1> HIDE DEF g, n
<1>3. IsFiniteSet(F) /\ IsFiniteSet(G) /\ Cardinality(F) \in Nat /\ Cardinality(G) \in Nat
  <2>1. F \in SUBSET (1 .. Len(f)) /\ G \in SUBSET (1 .. n)
    BY <1>1
  <2>2. QED BY <1>1, <2>1, FinitelyMany
<1> DEFINE c == [k \in G |-> d[k]]
<1>4. c \in Injection(G, F)
  <2>1. c \in [G -> F]
    BY <1>1, <1>2
  <2>2. ASSUME NEW k \in G, NEW m \in G, c[k] = c[m] PROVE k = m
    <3>1. k \in 1 .. n /\ m \in 1 .. n /\ k \in Nat /\ m \in Nat /\ d[k] = d[m] /\ d[k] \in Nat
      BY <1>1, <1>2, <2>2
    <3>2. ~(k < m) /\ ~(m < k)
      <4>1. k < m => d[k] < d[m]
        BY <1>2, <3>1 DEF Enumerates
      <4>2. m < k => d[m] < d[k]
        BY <1>2, <3>1 DEF Enumerates
      <4>3. QED BY <3>1, <4>1, <4>2
    <3>3. QED BY <3>1, <3>2
  <2>3. QED BY <2>1, <2>2 DEF Injection, IsInjective
<1> HIDE DEF c, F, G
<1>5. Cardinality(G) <= Cardinality(F)
  BY <1>3, <1>4, FS_Injection
<1>6. Count(x, f) = Cardinality(F) /\ Count(x, g) = Cardinality(G)
  BY DEF Count, F, G
<1>7. QED BY <1>3, <1>5, <1>6 DEF g


-----------------------------------------------------------------------------
(* Texts put together.                                                     *)

\* A line is a text.
LEMMA OneLine ==
  ASSUME NEW S, NEW a \in S
  PROVE  <<a>> \in Seq(S)
<1> DEFINE t == <<a>>
<1>1. t \in [1 .. 1 -> S] /\ 1 \in Nat
  OBVIOUS
<1> HIDE DEF t
<1>2. t \in Seq(S)
  BY <1>1, SeqDef
<1>3. QED BY <1>2 DEF t

\* Two lines are.
LEMMA TwoLines ==
  ASSUME NEW S, NEW a \in S, NEW b \in S
  PROVE  <<a, b>> \in Seq(S)
<1> DEFINE t == <<a, b>>
<1>1. t \in [1 .. 2 -> S] /\ 2 \in Nat
  OBVIOUS
<1> HIDE DEF t
<1>2. t \in Seq(S)
  BY <1>1, SeqDef
<1>3. QED BY <1>2 DEF t

\* Four lines are, as many as the block has.
LEMMA FourLines ==
  ASSUME NEW S, NEW a \in S, NEW b \in S, NEW c \in S, NEW d \in S
  PROVE  <<a, b, c, d>> \in Seq(S)
<1> DEFINE t == <<a, b, c, d>>
<1>1. t \in [1 .. 4 -> S] /\ 4 \in Nat
  OBVIOUS
<1> HIDE DEF t
<1>2. t \in Seq(S)
  BY <1>1, SeqDef
<1>3. QED BY <1>2 DEF t

\* What stands in a text that was appended to.
LEMMA Appended ==
  ASSUME NEW f, Lines(f), NEW g, Lines(g)
  PROVE  /\ Lines(f \o g) /\ Len(f) \in Nat /\ Len(g) \in Nat
         /\ DOMAIN f = 1 .. Len(f) /\ DOMAIN g = 1 .. Len(g)
         /\ DOMAIN (f \o g) = 1 .. Len(f) + Len(g) /\ Len(f \o g) = Len(f) + Len(g)
         /\ \A i \in 1 .. Len(f) : (f \o g)[i] = f[i]
         /\ \A i \in 1 .. Len(g) : (f \o g)[Len(f) + i] = g[i]
         /\ \A i \in DOMAIN (f \o g) : i \in DOMAIN f \/ (i > Len(f) /\ i - Len(f) \in DOMAIN g /\ (f \o g)[i] = g[i - Len(f)])
<1>1. f \o g \in Seq(STRING) /\ Len(f) \in Nat /\ Len(g) \in Nat
  BY ConcatProperties, LenProperties DEF Lines
<1>2. DOMAIN f = 1 .. Len(f) /\ DOMAIN g = 1 .. Len(g) /\ Len(f \o g) = Len(f) + Len(g)
  BY ConcatProperties, LenProperties DEF Lines
<1>3. DOMAIN (f \o g) = 1 .. Len(f) + Len(g)
  BY <1>1, <1>2, LenProperties
<1>4. \A i \in 1 .. Len(f) + Len(g) : (f \o g)[i] = IF i <= Len(f) THEN f[i] ELSE g[i - Len(f)]
  BY ConcatProperties DEF Lines
<1>5. ASSUME NEW i \in 1 .. Len(f) PROVE (f \o g)[i] = f[i]
  BY <1>1, <1>4
<1>6. ASSUME NEW i \in 1 .. Len(g) PROVE (f \o g)[Len(f) + i] = g[i]
  <2>1. Len(f) + i \in 1 .. Len(f) + Len(g) /\ ~(Len(f) + i <= Len(f)) /\ Len(f) + i - Len(f) = i
    BY <1>1
  <2>2. QED BY <1>4, <2>1
<1>7. ASSUME NEW i \in DOMAIN (f \o g)
      PROVE  i \in DOMAIN f \/ (i > Len(f) /\ i - Len(f) \in DOMAIN g /\ (f \o g)[i] = g[i - Len(f)])
  <2>1. CASE i <= Len(f)
    BY <1>1, <1>2, <1>3, <2>1
  <2>2. CASE ~(i <= Len(f))
    <3>1. i - Len(f) \in 1 .. Len(g) /\ i > Len(f)
      BY <1>1, <1>3, <2>2
    <3>2. QED BY <1>2, <1>3, <1>4, <2>2, <3>1
  <2>3. QED BY <2>1, <2>2
<1>8. QED BY <1>1, <1>2, <1>3, <1>5, <1>6, <1>7 DEF Lines

\* h is f with g behind it.
Joins(h, f, g) ==
  /\ Lines(h) /\ Len(f) \in Nat /\ Len(g) \in Nat /\ DOMAIN f = 1 .. Len(f) /\ DOMAIN g = 1 .. Len(g)
  /\ DOMAIN h = 1 .. Len(f) + Len(g) /\ Len(h) = Len(f) + Len(g)
  /\ \A i \in 1 .. Len(f) : h[i] = f[i]
  /\ \A i \in 1 .. Len(g) : h[Len(f) + i] = g[i]
  /\ \A i \in DOMAIN h : i \in DOMAIN f \/ (i > Len(f) /\ i - Len(f) \in DOMAIN g /\ h[i] = g[i - Len(f)])

\* The same of the text by a name of its own.
LEMMA AppendedTo ==
  ASSUME NEW f, Lines(f), NEW g, Lines(g), NEW h, h = f \o g
  PROVE  Joins(h, f, g)
<1>1. Lines(h) /\ Len(f) \in Nat /\ Len(g) \in Nat /\ DOMAIN f = 1 .. Len(f) /\ DOMAIN g = 1 .. Len(g)
  BY Appended
<1>2. DOMAIN h = 1 .. Len(f) + Len(g) /\ Len(h) = Len(f) + Len(g)
  BY Appended
<1>3. \A i \in 1 .. Len(f) : h[i] = f[i]
  BY Appended
<1>4. \A i \in 1 .. Len(g) : h[Len(f) + i] = g[i]
  BY Appended
<1>5. \A i \in DOMAIN h : i \in DOMAIN f \/ (i > Len(f) /\ i - Len(f) \in DOMAIN g /\ h[i] = g[i - Len(f)])
  BY Appended
<1>6. QED BY <1>1, <1>2, <1>3, <1>4, <1>5 DEF Joins

\* What is behind them changes nothing about the lines that are picked.
LEMMA PickAppended ==
  ASSUME NEW f, Lines(f), NEW g, Lines(g), NEW I \in SUBSET (DOMAIN f)
  PROVE  Pick(f \o g, I) = Pick(f, I)
<1>1. I \in SUBSET Nat
  BY Picked
<1>2. PICK d : Enumerates(d, Cardinality(I), I)
  BY Picked
<1>3. Pick(f, I) = [k \in 1 .. Cardinality(I) |-> f[d[k]]]
  BY <1>1, <1>2, PickIs
<1>4. Pick(f \o g, I) = [k \in 1 .. Cardinality(I) |-> (f \o g)[d[k]]]
  BY <1>1, <1>2, PickIs
<1>5. \A k \in 1 .. Cardinality(I) : (f \o g)[d[k]] = f[d[k]]
  <2> DEFINE h == f \o g
  <2>1. \A i \in DOMAIN f : h[i] = f[i]
    <3>1. DOMAIN f = 1 .. Len(f)
      BY Appended
    <3>2. \A i \in 1 .. Len(f) : h[i] = f[i]
      BY Appended
    <3>3. QED BY <3>1, <3>2
  <2>2. \A k \in 1 .. Cardinality(I) : d[k] \in DOMAIN f
    BY <1>2 DEF Enumerates
  <2>3. QED BY <2>1, <2>2
<1>6. QED BY <1>3, <1>4, <1>5

\* A text of ours behind them leaves their lines as they are.
LEMMA TheirsBefore ==
  ASSUME NEW f, Lines(f), NEW g, Lines(g), \A i \in DOMAIN g : ~Foreign(g[i])
  PROVE  Theirs(f \o g) = Theirs(f)
<1>1. TheirLines(f \o g) = TheirLines(f)
  <2>1. DOMAIN f = 1 .. Len(f) /\ Len(f) \in Nat /\ Len(g) \in Nat /\ DOMAIN (f \o g) = 1 .. Len(f) + Len(g)
    BY Appended
  <2>2. ASSUME NEW i \in TheirLines(f) PROVE i \in TheirLines(f \o g)
    BY <2>1, Appended DEF TheirLines
  <2>3. ASSUME NEW i \in TheirLines(f \o g) PROVE i \in TheirLines(f)
    <3>1. i \in DOMAIN (f \o g) /\ Foreign((f \o g)[i])
      BY DEF TheirLines
    <3>2. i \in DOMAIN f
      BY <3>1, Appended
    <3>3. (f \o g)[i] = f[i]
      BY <2>1, <3>2, Appended
    <3>4. QED BY <3>1, <3>2, <3>3 DEF TheirLines
  <2>4. QED BY <2>2, <2>3
<1>2. TheirLines(f) \in SUBSET (DOMAIN f)
  BY DEF TheirLines
<1>3. Theirs(f \o g) = Pick(f \o g, TheirLines(f)) /\ Theirs(f) = Pick(f, TheirLines(f))
  BY <1>1 DEF Theirs, TheirLines
<1>4. QED BY <1>2, <1>3, PickAppended

\* A line of somebody else behind them is their last.
LEMMA TheirsGrow ==
  ASSUME NEW f, Lines(f), NEW l \in STRING, Foreign(l)
  PROVE  Theirs(f \o <<l, Empty>>) = Append(Theirs(f), l)
<1> DEFINE g == f \o <<l, Empty>>
           n == Len(f)
           I == TheirLines(f)
           p == Cardinality(I)
<1>1. Lines(<<l, Empty>>)
  <2>1. <<l, Empty>> \in Seq(STRING)
    BY LineAssumption, TwoLines
  <2>2. QED BY <2>1 DEF Lines
<1>2. /\ DOMAIN f = 1 .. n /\ n \in Nat /\ Lines(g) /\ DOMAIN g = 1 .. n + 2
      /\ \A i \in 1 .. n : g[i] = f[i]
      /\ g[n + 1] = l /\ g[n + 2] = Empty
  <2> DEFINE t == <<l, Empty>>
  <2>1. Len(t) = 2 /\ t[1] = l /\ t[2] = Empty /\ 1 \in 1 .. 2 /\ 2 \in 1 .. 2
    OBVIOUS
  <2>2. g = f \o t /\ Lines(t)
    BY <1>1
  <2> HIDE DEF t, g, n
  <2>3. /\ Lines(g) /\ Len(f) \in Nat /\ DOMAIN f = 1 .. Len(f)
        /\ DOMAIN g = 1 .. Len(f) + Len(t)
        /\ \A i \in 1 .. Len(f) : g[i] = f[i]
        /\ \A i \in 1 .. Len(t) : g[Len(f) + i] = t[i]
    BY <2>2, Appended
  <2>4. g[Len(f) + 1] = l /\ g[Len(f) + 2] = Empty
    BY <2>1, <2>3
  <2>5. QED BY <2>1, <2>3, <2>4 DEF n
<1>3. I \in SUBSET (DOMAIN f)
  BY DEF TheirLines
<1> HIDE DEF g, n, I
<1>4. TheirLines(g) = I \cup {n + 1}
  <2>1. \A i \in 1 .. n + 2 : i \in 1 .. n \/ i = n + 1 \/ i = n + 2
    BY <1>2
  <2>2. \A i \in 1 .. n : i \in 1 .. n + 2
    BY <1>2
  <2>3. n + 1 \in 1 .. n + 2 /\ n + 2 \in 1 .. n + 2
    BY <1>2
  <2>4. ~Foreign(Empty)
    BY DEF Foreign
  <2>5. QED BY <1>2, <2>1, <2>2, <2>3, <2>4 DEF TheirLines, I
<1>5. p \in Nat /\ I \in SUBSET Nat /\ Lines(Pick(f, I)) /\ Len(Pick(f, I)) = p /\ DOMAIN Pick(f, I) = 1 .. p
  BY <1>3, Picked
<1>6. PICK d : Enumerates(d, p, I) /\ \A k \in 1 .. p : d[k] \in I /\ Pick(f, I)[k] = f[d[k]]
  BY <1>3, Picked
<1> HIDE DEF p
<1> DEFINE e == [k \in 1 .. p + 1 |-> IF k = p + 1 THEN n + 1 ELSE d[k]]
<1>7. \A k \in 1 .. p + 1 : k = p + 1 \/ k \in 1 .. p
  BY <1>5
<1>8. \A k \in 1 .. p : k # p + 1 /\ k \in 1 .. p + 1 /\ d[k] \in 1 .. n
  BY <1>2, <1>3, <1>5, <1>6
<1>9. e[p + 1] = n + 1 /\ \A k \in 1 .. p : e[k] = d[k]
  <2>1. p + 1 \in 1 .. p + 1
    BY <1>5
  <2>2. QED BY <1>8, <2>1
<1>10. e \in [1 .. p + 1 -> I \cup {n + 1}]
  BY <1>6, <1>7
<1> HIDE DEF e
<1>11. Enumerates(e, p + 1, I \cup {n + 1})
  <2>1. ASSUME NEW k \in 1 .. p + 1, NEW m \in 1 .. p + 1, k < m PROVE e[k] < e[m]
    <3>1. k \in 1 .. p
      BY <1>5, <2>1
    <3>2. CASE m = p + 1
      <4>1. e[k] = d[k] /\ d[k] \in 1 .. n /\ e[m] = n + 1
        BY <1>8, <1>9, <3>1, <3>2
      <4>2. QED BY <1>2, <4>1
    <3>3. CASE m \in 1 .. p
      <4>1. d[k] < d[m]
        BY <1>6, <2>1, <3>1, <3>3 DEF Enumerates
      <4>2. QED BY <1>9, <3>1, <3>3, <4>1
    <3>4. QED BY <1>7, <3>2, <3>3
  <2>2. ASSUME NEW i \in I \cup {n + 1} PROVE \E k \in 1 .. p + 1 : e[k] = i
    <3>1. CASE i = n + 1
      <4>1. p + 1 \in 1 .. p + 1
        BY <1>5
      <4>2. QED BY <1>9, <3>1, <4>1
    <3>2. CASE i \in I
      <4>1. PICK k \in 1 .. p : d[k] = i
        BY <1>6, <3>2 DEF Enumerates
      <4>2. QED BY <1>8, <1>9, <4>1
    <3>3. QED BY <3>1, <3>2
  <2>3. p + 1 \in Nat
    BY <1>5
  <2>4. QED BY <1>10, <2>1, <2>2, <2>3 DEF Enumerates
<1>12. I \cup {n + 1} \in SUBSET Nat
  BY <1>2, <1>5
<1>13. Theirs(g) = [k \in 1 .. p + 1 |-> g[e[k]]]
  <2>1. Theirs(g) = Pick(g, I \cup {n + 1})
    BY <1>4 DEF Theirs, TheirLines
  <2>2. Pick(g, I \cup {n + 1}) = [k \in 1 .. p + 1 |-> g[e[k]]]
    BY <1>11, <1>12, PickIs
  <2>3. QED BY <2>1, <2>2
<1>14. Theirs(f) = Pick(f, I)
  BY DEF Theirs, TheirLines, I
<1>15. Append(Theirs(f), l) = [k \in 1 .. p + 1 |-> IF k <= p THEN Theirs(f)[k] ELSE l]
  <2> DEFINE T == Theirs(f)
             A == Append(T, l)
  <2>1. T \in Seq(STRING) /\ Len(T) = p
    BY <1>5, <1>14 DEF Lines
  <2> HIDE DEF T
  <2>2. /\ A \in Seq(STRING) /\ Len(A) = Len(T) + 1
        /\ \A k \in 1 .. Len(T) : A[k] = T[k]
        /\ A[Len(T) + 1] = l
    <3>1. T \in Seq(STRING)
      BY <2>1
    <3>2. A \in Seq(STRING) /\ Len(A) = Len(T) + 1
      BY <3>1, AppendProperties
    <3>3. \A k \in 1 .. Len(T) : A[k] = T[k]
      BY <3>1, AppendProperties
    <3>4. A[Len(T) + 1] = l
      BY <3>1, AppendProperties
    <3>5. QED BY <3>2, <3>3, <3>4
  <2> HIDE DEF A
  <2>3. DOMAIN A = 1 .. p + 1
    BY <2>1, <2>2, LenProperties
  <2>4. \A k \in 1 .. p + 1 : A[k] = IF k <= p THEN T[k] ELSE l
    <3>1. \A k \in 1 .. p : k <= p
      BY <1>5
    <3>2. ~(p + 1 <= p)
      BY <1>5
    <3>3. QED BY <1>7, <2>1, <2>2, <3>1, <3>2
  <2>5. A = [k \in DOMAIN A |-> A[k]]
    BY <2>2
  <2>6. A = [k \in 1 .. p + 1 |-> IF k <= p THEN T[k] ELSE l]
    BY <2>3, <2>4, <2>5
  <2>7. QED BY <2>6 DEF A, T
<1>16. \A k \in 1 .. p + 1 : g[e[k]] = IF k <= p THEN Theirs(f)[k] ELSE l
  <2>1. ASSUME NEW k \in 1 .. p PROVE g[e[k]] = Theirs(f)[k] /\ k <= p
    <3>1. e[k] = d[k] /\ d[k] \in 1 .. n /\ k <= p
      BY <1>5, <1>8, <1>9
    <3>2. QED BY <1>2, <1>6, <1>14, <3>1
  <2>2. ~(p + 1 <= p)
    BY <1>5
  <2>3. g[e[p + 1]] = l
    BY <1>2, <1>9, Zenon
  <2>4. QED BY <1>7, <2>1, <2>2, <2>3
<1>17. Theirs(g) = Append(Theirs(f), l)
  BY <1>13, <1>15, <1>16
<1>18. QED BY <1>17 DEF g

\* A line that is not among those behind them is as frequent as before.
LEMMA CountBefore ==
  ASSUME NEW f, Lines(f), NEW g, Lines(g), NEW x, \A i \in DOMAIN g : g[i] # x
  PROVE  Count(x, f \o g) = Count(x, f)
<1>1. {i \in DOMAIN (f \o g) : (f \o g)[i] = x} = {i \in DOMAIN f : f[i] = x}
  <2>1. DOMAIN f = 1 .. Len(f) /\ Len(f) \in Nat /\ Len(g) \in Nat /\ DOMAIN (f \o g) = 1 .. Len(f) + Len(g)
    BY Appended
  <2>2. \A i \in DOMAIN f : i \in DOMAIN (f \o g) /\ (f \o g)[i] = f[i]
    BY <2>1, Appended
  <2>3. \A i \in DOMAIN (f \o g) : (f \o g)[i] = x => i \in DOMAIN f
    BY Appended
  <2>4. QED BY <2>2, <2>3
<1>2. QED BY <1>1 DEF Count


-----------------------------------------------------------------------------
(* The edits of torrc.                                                     *)

\* The lines of the block differ from each other and from an empty one.
LEMMA Distinct ==
  /\ Begin # End /\ Begin # Empty /\ Begin # OwnDir /\ Begin # OwnPort
  /\ End # Empty /\ End # OwnDir /\ End # OwnPort
  /\ Empty # OwnDir /\ OwnPort # OwnDir
BY Zenon DEF Begin, End, Empty, OwnDir, OwnPort

OutsideLines(f) == {f[i] : i \in {j \in DOMAIN f : f[j] # End /\ ~Inside(f, j)}}

\* g is f with lines left out, and with empty ones added.
Shortens(g, f) ==
  /\ Lines(g)
  /\ \A k \in DOMAIN g : g[k] = Empty \/ \E i \in DOMAIN f : g[k] = f[i]
  /\ Count(OwnDir, g) \in Nat /\ Count(OwnDir, f) \in Nat /\ Count(OwnDir, g) <= Count(OwnDir, f)

\* Shortened twice is shortened.
LEMMA ShortensAgain ==
  ASSUME NEW f, NEW g, NEW h, Shortens(h, g), Shortens(g, f)
  PROVE  Shortens(h, f)
<1>1. ASSUME NEW k \in DOMAIN h PROVE h[k] = Empty \/ \E i \in DOMAIN f : h[k] = f[i]
  <2>1. h[k] = Empty \/ \E i \in DOMAIN g : h[k] = g[i]
    BY DEF Shortens
  <2>2. \A i \in DOMAIN g : g[i] = Empty \/ \E j \in DOMAIN f : g[i] = f[j]
    BY DEF Shortens
  <2>3. QED BY <2>1, <2>2
<1>2. /\ Count(OwnDir, h) \in Nat /\ Count(OwnDir, g) \in Nat /\ Count(OwnDir, f) \in Nat
      /\ Count(OwnDir, h) <= Count(OwnDir, g) /\ Count(OwnDir, g) <= Count(OwnDir, f)
  BY DEF Shortens
<1>3. Count(OwnDir, h) <= Count(OwnDir, f)
  BY <1>2
<1>4. QED BY <1>1, <1>2, <1>3 DEF Shortens

\* What Pick returns is shortened.
LEMMA PickShortens ==
  ASSUME NEW f, Lines(f), NEW I \in SUBSET (DOMAIN f)
  PROVE  Shortens(Pick(f, I), f)
<1>1. Lines(Pick(f, I))
  BY Picked
<1>2. ASSUME NEW k \in DOMAIN Pick(f, I) PROVE \E i \in DOMAIN f : Pick(f, I)[k] = f[i]
  <2>1. k \in 1 .. Cardinality(I)
    BY Picked
  <2>2. PICK d : \A m \in 1 .. Cardinality(I) : d[m] \in I /\ Pick(f, I)[m] = f[d[m]]
    BY Picked
  <2>3. QED BY <2>1, <2>2
<1>3. /\ Count(OwnDir, Pick(f, I)) <= Count(OwnDir, f)
      /\ Count(OwnDir, f) \in Nat /\ Count(OwnDir, Pick(f, I)) \in Nat
  BY PickCount
<1>4. QED BY <1>1, <1>2, <1>3 DEF Shortens

\* A text with an empty line behind it, or as it is.
LEMMA Padded ==
  ASSUME NEW f, Lines(f), NEW e \in {<<>>, <<Empty>>}
  PROVE  Shortens(f \o e, f) /\ Theirs(f \o e) = Theirs(f)
<1>1. Lines(e) /\ \A i \in DOMAIN e : e[i] = Empty
  <2>1. <<Empty>> \in Seq(STRING) /\ <<>> \in Seq(STRING)
    BY LineAssumption, OneLine, EmptySeq
  <2>2. DOMAIN <<Empty>> = 1 .. 1 /\ <<Empty>>[1] = Empty /\ DOMAIN <<>> = {}
    OBVIOUS
  <2>3. \A i \in 1 .. 1 : i = 1
    OBVIOUS
  <2>4. QED BY <2>1, <2>2, <2>3 DEF Lines
<1>2. ~Foreign(Empty) /\ Empty # OwnDir
  BY Distinct DEF Foreign
<1>3. Theirs(f \o e) = Theirs(f)
  BY <1>1, <1>2, TheirsBefore
<1>4. Count(OwnDir, f \o e) = Count(OwnDir, f)
  BY <1>1, <1>2, CountBefore
<1>5. Count(OwnDir, f) \in Nat
  <2>1. DOMAIN f \in SUBSET (DOMAIN f)
    OBVIOUS
  <2>2. QED BY <2>1, PickCount
<1>6. Lines(f \o e)
  BY <1>1, Appended
<1>7. ASSUME NEW k \in DOMAIN (f \o e) PROVE (f \o e)[k] = Empty \/ \E i \in DOMAIN f : (f \o e)[k] = f[i]
  <2>1. DOMAIN f = 1 .. Len(f)
    BY <1>1, Appended
  <2>2. CASE k \in DOMAIN f
    <3>1. (f \o e)[k] = f[k]
      BY <1>1, <2>1, <2>2, Appended
    <3>2. QED BY <2>2, <3>1
  <2>3. CASE k \notin DOMAIN f
    <3>1. k - Len(f) \in DOMAIN e /\ (f \o e)[k] = e[k - Len(f)]
      BY <1>1, <2>3, Appended
    <3>2. QED BY <1>1, <3>1
  <2>4. QED BY <2>2, <2>3
<1>8. Count(OwnDir, f \o e) <= Count(OwnDir, f)
  BY <1>4, <1>5
<1>9. QED BY <1>3, <1>4, <1>5, <1>6, <1>7, <1>8 DEF Shortens

\* The empty lines that go take no line of anybody with them.
LEMMA TrimShortens ==
  ASSUME NEW f, Lines(f)
  PROVE  /\ Shortens(Trim(f), f) /\ Theirs(Trim(f)) = Theirs(f)
         /\ Shortens(Collapse(f), f) /\ Theirs(Collapse(f)) = Theirs(f)
<1>1. DOMAIN f = 1 .. Len(f) /\ Len(f) \in Nat
  BY LenProperties DEF Lines
<1>2. \A i \in TheirLines(f) : i \in DOMAIN f /\ f[i] # Empty
  BY DEF TheirLines, Foreign
<1> DEFINE T == {i \in DOMAIN f : \E j \in i .. Len(f) : f[j] # Empty}
           C == {i \in DOMAIN f : ~(i >= 3 /\ f[i] = Empty /\ f[i - 1] = Empty)}
<1>3. T \in SUBSET (DOMAIN f) /\ TheirLines(f) \subseteq T
  <2>1. \A i \in DOMAIN f : i \in i .. Len(f)
    BY <1>1
  <2>2. QED BY <1>2, <2>1
<1>4. C \in SUBSET (DOMAIN f) /\ TheirLines(f) \subseteq C
  BY <1>2
<1>5. Trim(f) = Pick(f, T) /\ Collapse(f) = Pick(f, C)
  BY DEF Trim, Collapse
<1> HIDE DEF T, C
<1>6. Shortens(Pick(f, T), f) /\ Theirs(Pick(f, T)) = Theirs(f)
  BY <1>3, PickShortens, PickTheirs
<1>7. Shortens(Pick(f, C), f) /\ Theirs(Pick(f, C)) = Theirs(f)
  BY <1>4, PickShortens, PickTheirs
<1>8. QED BY <1>5, <1>6, <1>7

\* Outside the block there is no marker, and of a tidy text all that is theirs.
LEMMA OutsideShortens ==
  ASSUME NEW f, Lines(f)
  PROVE  /\ Shortens(Outside(f), f)
         /\ \A k \in DOMAIN Outside(f) : Outside(f)[k] \in OutsideLines(f)
         /\ Begin \notin OutsideLines(f) /\ End \notin OutsideLines(f)
         /\ Tidy(f) => Theirs(Outside(f)) = Theirs(f)
<1> DEFINE I == {i \in DOMAIN f : f[i] # End /\ ~Inside(f, i)}
<1>1. I \in SUBSET (DOMAIN f) /\ Outside(f) = Pick(f, I)
  BY DEF Outside
<1>2. OutsideLines(f) = {f[i] : i \in I}
  BY DEF OutsideLines
<1>3. Begin \notin OutsideLines(f) /\ End \notin OutsideLines(f)
  <2>1. ASSUME NEW i \in I, f[i] = Begin PROVE FALSE
    <3>1. i \in 1 .. i /\ \A e \in i .. i : e = i
      <4>1. i \in 1 .. Len(f) /\ Len(f) \in Nat
        BY LenProperties DEF Lines
      <4>2. QED BY <4>1
    <3>2. Begin # End
      BY Distinct
    <3>3. Inside(f, i)
      BY <2>1, <3>1, <3>2 DEF Inside
    <3>4. QED BY <3>3
  <2>2. QED BY <1>2, <2>1
<1>4. Tidy(f) => TheirLines(f) \subseteq I
  BY DEF Tidy, TheirLines, Foreign
<1> HIDE DEF I
<1>5. ASSUME NEW k \in DOMAIN Pick(f, I) PROVE Pick(f, I)[k] \in OutsideLines(f)
  <2>1. k \in 1 .. Cardinality(I)
    BY <1>1, Picked
  <2>2. PICK d : \A m \in 1 .. Cardinality(I) : d[m] \in I /\ Pick(f, I)[m] = f[d[m]]
    BY <1>1, Picked
  <2>3. QED BY <1>2, <2>1, <2>2
<1>6. Shortens(Pick(f, I), f)
  BY <1>1, PickShortens
<1>7. Tidy(f) => Theirs(Pick(f, I)) = Theirs(f)
  BY <1>1, <1>4, PickTheirs
<1>8. QED BY <1>1, <1>3, <1>5, <1>6, <1>7

\* removeBlock: nothing of ours is added, and of a tidy text nothing of theirs
\* is lost.
LEMMA Removed ==
  ASSUME NEW f, Lines(f)
  PROVE  /\ Shortens(RemoveBlock(f), f)
         /\ \A k \in DOMAIN RemoveBlock(f) : RemoveBlock(f)[k] \in {Empty} \cup OutsideLines(f)
         /\ Tidy(f) => Theirs(RemoveBlock(f)) = Theirs(f)
<1> DEFINE o == Outside(f)
           c == Collapse(o)
           t == Trim(c)
           e == IF t = <<>> THEN <<Empty>> ELSE <<>>
           g == t \o e
           r == g \o <<Empty>>
<1>1. RemoveBlock(f) = r
  <2>1. Lines(c) /\ Lines(t)
    BY OutsideShortens, TrimShortens DEF Shortens
  <2>2. t \in Seq(STRING) /\ <<Empty>> \in Seq(STRING)
    BY <2>1, LineAssumption, OneLine DEF Lines
  <2>3. (IF t = <<>> THEN <<Empty>> ELSE t) = g
    <3> HIDE DEF t
    <3>1. t = <<>> => t \o <<Empty>> = <<Empty>>
      BY <2>2, ConcatEmptySeq
    <3>2. t \o <<>> = t
      BY <2>2, ConcatEmptySeq
    <3>3. QED BY <3>1, <3>2
  <2>4. RemoveBlock(f) = (IF t = <<>> THEN <<Empty>> ELSE t) \o <<Empty>>
    BY DEF RemoveBlock
  <2>5. QED BY <2>3, <2>4
<1>2. Shortens(o, f) /\ (\A k \in DOMAIN o : o[k] \in OutsideLines(f)) /\ (Tidy(f) => Theirs(o) = Theirs(f))
  BY OutsideShortens
<1> HIDE DEF o
<1>3. Shortens(c, o) /\ Theirs(c) = Theirs(o)
  BY <1>2, TrimShortens DEF Shortens
<1> HIDE DEF c
<1>4. Shortens(t, c) /\ Theirs(t) = Theirs(c)
  BY <1>3, TrimShortens DEF Shortens
<1> HIDE DEF t
<1>5. Shortens(g, t) /\ Theirs(g) = Theirs(t)
  <2>1. Lines(t) /\ e \in {<<>>, <<Empty>>}
    BY <1>4 DEF Shortens
  <2> HIDE DEF e
  <2>2. QED BY <2>1, Padded
<1> HIDE DEF g
<1>6. Shortens(r, g) /\ Theirs(r) = Theirs(g)
  BY <1>5, Padded DEF Shortens
<1> HIDE DEF r
<1>7. Shortens(c, o) /\ Shortens(t, o) /\ Shortens(g, o) /\ Shortens(r, o)
  BY <1>3, <1>4, <1>5, <1>6, ShortensAgain
<1>8. Shortens(r, f)
  BY <1>2, <1>7, ShortensAgain
<1>9. ASSUME NEW k \in DOMAIN r PROVE r[k] \in {Empty} \cup OutsideLines(f)
  <2>1. r[k] = Empty \/ \E i \in DOMAIN o : r[k] = o[i]
    BY <1>7 DEF Shortens
  <2>2. QED BY <1>2, <2>1
<1>10. Tidy(f) => Theirs(r) = Theirs(f)
  BY <1>2, <1>3, <1>4, <1>5, <1>6
<1>11. QED BY <1>1, <1>8, <1>9, <1>10


\* The text that mergeTorrc returns, line by line.
LEMMA BehindBase ==
  ASSUME NEW h, Lines(h), NEW m, m = h \o Block \o <<Empty>>
  PROVE  /\ Lines(m) /\ Len(h) \in Nat /\ DOMAIN h = 1 .. Len(h)
         /\ DOMAIN m = 1 .. Len(h) + 5 /\ Len(m) = Len(h) + 5
         /\ \A i \in 1 .. Len(h) : m[i] = h[i]
         /\ m[Len(h) + 1] = Begin /\ m[Len(h) + 2] = OwnDir /\ m[Len(h) + 3] = OwnPort
         /\ m[Len(h) + 4] = End /\ m[Len(h) + 5] = Empty
         /\ Theirs(m) = Theirs(h)
<1> DEFINE e == <<Empty>>
           b == h \o Block
<1>0. b = h \o Block /\ m = b \o e
  OBVIOUS
<1>1. /\ Block[1] = Begin /\ Block[2] = OwnDir /\ Block[3] = OwnPort /\ Block[4] = End
      /\ Len(Block) = 4 /\ DOMAIN Block = 1 .. 4
  BY DEF Block
<1>2. e[1] = Empty /\ Len(e) = 1 /\ DOMAIN e = 1 .. 1
  OBVIOUS
<1>3. Lines(Block) /\ Lines(e)
  <2>1. Block \in Seq(STRING)
    BY LineAssumption, FourLines DEF Block
  <2>2. e \in Seq(STRING)
    BY LineAssumption, OneLine
  <2>3. QED BY <2>1, <2>2 DEF Lines
<1>4. \A i \in DOMAIN Block : ~Foreign(Block[i])
  <2>1. \A i \in 1 .. 4 : i = 1 \/ i = 2 \/ i = 3 \/ i = 4
    OBVIOUS
  <2>2. QED BY <1>1, <2>1 DEF Foreign
<1>5. \A i \in DOMAIN e : ~Foreign(e[i])
  BY <1>2 DEF Foreign
<1> HIDE DEF e
<1>6. /\ Lines(b) /\ Len(h) \in Nat /\ DOMAIN h = 1 .. Len(h) /\ Len(b) = Len(h) + 4
      /\ \A i \in 1 .. Len(h) : b[i] = h[i]
      /\ \A i \in 1 .. 4 : b[Len(h) + i] = Block[i]
  <2> HIDE DEF b
  <2>1. Joins(b, h, Block)
    BY <1>0, <1>3, AppendedTo
  <2>2. QED BY <1>1, <2>1 DEF Joins
<1>7. Theirs(b) = Theirs(h)
  BY <1>3, <1>4, TheirsBefore
<1> HIDE DEF b
<1>9. /\ Lines(m) /\ Len(m) = Len(b) + 1 /\ DOMAIN m = 1 .. Len(b) + 1
      /\ \A i \in 1 .. Len(b) : m[i] = b[i]
      /\ \A i \in 1 .. 1 : m[Len(b) + i] = e[i]
  <2>1. Joins(m, b, e)
    BY <1>0, <1>3, <1>6, AppendedTo
  <2>2. QED BY <1>2, <2>1 DEF Joins
<1>10. Theirs(m) = Theirs(h)
  BY <1>0, <1>3, <1>5, <1>6, <1>7, TheirsBefore
<1>11. /\ 1 \in 1 .. 4 /\ 2 \in 1 .. 4 /\ 3 \in 1 .. 4 /\ 4 \in 1 .. 4 /\ 1 \in 1 .. 1
       /\ \A i \in 1 .. Len(h) : i \in 1 .. Len(b)
       /\ \A i \in 1 .. 4 : Len(h) + i \in 1 .. Len(b)
       /\ Len(b) + 1 = Len(h) + 5
  BY <1>6
<1>12. \A i \in 1 .. Len(h) : m[i] = h[i]
  BY <1>6, <1>9, <1>11
<1>13. \A i \in 1 .. 4 : m[Len(h) + i] = Block[i]
  BY <1>6, <1>9, <1>11
<1>14. m[Len(h) + 5] = Empty
  BY <1>2, <1>9, <1>11
<1>15. QED BY <1>1, <1>6, <1>9, <1>10, <1>11, <1>12, <1>13, <1>14

\* mergeTorrc declares our service once, closes its block, and of a tidy text
\* loses nothing that is theirs.
LEMMA Merged ==
  ASSUME NEW f, Lines(f), MayMerge(f)
  PROVE  /\ Lines(MergeTorrc(f)) /\ Count(OwnDir, MergeTorrc(f)) = 1 /\ Tidy(MergeTorrc(f))
         /\ Tidy(f) => Theirs(MergeTorrc(f)) = Theirs(f)
<1> DEFINE r == RemoveBlock(f)
           base == Trim(r)
           e == IF base = <<>> THEN <<>> ELSE <<Empty>>
           h == base \o e
           n == Len(h)
           m == h \o Block \o <<Empty>>
<1>1. /\ Shortens(r, f) /\ (\A k \in DOMAIN r : r[k] \in {Empty} \cup OutsideLines(f))
      /\ Tidy(f) => Theirs(r) = Theirs(f)
  BY Removed
<1>2. Shortens(base, r) /\ Theirs(base) = Theirs(r)
  BY <1>1, TrimShortens DEF Shortens
<1>3. MergeTorrc(f) = m
  <2>1. base \in Seq(STRING)
    BY <1>2 DEF Shortens, Lines
  <2>2. (IF base = <<>> THEN <<>> ELSE base \o <<Empty>>) = h
    <3> HIDE DEF base
    <3>1. base \o <<>> = base
      BY <2>1, ConcatEmptySeq
    <3>2. QED BY <3>1
  <2>3. MergeTorrc(f) = (IF base = <<>> THEN <<>> ELSE base \o <<Empty>>) \o Block \o <<Empty>>
    BY DEF MergeTorrc
  <2>4. QED BY <2>2, <2>3
<1> HIDE DEF r, base
<1>4. Shortens(h, base) /\ Theirs(h) = Theirs(base)
  <2>1. Lines(base) /\ e \in {<<>>, <<Empty>>}
    BY <1>2 DEF Shortens
  <2> HIDE DEF e
  <2>2. QED BY <2>1, Padded
<1> HIDE DEF h
<1>5. Shortens(h, r) /\ Lines(h)
  BY <1>2, <1>4, ShortensAgain DEF Shortens
<1>6. \A k \in DOMAIN h : h[k] # Begin /\ h[k] # End /\ h[k] # OwnDir
  <2>1. \A k \in DOMAIN h : h[k] = Empty \/ \E i \in DOMAIN r : h[k] = r[i]
    BY <1>5 DEF Shortens
  <2>2. \A k \in DOMAIN h : h[k] \in {Empty} \cup OutsideLines(f)
    BY <1>1, <2>1
  <2>3. Begin \notin OutsideLines(f) /\ End \notin OutsideLines(f) /\ OwnDir \notin OutsideLines(f)
    BY OutsideShortens DEF MayMerge, HasUnmanagedService, OutsideLines
  <2>4. QED BY <2>2, <2>3, Distinct
<1>7. /\ Lines(m) /\ n \in Nat /\ DOMAIN h = 1 .. n /\ DOMAIN m = 1 .. n + 5 /\ Len(m) = n + 5
      /\ \A i \in 1 .. n : m[i] = h[i]
      /\ m[n + 1] = Begin /\ m[n + 2] = OwnDir /\ m[n + 3] = OwnPort /\ m[n + 4] = End /\ m[n + 5] = Empty
      /\ Theirs(m) = Theirs(h)
  BY <1>5, BehindBase
<1> HIDE DEF m, n
<1>8. \A i \in 1 .. n + 5 : i \in 1 .. n \/ i = n + 1 \/ i = n + 2 \/ i = n + 3 \/ i = n + 4 \/ i = n + 5
  BY <1>7
<1>9. Count(OwnDir, m) = 1
  <2>1. \A i \in 1 .. n + 5 : m[i] = OwnDir => i = n + 2
    BY <1>6, <1>7, <1>8, Distinct
  <2>2. n + 2 \in 1 .. n + 5
    BY <1>7
  <2>3. {i \in DOMAIN m : m[i] = OwnDir} = {n + 2}
    BY <1>7, <2>1, <2>2
  <2>4. QED BY <2>3, FS_Singleton DEF Count
<1>10. \A i \in 1 .. n + 5 : m[i] = Begin => i = n + 1
  BY <1>6, <1>7, <1>8, Distinct
<1>11. ASSUME NEW i \in 1 .. n + 5, Inside(m, i) PROVE i \in {n + 1, n + 2, n + 3}
  <2>1. PICK b \in 1 .. i : m[b] = Begin /\ \A e1 \in b .. i : m[e1] # End
    BY <1>11 DEF Inside
  <2>2. b = n + 1
    <3>1. b \in 1 .. n + 5
      BY <1>7
    <3>2. QED BY <1>10, <2>1, <3>1
  <2>3. ~(n + 4 <= i)
    <3>1. n + 4 <= i => n + 4 \in b .. i
      BY <1>7, <2>2
    <3>2. QED BY <1>7, <2>1, <3>1
  <2>4. QED BY <1>7, <2>2, <2>3
<1>12. Tidy(m)
  <2>1. \A i \in DOMAIN m : Foreign(m[i]) => ~Inside(m, i)
    BY <1>7, <1>11 DEF Foreign
  <2>2. ~Inside(m, Len(m))
    <3>1. n + 5 \in 1 .. n + 5 /\ n + 5 \notin {n + 1, n + 2, n + 3}
      BY <1>7
    <3>2. QED BY <1>7, <1>11, <3>1
  <2>3. QED BY <2>1, <2>2 DEF Tidy
<1>13. Tidy(f) => Theirs(m) = Theirs(f)
  BY <1>1, <1>2, <1>4, <1>7
<1>14. QED BY <1>3, <1>7, <1>9, <1>12, <1>13

\* A line of theirs and an empty one behind a text leave its block as it is.
LEMMA Grown ==
  ASSUME NEW f, Lines(f), NEW l \in STRING, Foreign(l), NEW g, g = f \o <<l, Empty>>
  PROVE  /\ Lines(g) /\ Count(OwnDir, g) = Count(OwnDir, f)
         /\ Balanced(g) => Balanced(f)
         /\ Tidy(f) => Tidy(g)
<1> DEFINE t == <<l, Empty>>
<1>1. Lines(t)
  <2>1. t \in Seq(STRING)
    BY LineAssumption, TwoLines
  <2>2. QED BY <2>1 DEF Lines
<1>2. \A i \in DOMAIN t : t[i] # Begin /\ t[i] # End /\ t[i] # OwnDir
  <2>1. DOMAIN t = 1 .. 2 /\ t[1] = l /\ t[2] = Empty
    OBVIOUS
  <2>2. \A i \in 1 .. 2 : i = 1 \/ i = 2
    OBVIOUS
  <2>3. QED BY <2>1, <2>2, Distinct DEF Foreign
<1>3. g = f \o t
  OBVIOUS
<1> HIDE DEF t
<1>0. Joins(g, f, t)
  BY <1>1, <1>3, AppendedTo
<1>4. Count(OwnDir, g) = Count(OwnDir, f) /\ Count(Begin, g) = Count(Begin, f) /\ Count(End, g) = Count(End, f)
  <2>1. Count(OwnDir, f \o t) = Count(OwnDir, f)
    BY <1>1, <1>2, CountBefore
  <2>2. Count(Begin, f \o t) = Count(Begin, f)
    BY <1>1, <1>2, CountBefore
  <2>3. Count(End, f \o t) = Count(End, f)
    BY <1>1, <1>2, CountBefore
  <2>4. QED BY <1>3, <2>1, <2>2, <2>3, Zenon
<1>5. /\ Lines(g) /\ Len(f) \in Nat /\ Len(t) \in Nat /\ DOMAIN f = 1 .. Len(f)
      /\ DOMAIN g = 1 .. Len(f) + Len(t) /\ Len(g) = Len(f) + Len(t)
      /\ \A i \in 1 .. Len(f) : g[i] = f[i]
  BY <1>0 DEF Joins
<1>6. \A i \in DOMAIN g : g[i] = Begin => i \in 1 .. Len(f)
  <2>1. \A i \in DOMAIN g : i \in DOMAIN f \/ (i - Len(f) \in DOMAIN t /\ g[i] = t[i - Len(f)])
    BY <1>0 DEF Joins
  <2>2. QED BY <1>2, <1>5, <2>1
<1>7. ASSUME Tidy(f) PROVE Tidy(g)
  <2>1. ASSUME NEW i \in 1 .. Len(g), Inside(g, i) PROVE i \in 1 .. Len(f) /\ Inside(f, i)
    <3>1. PICK b \in 1 .. i : g[b] = Begin /\ \A e \in b .. i : g[e] # End
      BY <2>1 DEF Inside
    <3>2. b \in 1 .. Len(f)
      <4>1. b \in DOMAIN g
        BY <1>5
      <4>2. QED BY <1>6, <3>1, <4>1
    <3>3. ASSUME NEW j \in 1 .. Len(f), b <= j, j <= i PROVE Inside(f, j)
      <4>1. b \in 1 .. j /\ f[b] = Begin
        BY <1>5, <3>1, <3>2, <3>3
      <4>2. ASSUME NEW e \in b .. j PROVE f[e] # End
        <5>1. e \in b .. i /\ e \in 1 .. Len(f)
          BY <1>5, <3>2, <3>3
        <5>2. QED BY <1>5, <3>1, <5>1
      <4>3. QED BY <4>1, <4>2 DEF Inside
    <3>4. ~(Len(f) < i)
      <4>1. ASSUME Len(f) < i PROVE FALSE
        <5>1. Len(f) \in 1 .. Len(f) /\ b <= Len(f) /\ Len(f) <= i
          BY <1>5, <3>2, <4>1
        <5>2. Inside(f, Len(f))
          BY <3>3, <5>1
        <5>3. QED BY <1>7, <5>2 DEF Tidy
      <4>2. QED BY <4>1
    <3>5. i \in 1 .. Len(f) /\ b <= i /\ i <= i
      BY <1>5, <3>4
    <3>6. QED BY <3>3, <3>5
  <2>2. \A i \in DOMAIN g : Foreign(g[i]) => ~Inside(g, i)
    BY <1>5, <1>7, <2>1 DEF Tidy
  <2>3. ~Inside(g, Len(g))
    <3>1. ASSUME Inside(g, Len(g)) PROVE FALSE
      <4>1. PICK b \in 1 .. Len(g) : TRUE
        BY <3>1 DEF Inside
      <4>2. Len(g) \in 1 .. Len(g)
        BY <1>5
      <4>3. Len(g) \in 1 .. Len(f) /\ Inside(f, Len(g))
        BY <2>1, <3>1, <4>2
      <4>4. Len(g) = Len(f)
        <5>1. Len(f) \in Nat /\ Len(t) \in Nat /\ Len(g) = Len(f) + Len(t) /\ Len(g) <= Len(f)
          BY <1>5, <4>3
        <5>2. QED BY <5>1
      <4>5. QED BY <1>7, <4>3, <4>4 DEF Tidy
    <3>2. QED BY <3>1
  <2>4. QED BY <2>2, <2>3 DEF Tidy
<1>8. QED BY <1>4, <1>5, <1>7 DEF Balanced


\* torrc: what each writer of it leaves.
LEMMA TorrcKeeps ==
  ASSUME TorrcInv, [Next]_vars
  PROVE  TorrcInv'
<1>1. Lines(torrc) /\ Theirs(torrc) = theirs /\ Count(OwnDir, torrc) <= 1 /\ (Balanced(torrc) => Tidy(torrc))
  BY DEF TorrcInv, Lines
<1>2. CASE WriteTorrc
  <2>1. MayMerge(torrc) /\ torrc' = MergeTorrc(torrc) /\ theirs' = theirs
    BY <1>2 DEF WriteTorrc, history
  <2>2. Tidy(torrc)
    BY <1>1, <2>1 DEF MayMerge
  <2>3. Lines(torrc') /\ Count(OwnDir, torrc') = 1 /\ Tidy(torrc') /\ Theirs(torrc') = Theirs(torrc)
    BY <1>1, <2>1, <2>2, Merged
  <2>4. QED BY <1>1, <2>1, <2>3 DEF TorrcInv, Lines
<1>3. CASE CleanTorrc
  <2>1. Balanced(torrc) /\ theirs' = theirs /\ torrc' \in {torrc, RemoveBlock(torrc)}
    BY <1>3 DEF CleanTorrc, history
  <2>2. CASE torrc' = torrc
    BY <1>1, <2>1, <2>2 DEF TorrcInv, Lines
  <2>3. CASE torrc' = RemoveBlock(torrc)
    <3>1. Shortens(torrc', torrc) /\ Theirs(torrc') = Theirs(torrc)
      BY <1>1, <2>1, <2>3, Removed
    <3>2. Lines(torrc') /\ Count(OwnDir, torrc') <= 1
      <4>1. /\ Count(OwnDir, torrc') \in Nat /\ Count(OwnDir, torrc) \in Nat
            /\ Count(OwnDir, torrc') <= Count(OwnDir, torrc)
        BY <3>1 DEF Shortens
      <4>2. QED BY <1>1, <3>1, <4>1 DEF Shortens
    <3>3. \A k \in DOMAIN torrc' : torrc'[k] # Begin
      <4>1. \A k \in DOMAIN torrc' : torrc'[k] \in {Empty} \cup OutsideLines(torrc)
        BY <1>1, <2>3, Removed
      <4>2. Begin \notin OutsideLines(torrc)
        BY <1>1, OutsideShortens
      <4>3. QED BY <4>1, <4>2, Distinct
    <3>4. Tidy(torrc')
      <4>1. DOMAIN torrc' = 1 .. Len(torrc') /\ Len(torrc') \in Nat
        BY <3>2, LenProperties DEF Lines
      <4>2. ASSUME NEW i \in 0 .. Len(torrc'), Inside(torrc', i) PROVE FALSE
        <5>1. PICK b \in 1 .. i : torrc'[b] = Begin
          BY <4>2 DEF Inside
        <5>2. b \in DOMAIN torrc'
          BY <4>1
        <5>3. QED BY <3>3, <5>1, <5>2
      <4>3. \A i \in DOMAIN torrc' : i \in 0 .. Len(torrc')
        BY <4>1
      <4>4. Len(torrc') \in 0 .. Len(torrc')
        BY <4>1
      <4>5. QED BY <4>2, <4>3, <4>4 DEF Tidy
    <3>5. QED BY <1>1, <2>1, <3>1, <3>2, <3>4 DEF TorrcInv, Lines
  <2>4. QED BY <2>1, <2>2, <2>3
<1>4. CASE EditTorrc
  <2>1. PICK l \in Added : torrc' = torrc \o <<l, Empty>> /\ theirs' = Append(theirs, l)
    BY <1>4 DEF EditTorrc
  <2>2. l \in STRING /\ Foreign(l)
    BY HostAssumption
  <2>3. /\ Lines(torrc') /\ Count(OwnDir, torrc') = Count(OwnDir, torrc)
        /\ Balanced(torrc') => Balanced(torrc)
        /\ Tidy(torrc) => Tidy(torrc')
    BY <1>1, <2>1, <2>2, Grown
  <2>4. Theirs(torrc \o <<l, Empty>>) = Append(Theirs(torrc), l)
    BY <1>1, <2>2, TheirsGrow
  <2>5. Theirs(torrc') = theirs'
    BY <1>1, <2>1, <2>4, Zenon
  <2>6. QED BY <1>1, <2>3, <2>5 DEF TorrcInv, Lines
<1>5. CASE UNCHANGED <<torrc, theirs>>
  <2>1. torrc' = torrc /\ theirs' = theirs
    BY <1>5
  <2>2. TorrcInv /\ torrc' = torrc /\ theirs' = theirs => TorrcInv'
    <3>1. Theirs(torrc)' = Theirs(torrc') /\ Count(OwnDir, torrc)' = Count(OwnDir, torrc')
      OBVIOUS
    <3>2. Balanced(torrc)' = Balanced(torrc') /\ Tidy(torrc)' = Tidy(torrc')
      OBVIOUS
    <3>3. QED BY <3>1, <3>2, Zenon DEF TorrcInv
  <2>3. QED BY <2>1, <2>2
<1>6. QED BY <1>2, <1>3, <1>4, <1>5, Writers

-----------------------------------------------------------------------------
\* What holds of a machine in every behaviour: the command, the service and
\* the files agree, what was recorded is what the service would write back, and
\* torrc holds what others put there.
THEOREM HostInductive == Spec => [](HostTypeOK /\ FilesInv /\ TorrcInv)
<1>1. Init => HostTypeOK /\ FilesInv /\ TorrcInv
  <2> SUFFICES ASSUME Init PROVE HostTypeOK /\ FilesInv /\ TorrcInv
    OBVIOUS
  <2>1. TorrcInv
    BY TorrcsAssumption DEF Init, TorrcInv, Balanced
  <2>2. MaxCommands \in Nat /\ MaxEdits \in Nat
    BY HostAssumption
  <2>3. HostTypeOK
    <3>1. seed = None /\ password = NoPassword /\ state = NoState
      BY DEF Init
    <3>2. state \in States /\ password \in Passwords
      BY <3>1, Values
    <3>3. service = Stopped /\ Stopped.on = FALSE /\ Stopped.read = NoState /\ Stopped.senders = {}
      BY DEF Init, Stopped
    <3>4. service.on \in BOOLEAN /\ service.read \in States /\ service.senders \subseteq Customers /\ ~service.on
      BY <3>3, Values
    <3>5. directory \in [CodesOf -> {None, "created", "claimed"}] /\ told \in [Customers -> SUBSET Wallets]
      BY DEF Init
    <3>6. recorded \in [onion : {0} \cup Onions, paynym : {None, "claimed", "pending"}]
      BY DEF Init, NothingRecorded
    <3>7. command.name = None
      BY DEF Init, NoCommand
    <3>8. commands \in 0 .. MaxCommands /\ edits \in 0 .. MaxEdits
      BY <2>2 DEF Init
    <3>9. QED BY <2>1, <3>1, <3>2, <3>4, <3>5, <3>6, <3>7, <3>8 DEF HostTypeOK, TorrcInv, Init
  <2>4. CommandInv
    <3>1. NoPassword \in Passwords
      BY HostAssumption
    <3>2. QED BY <3>1 DEF Init, CommandInv, CommandType, NoCommand, StepsOf, None, OfInit
  <2>5. ServiceInv
    BY Values DEF Init, ServiceInv, Stopped
  <2>6. ~service.on /\ state = NoState /\ (\A c \in Customers : told[c] = {}) /\ unit = "none" /\ command = NoCommand
    BY DEF Init, Stopped
  <2>7. KeptInv
    <3>1. NoCommand.at = None /\ NoCommand.name = None
      BY DEF NoCommand
    <3>2. QED BY <2>6, <3>1 DEF KeptInv, OrderInv, WalletInv, Unused, At, None, Early
  <2>8. RecordInv /\ ClaimInv
    BY <2>6, Values DEF RecordInv, ClaimInv, None
  <2>9. QED BY <2>1, <2>3, <2>4, <2>5, <2>7, <2>8 DEF FilesInv
<1>2. HostTypeOK /\ FilesInv /\ TorrcInv /\ [Next]_vars => (HostTypeOK /\ FilesInv /\ TorrcInv)'
  <2> SUFFICES ASSUME HostTypeOK, FilesInv, TorrcInv, [Next]_vars
               PROVE  (HostTypeOK /\ FilesInv /\ TorrcInv)'
    OBVIOUS
  <2>1. CommandInv /\ ServiceInv /\ KeptInv /\ RecordInv /\ ClaimInv
    BY DEF FilesInv
  <2>2. TorrcInv'
    BY TorrcKeeps
  <2>3. torrc' \in Seq(STRING)
    BY <2>2 DEF TorrcInv
  <2>4. HostTypeOK' /\ ServiceInv'
    BY <2>1, <2>3, TypesKept
  <2>5. CommandInv' /\ KeptInv' /\ RecordInv' /\ ClaimInv'
    BY <2>1, CommandKeeps, KeptKeeps, RecordKeeps, ClaimKeeps
  <2>6. QED BY <2>2, <2>4, <2>5 DEF FilesInv
<1>3. QED BY <1>1, <1>2, PTL DEF Spec

\* Every variable stays in its set.
THEOREM HostTypeCorrect == Spec => []HostTypeOK
BY HostInductive, PTL

\* bin/paynym-bot.ts:220-221: a customer the shop has registered keeps the
\* PayNym they were registered with, wherever a command is interrupted.
THEOREM WalletKept == Spec => []CustomersKeepTheirWallet
<1>1. FilesInv => CustomersKeepTheirWallet
  BY DEF FilesInv, KeptInv, OrderInv, WalletInv, CustomersKeepTheirWallet
<1>2. QED BY <1>1, HostInductive, PTL

\* bin/paynym-bot.ts:313 and paynymrs.ts:187: what is recorded stays recorded
\* while no service writes back an older file, and a recorded claim was granted.
THEOREM RecordKept == Spec => []RecordedStays
<1>1. FilesInv => RecordedStays
  BY DEF FilesInv, RecordInv, ClaimInv, Granted, RecordedStays
<1>2. QED BY <1>1, HostInductive, PTL

\* torrc.ts:3-8: whatever the commands do, no line of anybody else is lost,
\* doubled or moved, and the service is never declared twice.
THEOREM OthersKept == Spec => []OthersServicesKept
<1>1. TorrcInv => OthersServicesKept
  BY DEF TorrcInv, OthersServicesKept
<1>2. QED BY <1>1, HostInductive, PTL

=============================================================================

--------------------------- MODULE ReceiverProofs ---------------------------
(***************************************************************************)
(* Receiver's invariants, for every set of customers and entries and every *)
(* capacity, gap and TTL.                                                  *)
(*                                                                         *)
(* The registry part of the inductive invariant is disturbed in few ways:  *)
(* an add, a prune or a pass of credits, each written to the file or not,  *)
(* and the end and the start of the process.  One lemma treats each; the   *)
(* step theorem then has one step per action.                              *)
(***************************************************************************)
EXTENDS Receiver, RegistryProofs

\* A record that the file has as memory has it, or both as before, is found
\* again after a restart, whatever payments arrive.
LEMMA FoundAsBefore ==
  ASSUME RestartFindsAgain, up, funded \subseteq funded',
         \A c \in DOMAIN mem' : \/ disk'[c] = mem'[c]
                                \/ c \in DOMAIN mem /\ disk'[c] = disk[c] /\ mem'[c] = mem[c]
  PROVE  RestartFindsAgain'
<1> SUFFICES ASSUME NEW c \in DOMAIN mem', NEW rec \in SenderRecord,
                    KnownUsed(disk'[c]) \subseteq KnownUsed(rec), NothingToFind(c, rec)'
             PROVE  KnownUsed(mem'[c]) \subseteq KnownUsed(rec)
  BY DEF RestartFindsAgain
<1>1. NothingToFind(c, rec)
  BY DEF NothingToFind
<1>2. QED BY <1>1 DEF RestartFindsAgain

\* What a pass has found in the window of memory, whoever scans from the file
\* finds too: the more is known, the further a window reaches.
LEMMA FoundFromTheFile ==
  ASSUME TypeOK, mem \in Registries, RestartFindsAgain, StillWatched, FoundIsFunded, up,
         disk' = disk, funded' = funded, mem' = CreditAll(mem, scan.found)
  PROVE  RestartFindsAgain'
<1>1. scan.found \in SUBSET (Codes \X Index)
  BY DEF TypeOK, Addresses
<1>2. /\ DOMAIN mem' = DOMAIN mem
      /\ \A c \in DOMAIN mem :
           KnownUsed(mem'[c]) = KnownUsed(mem[c]) \cup {i \in Index : <<c, i>> \in scan.found}
  BY <1>1, CreditAllSound
<1> SUFFICES ASSUME NEW c \in DOMAIN mem, NEW rec \in SenderRecord,
                    KnownUsed(disk[c]) \subseteq KnownUsed(rec), NothingToFind(c, rec)'
             PROVE  KnownUsed(mem'[c]) \subseteq KnownUsed(rec)
  BY <1>2 DEF RestartFindsAgain
<1>3. NothingToFind(c, rec)
  BY DEF NothingToFind
<1>4. KnownUsed(mem[c]) \subseteq KnownUsed(rec) /\ mem[c] \in SenderRecord
  BY <1>3, RegistryFields DEF RestartFindsAgain
<1>5. ASSUME NEW i \in Index, <<c, i>> \in scan.found, i \notin KnownUsed(rec)
      PROVE  FALSE
  <2>1. i \in WatchWindow(mem[c]) /\ <<c, i>> \in funded
    BY <1>5 DEF StillWatched, WindowOf, FoundIsFunded
  <2>2. i \in WatchWindow(rec)
    BY <1>4, <1>5, <2>1, WindowCarries
  <2>3. QED BY <1>3, <2>1, <2>2 DEF NothingToFind
<1>6. QED BY <1>2, <1>4, <1>5

\* A step that leaves the process, the registries and the history alone keeps
\* the registry part, whatever payments arrive.
LEMMA RegistryUntouched ==
  ASSUME RegistryInv, UNCHANGED <<up, mem, disk, announced>>, funded \subseteq funded'
  PROVE  RegistryInv'
<1>1. RestartFindsAgain'
  <2>1. CASE up
    BY <2>1, FoundAsBefore DEF RegistryInv
  <2>2. CASE ~up
    BY <2>2 DEF RestartFindsAgain
  <2>3. QED BY <2>1, <2>2
<1>2. QED BY <1>1 DEF RegistryInv, MemIsOnDisk, DiskLagsSafely, KnownUsedIsFunded, WithinCapacity,
                      AnnouncedIsDurable

\* An add that finds room, written before anybody can observe it.
LEMMA AddSaved ==
  ASSUME TypeOK, RegistryInv, NEW c \in Codes, CanAdd(mem, c), up, up' = up,
         mem' = Add(mem, c, now), Save(mem'), Enrolled(c), funded' = funded
  PROVE  RegistryInv'
<1> USE DEF RegistryInv
<1> DEFINE new == Add(mem, c, now)
<1>1. now \in Clock /\ c \notin DOMAIN mem /\ Cardinality(DOMAIN mem) < MaxSenders
  <2>1. Cardinality(DOMAIN mem) \in Nat /\ MaxSenders \in Nat
    BY RegistryFields, RegistryAssumption, FS_Subset, FS_CardinalityType
  <2>2. QED BY <2>1 DEF TypeOK, CanAdd, IsFull
<1>2. /\ new \in Registries
      /\ DOMAIN new = DOMAIN mem \cup {c}
      /\ new[c] = NewRecord(now)
      /\ \A d \in DOMAIN mem : new[d] = mem[d]
  BY <1>1, AddSound
<1>3. KnownUsed(new[c]) = {}
  BY <1>1, <1>2, NewRecordFresh
<1>4. mem' = new /\ disk' = new
  BY DEF Save
<1> HIDE DEF new
<1>5. mem' \in Registries /\ disk' \in Registries /\ MemIsOnDisk' /\ DiskLagsSafely'
  BY <1>2, <1>4 DEF MemIsOnDisk, DiskLagsSafely
<1>6. KnownUsedIsFunded'
  BY <1>2, <1>3, <1>4 DEF KnownUsedIsFunded
<1>7. WithinCapacity'
  <2>1. Cardinality(DOMAIN mem \cup {c}) <= MaxSenders
    BY <1>1, RegistryFields, CapacityKept DEF WithinCapacity
  <2>2. QED BY <1>2, <1>4, <2>1 DEF WithinCapacity
<1>8. AnnouncedIsDurable'
  BY <1>2, <1>4 DEF Enrolled, AnnouncedIsDurable, MemIsOnDisk, DiskLagsSafely
<1>9. RestartFindsAgain'
  BY <1>4, FoundAsBefore
<1>10. QED BY <1>5, <1>6, <1>7, <1>8, <1>9

\* The same add when the write throws: memory is as it was, the file may hold
\* the new record or not.
LEMMA AddNotSaved ==
  ASSUME TypeOK, RegistryInv, NEW c \in Codes, CanAdd(mem, c), up, up' = up,
         mem' = mem, SaveFails(Add(mem, c, now)), Enrolled(c), funded' = funded
  PROVE  RegistryInv'
<1> USE DEF RegistryInv
<1> DEFINE new == Add(mem, c, now)
<1>1. now \in Clock /\ c \notin DOMAIN mem /\ Cardinality(DOMAIN mem) < MaxSenders
  <2>1. Cardinality(DOMAIN mem) \in Nat /\ MaxSenders \in Nat
    BY RegistryFields, RegistryAssumption, FS_Subset, FS_CardinalityType
  <2>2. QED BY <2>1 DEF TypeOK, CanAdd, IsFull
<1>2. /\ new \in Registries
      /\ DOMAIN new = DOMAIN mem \cup {c}
      /\ new[c] = NewRecord(now)
      /\ \A d \in DOMAIN mem : new[d] = mem[d]
  BY <1>1, AddSound
<1>3. ~Paid(new[c]) /\ KnownUsed(new[c]) = {}
  BY <1>1, <1>2, NewRecordFresh
<1>4. CASE disk' = disk
  <2>1. RestartFindsAgain'
    BY <1>4, FoundAsBefore
  <2>2. QED BY <1>4, <2>1 DEF MemIsOnDisk, DiskLagsSafely, KnownUsedIsFunded, WithinCapacity,
                              AnnouncedIsDurable, Enrolled
<1>5. CASE disk' = new
  <2> HIDE DEF new
  <2>1. mem' \in Registries /\ disk' \in Registries /\ MemIsOnDisk' /\ DiskLagsSafely'
    BY <1>1, <1>2, <1>3, <1>5 DEF MemIsOnDisk, DiskLagsSafely
  <2>2. KnownUsedIsFunded'
    BY <1>2, <1>3, <1>5 DEF KnownUsedIsFunded
  <2>3. WithinCapacity'
    <3>1. Cardinality(DOMAIN mem \cup {c}) <= MaxSenders
      BY <1>1, RegistryFields, CapacityKept DEF WithinCapacity
    <3>2. QED BY <1>2, <1>5, <3>1 DEF WithinCapacity
  <2>4. AnnouncedIsDurable'
    BY <1>2, <1>5 DEF Enrolled, AnnouncedIsDurable, MemIsOnDisk, DiskLagsSafely
  <2>5. RestartFindsAgain'
    BY <1>2, <1>5, FoundAsBefore
  <2>6. QED BY <2>1, <2>2, <2>3, <2>4, <2>5
<1>6. QED BY <1>4, <1>5 DEF SaveFails

\* A prune drops from memory only records without a known payment, so the file
\* may keep them or not.
LEMMA Pruned ==
  ASSUME TypeOK, RegistryInv, up, up' = up, mem' = Prune(mem, now),
         disk' = mem' \/ disk' = disk, announced' = announced, funded' = funded
  PROVE  RegistryInv'
<1> USE DEF RegistryInv
<1> DEFINE new == Prune(mem, now)
<1>1. /\ new \in Registries
      /\ DOMAIN new \subseteq DOMAIN mem
      /\ \A c \in DOMAIN new : new[c] = mem[c]
      /\ \A c \in DOMAIN mem \ DOMAIN new : ~Paid(mem[c])
  BY PruneSound DEF TypeOK
<1>2. Cardinality(DOMAIN new) <= MaxSenders
  BY <1>1, RegistryFields, CapacityKept DEF WithinCapacity
<1> HIDE DEF new
<1>3. mem' = new
  BY DEF new
<1>r. RestartFindsAgain'
  BY <1>1, <1>3, FoundAsBefore
<1>4. CASE disk' = mem'
  BY <1>r, <1>1, <1>2, <1>3, <1>4
     DEF MemIsOnDisk, DiskLagsSafely, KnownUsedIsFunded, WithinCapacity, AnnouncedIsDurable
<1>5. CASE disk' = disk
  <2>1. MemIsOnDisk' /\ KnownUsedIsFunded' /\ WithinCapacity' /\ AnnouncedIsDurable'
    BY <1>1, <1>2, <1>3, <1>5
       DEF MemIsOnDisk, KnownUsedIsFunded, WithinCapacity, AnnouncedIsDurable
  <2>2. ASSUME NEW c \in DOMAIN disk, c \in DOMAIN mem \ DOMAIN new
        PROVE  ~Paid(disk[c])
    <3>1. disk[c] \in SenderRecord /\ mem[c] \in SenderRecord
      BY <2>2, RegistryFields
    <3>2. KnownUsed(mem[c]) = {}
      BY <1>1, <2>2, <3>1, PaidIsKnown
    <3>3. KnownUsed(disk[c]) = {}
      BY <2>2, <3>2 DEF DiskLagsSafely
    <3>4. QED BY <3>1, <3>3, PaidIsKnown
  <2>3. DiskLagsSafely'
    BY <1>1, <1>3, <1>5, <2>2 DEF DiskLagsSafely
  <2>4. QED BY <1>r, <1>1, <1>3, <1>5, <2>1, <2>3
<1>6. QED BY <1>4, <1>5

\* A pass of credits moves cursors over payments that are on the chain; the
\* file follows or lags behind.
LEMMA Credited ==
  ASSUME TypeOK, RegistryInv, FoundIsFunded, StillWatched, up, up' = up, funded' = funded,
         mem' = CreditAll(mem, scan.found),
         \/ disk' = mem' /\ announced' = announced \cup scan.found
         \/ disk' \in {disk, mem'} /\ announced' = announced
  PROVE  RegistryInv'
<1> USE DEF RegistryInv
<1> DEFINE new == CreditAll(mem, scan.found)
<1>1. scan.found \in SUBSET (Codes \X Index)
  BY DEF TypeOK, Addresses
<1>2. /\ new \in Registries
      /\ DOMAIN new = DOMAIN mem
      /\ \A c \in DOMAIN mem :
           KnownUsed(new[c]) = KnownUsed(mem[c]) \cup {i \in Index : <<c, i>> \in scan.found}
  BY <1>1, CreditAllSound
<1> HIDE DEF new
<1>3. mem' = new
  BY DEF new
<1>4. \A c \in DOMAIN new : {c} \X KnownUsed(new[c]) \subseteq funded
  <2>1. TAKE c \in DOMAIN new
  <2>2. {c} \X KnownUsed(mem[c]) \subseteq funded
    BY <1>2 DEF KnownUsedIsFunded
  <2>3. QED BY <1>2, <2>2 DEF FoundIsFunded
<1>5. ASSUME NEW a \in announced \cup scan.found, a[1] \in DOMAIN new
      PROVE  a[2] \in KnownUsed(new[a[1]])
  <2>1. CASE a \in announced
    BY <1>2, <1>5, <2>1 DEF AnnouncedIsDurable, MemIsOnDisk, DiskLagsSafely
  <2>2. CASE a \in scan.found
    <3>1. a = <<a[1], a[2]>> /\ a[2] \in Index
      BY <1>1, <2>2
    <3>2. QED BY <1>2, <1>5, <2>2, <3>1
  <2>3. QED BY <1>5, <2>1, <2>2
<1>6. CASE disk' = mem'
  <2>0. RestartFindsAgain'
    BY <1>6, FoundAsBefore
  <2>1. MemIsOnDisk' /\ DiskLagsSafely' /\ KnownUsedIsFunded' /\ WithinCapacity'
    BY <1>2, <1>3, <1>4, <1>6
       DEF MemIsOnDisk, DiskLagsSafely, KnownUsedIsFunded, WithinCapacity
  <2>2. AnnouncedIsDurable'
    BY <1>3, <1>5, <1>6 DEF AnnouncedIsDurable
  <2>3. QED BY <1>2, <1>3, <1>6, <2>0, <2>1, <2>2
<1>7. CASE disk' = disk /\ announced' = announced
  <2>1. RestartFindsAgain'
    BY <1>7, FoundFromTheFile
  <2>2. QED BY <1>2, <1>3, <1>4, <1>7, <2>1
     DEF MemIsOnDisk, DiskLagsSafely, KnownUsedIsFunded, WithinCapacity, AnnouncedIsDurable
<1>8. QED BY <1>6, <1>7

\* The process ends, with the file as it was or just rewritten by a credit.
LEMMA ProcessStopped ==
  ASSUME TypeOK, RegistryInv, FoundIsFunded, up, Stopped, announced' = announced, funded' = funded,
         disk' = disk \/ disk' = CreditAll(mem, scan.found)
  PROVE  RegistryInv'
<1> USE DEF RegistryInv
<1>1. EmptyRegistry \in Registries /\ DOMAIN EmptyRegistry = {} /\ Cardinality({}) <= MaxSenders
  BY EmptyRegistryType, FS_EmptySet, RegistryAssumption
<1>2. mem' = EmptyRegistry /\ up' = FALSE
  BY DEF Stopped
<1>3. CASE disk' = disk
  BY <1>1, <1>2, <1>3
     DEF MemIsOnDisk, DiskLagsSafely, KnownUsedIsFunded, WithinCapacity,
         AnnouncedIsDurable, RestartFindsAgain
<1>4. CASE disk' = CreditAll(mem, scan.found)
  <2> DEFINE new == CreditAll(mem, scan.found)
  <2>1. scan.found \in SUBSET (Codes \X Index)
    BY DEF TypeOK, Addresses
  <2>2. /\ new \in Registries
        /\ DOMAIN new = DOMAIN mem
        /\ \A c \in DOMAIN mem :
             KnownUsed(new[c]) = KnownUsed(mem[c]) \cup {i \in Index : <<c, i>> \in scan.found}
    BY <2>1, CreditAllSound
  <2> HIDE DEF new
  <2>3. disk' = new
    BY <1>4 DEF new
  <2>4. \A c \in DOMAIN new : {c} \X KnownUsed(new[c]) \subseteq funded
    <3>1. TAKE c \in DOMAIN new
    <3>2. {c} \X KnownUsed(mem[c]) \subseteq funded
      BY <2>2 DEF KnownUsedIsFunded
    <3>3. QED BY <2>2, <3>2 DEF FoundIsFunded
  <2>5. MemIsOnDisk' /\ DiskLagsSafely' /\ KnownUsedIsFunded' /\ WithinCapacity' /\ RestartFindsAgain'
    BY <1>1, <1>2, <2>2, <2>3, <2>4
       DEF MemIsOnDisk, DiskLagsSafely, KnownUsedIsFunded, WithinCapacity, RestartFindsAgain
  <2>6. AnnouncedIsDurable'
    BY <2>2, <2>3 DEF AnnouncedIsDurable, MemIsOnDisk, DiskLagsSafely
  <2>7. QED BY <1>1, <1>2, <2>2, <2>3, <2>5, <2>6
<1>5. QED BY <1>3, <1>4

\* A restart acts for exactly the customers of the file.
LEMMA Restarted ==
  ASSUME RegistryInv, mem' = disk, disk' = disk, announced' = announced, funded' = funded
  PROVE  RegistryInv'
  BY DEF RegistryInv, MemIsOnDisk, DiskLagsSafely, KnownUsedIsFunded, WithinCapacity,
         AnnouncedIsDurable, RestartFindsAgain

-----------------------------------------------------------------------------
\* The invariant holds of a fresh install.
THEOREM InitIInv == Init => IInv
<1> SUFFICES ASSUME Init PROVE IInv
  OBVIOUS
<1>1. EmptyRegistry \in Registries /\ DOMAIN EmptyRegistry = {} /\ Cardinality({}) <= MaxSenders
  BY EmptyRegistryType, FS_EmptySet, RegistryAssumption
<1>2. TypeOK
  BY <1>1, RegistryAssumption DEF Init, TypeOK, ListenIdle, ScanIdle, Dirs, Clock, Addresses
<1>3. RegistryInv
  BY <1>1 DEF Init, RegistryInv, MemIsOnDisk, DiskLagsSafely, KnownUsedIsFunded,
              WithinCapacity, AnnouncedIsDurable, RestartFindsAgain
<1>4. JobsInv
  BY DEF Init, JobsInv, DownIsEmpty, FoundIsFunded, RemovedIsKnown, AnnouncedOnce, StillWatched,
         ListenIdle, ScanIdle
<1>5. QED BY <1>2, <1>3, <1>4 DEF IInv

\* An add starts with the window that a code without a record has, and a prune
\* ends with it.
LEMMA WindowsStay ==
  ASSUME StillWatched, mem \in Registries, now \in Clock, scan' = scan,
         mem' = Prune(mem, now) \/ \E c : c \notin DOMAIN mem /\ mem' = Add(mem, c, now)
  PROVE  StillWatched'
<1>1. ASSUME NEW c PROVE WindowOf(mem', c) = WindowOf(mem, c)
  <2>1. CASE mem' = Prune(mem, now)
    <3>1. CASE c \in DOMAIN mem \ DOMAIN mem'
      BY <2>1, <3>1, PruneSound, UnpaidWindow, RegistryFields DEF WindowOf
    <3>2. CASE ~(c \in DOMAIN mem \ DOMAIN mem')
      BY <2>1, <3>2, PruneSound DEF WindowOf
    <3>3. QED BY <3>1, <3>2
  <2>2. ASSUME NEW d, d \notin DOMAIN mem, mem' = Add(mem, d, now)
        PROVE  WindowOf(mem', c) = WindowOf(mem, c)
    <3>1. WatchWindow(NewRecord(now)) = WatchWindow(NewRecord(0))
      BY NewWindow
    <3>2. CASE c = d
      BY <2>2, <3>1, <3>2 DEF WindowOf, Add
    <3>3. CASE c # d
      BY <2>2, <3>3 DEF WindowOf, Add
    <3>4. QED BY <3>2, <3>3
  <2>3. QED BY <2>1, <2>2
<1>2. QED BY <1>1 DEF StillWatched

\* The jobs' part when a registry is rewritten while both jobs go on: codes in
\* memory stay, and the history only loses the code that was added.
LEMMA JobsCarryOn ==
  ASSUME JobsInv, up, up' = up, DOMAIN mem \subseteq DOMAIN mem', StillWatched',
         UNCHANGED <<listen, scan, funded>>, announced' \subseteq announced
  PROVE  JobsInv'
  BY DEF JobsInv, DownIsEmpty, FoundIsFunded, RemovedIsKnown, AnnouncedOnce, StillWatched

\* No address that was announced is looked up again.
LEMMA WatchedNotAnnounced ==
  ASSUME RegistryInv, up
  PROVE  announced \cap WatchList(mem) = {}
<1> SUFFICES ASSUME NEW w \in WatchList(mem), w \in announced PROVE FALSE
  OBVIOUS
<1>1. w[1] \in DOMAIN mem /\ w[2] \in WatchWindow(mem[w[1]])
  BY DEF WatchList
<1>2. mem[w[1]] \in SenderRecord
  BY <1>1, RegistryFields DEF RegistryInv
<1>3. w[2] \notin KnownUsed(mem[w[1]])
  BY <1>1, <1>2, WatchedIsUnknown
<1>4. QED BY <1>1, <1>3 DEF RegistryInv, MemIsOnDisk, DiskLagsSafely, AnnouncedIsDurable

\* Every step of the receiver, its environment and its faults preserves the
\* inductive invariant.
THEOREM NextIInv == IInv /\ [Next]_vars => IInv'
<1> SUFFICES ASSUME IInv, [Next]_vars PROVE IInv'
  OBVIOUS
<1> USE DEF IInv
<1>u. listen.pc # "idle" \/ scan.pc # "idle" => up
  BY DEF JobsInv, DownIsEmpty, ListenIdle, ScanIdle
<1>c. \A e \in Entries : EntryCode[e] # NoCode => EntryCode[e] \in Codes
  BY EntryAssumption
<1>1. CASE Tick
  <2>1. TypeOK' BY <1>1, RegistryAssumption DEF Tick, TypeOK, Clock
  <2>2. RegistryInv' BY <1>1, RegistryUntouched DEF Tick
  <2>3. JobsInv'
    BY <1>1 DEF Tick, JobsInv, DownIsEmpty, FoundIsFunded,
                RemovedIsKnown, AnnouncedOnce, StillWatched
  <2>4. QED BY <2>1, <2>2, <2>3
<1>2. ASSUME NEW e \in Entries, Post(e) \/ Expire(e) PROVE IInv'
  <2>1. TypeOK' BY <1>2 DEF Post, Expire, TypeOK
  <2>2. RegistryInv' BY <1>2, RegistryUntouched DEF Post, Expire
  <2>3. JobsInv'
    BY <1>2 DEF Post, Expire, JobsInv, DownIsEmpty, FoundIsFunded,
                RemovedIsKnown, AnnouncedOnce, StillWatched
  <2>4. QED BY <2>1, <2>2, <2>3
<1>3. ASSUME NEW c \in Codes, NEW i \in Index, Pay(c, i) PROVE IInv'
  <2>1. TypeOK' BY <1>3 DEF Pay, TypeOK, Addresses
  <2>2. RegistryInv' BY <1>3, RegistryUntouched DEF Pay
  <2>3. JobsInv'
    BY <1>3 DEF Pay, JobsInv, DownIsEmpty, FoundIsFunded,
                RemovedIsKnown, AnnouncedOnce, StillWatched
  <2>4. QED BY <2>1, <2>2, <2>3
<1>4. ASSUME BeginListen PROVE IInv'
  <2>1. RegistryInv'
    <3>1. CASE Stale(mem, now) = {}
      <4>1. mem' = Prune(mem, now) /\ disk' = disk
        BY <1>4, <3>1 DEF BeginListen
      <4>2. QED BY <1>4, <4>1, Pruned DEF BeginListen, env
    <3>2. CASE Stale(mem, now) # {}
      <4>1. mem' = Prune(mem, now) /\ disk' = mem'
        BY <1>4, <3>2 DEF BeginListen, Save
      <4>2. QED BY <1>4, <4>1, Pruned DEF BeginListen, env
    <3>3. QED BY <3>1, <3>2
  <2>2. TypeOK' BY <1>4, <2>1 DEF BeginListen, TypeOK, RegistryInv, env, ListenIdle, Dirs
  <2>3. StillWatched'
    BY <1>4, WindowsStay DEF BeginListen, JobsInv, TypeOK
  <2>4. JobsInv'
    BY <1>4, <2>3 DEF BeginListen, env, ListenIdle, JobsInv, DownIsEmpty, FoundIsFunded,
                      RemovedIsKnown, AnnouncedOnce
  <2>5. QED BY <2>1, <2>2, <2>4
<1>5. ASSUME PruneNotSaved PROVE IInv'
  <2>1. RegistryInv' BY <1>5, Pruned DEF PruneNotSaved, SaveFails, env
  <2>2. TypeOK' BY <1>5, <2>1 DEF PruneNotSaved, TypeOK, RegistryInv, env
  <2>3. StillWatched'
    BY <1>5, WindowsStay DEF PruneNotSaved, JobsInv, TypeOK
  <2>4. JobsInv'
    BY <1>5, <2>3 DEF PruneNotSaved, env, JobsInv, DownIsEmpty, FoundIsFunded, RemovedIsKnown,
                      AnnouncedOnce
  <2>5. QED BY <2>1, <2>2, <2>4
<1>6. ASSUME ListDirectory \/ ListReadsEmpty \/ ListFails \/ NextDirectory PROVE IInv'
  <2>1. TypeOK' /\ listen'.pc # "remove"
    <3>1. CASE ListDirectory
      BY <3>1 DEF ListDirectory, TypeOK, env, EntriesOf
    <3>2. CASE ListReadsEmpty
      BY <3>2 DEF ListReadsEmpty, TypeOK, env
    <3>3. CASE ListFails
      BY <3>3 DEF ListFails, TypeOK, env, ListenIdle, Dirs
    <3>4. CASE NextDirectory
      <4>1. listen' \in [pc : {"idle", "list"}, dir : Dirs, todo : SUBSET Entries, doing : SUBSET Entries]
        BY <3>4 DEF NextDirectory, TypeOK, ListenIdle, Dirs
      <4>2. QED BY <3>4, <4>1 DEF NextDirectory, TypeOK, env
    <3>5. QED BY <1>6, <3>1, <3>2, <3>3, <3>4
  <2>2. RegistryInv'
    BY <1>6, RegistryUntouched DEF ListDirectory, ListReadsEmpty, ListFails, NextDirectory, env
  <2>3. UNCHANGED <<up, env, mem, disk, scan, announced>>
    BY <1>6 DEF ListDirectory, ListReadsEmpty, ListFails, NextDirectory
  <2>4. listen.pc # "idle"
    BY <1>6 DEF ListDirectory, ListReadsEmpty, ListFails, NextDirectory
  <2>5. JobsInv'
    BY <1>u, <2>1, <2>3, <2>4 DEF env, JobsInv, DownIsEmpty, FoundIsFunded,
                                  RemovedIsKnown, AnnouncedOnce, StillWatched
  <2>6. QED BY <2>1, <2>2, <2>5
<1>7. ASSUME NEW e \in Entries, Drop(e) PROVE IInv'
  <2>1. TypeOK' BY <1>7 DEF Drop, Draining, ThenRemove, TypeOK, env
  <2>2. RegistryInv' BY <1>7, RegistryUntouched DEF Drop, env
  <2>3. listen'.doing = {e}
    BY <1>7 DEF Drop, Draining, ThenRemove, TypeOK
  <2>4. JobsInv'
    BY <1>7, <1>u, <2>3 DEF Drop, Draining, env, JobsInv, DownIsEmpty, FoundIsFunded,
                            RemovedIsKnown, AnnouncedOnce, StillWatched
  <2>5. QED BY <2>1, <2>2, <2>4
<1>8. ASSUME NEW e \in Entries, Defer(e) PROVE IInv'
  <2>1. TypeOK' BY <1>8 DEF Defer, Draining, TypeOK, env
  <2>2. RegistryInv' BY <1>8, RegistryUntouched DEF Defer, env
  <2>3. listen'.pc = "drain"
    BY <1>8 DEF Defer, Draining, TypeOK
  <2>4. JobsInv'
    BY <1>8, <1>u, <2>3 DEF Defer, Draining, env, JobsInv, DownIsEmpty, FoundIsFunded,
                            RemovedIsKnown, AnnouncedOnce, StillWatched
  <2>5. QED BY <2>1, <2>2, <2>4
<1>9. ASSUME NEW e \in Entries, Accept(e) PROVE IInv'
  <2>1. up /\ EntryCode[e] \in Codes
    BY <1>9, <1>c, <1>u DEF Accept, Draining
  <2>2. RegistryInv' BY <1>9, <2>1, AddSaved DEF Accept, env
  <2>3. TypeOK'
    BY <1>9, <2>2 DEF Accept, Draining, ThenRemove, Enrolled, TypeOK, RegistryInv, env
  <2>4. listen'.doing = {e} /\ EntryCode[e] \in DOMAIN mem'
    BY <1>9 DEF Accept, Draining, ThenRemove, TypeOK, Add
  <2>5. StillWatched'
    BY <1>9, WindowsStay DEF Accept, CanAdd, JobsInv, TypeOK
  <2>6. JobsInv'
    BY <1>9, <2>1, <2>4, <2>5 DEF Accept, env, Enrolled, JobsInv, DownIsEmpty, FoundIsFunded,
                                  RemovedIsKnown, AnnouncedOnce
  <2>7. QED BY <2>2, <2>3, <2>6
<1>10. ASSUME NEW e \in Entries, AcceptNotSaved(e) PROVE IInv'
  <2>1. up /\ EntryCode[e] \in Codes
    BY <1>10, <1>c, <1>u DEF AcceptNotSaved, Draining
  <2>2. RegistryInv' BY <1>10, <2>1, AddNotSaved DEF AcceptNotSaved, env
  <2>3. TypeOK'
    BY <1>10, <2>2 DEF AcceptNotSaved, Enrolled, TypeOK, RegistryInv, env, ListenIdle, Dirs
  <2>4. JobsInv'
    BY <1>10, <2>1 DEF AcceptNotSaved, env, Enrolled, ListenIdle, JobsInv, DownIsEmpty,
                       FoundIsFunded, RemovedIsKnown, AnnouncedOnce, StillWatched
  <2>5. QED BY <2>2, <2>3, <2>4
<1>11. ASSUME RemoveEntry \/ RemoveRefused \/ RemoveFails \/ CallHangs PROVE IInv'
  <2>1. TypeOK' /\ listen'.pc # "remove"
    <3>1. CASE RemoveEntry
      BY <3>1 DEF RemoveEntry, TypeOK, env
    <3>2. CASE RemoveRefused
      BY <3>2 DEF RemoveRefused, TypeOK, env
    <3>3. CASE RemoveFails
      BY <3>3 DEF RemoveFails, TypeOK, env, ListenIdle, Dirs
    <3>4. CASE CallHangs
      BY <3>4 DEF CallHangs, TypeOK, env, ListenIdle, Dirs
    <3>5. QED BY <1>11, <3>1, <3>2, <3>3, <3>4
  <2>2. RegistryInv'
    BY <1>11, RegistryUntouched DEF RemoveEntry, RemoveRefused, RemoveFails, CallHangs, env
  <2>3. listen.pc # "idle" /\ UNCHANGED <<up, funded, mem, scan, announced>>
    BY <1>11 DEF RemoveEntry, RemoveRefused, RemoveFails, CallHangs, env
  <2>4. JobsInv'
    BY <1>u, <2>1, <2>3 DEF JobsInv, DownIsEmpty, FoundIsFunded,
                            RemovedIsKnown, AnnouncedOnce, StillWatched
  <2>5. QED BY <2>1, <2>2, <2>4
<1>12. ASSUME NEW c \in Codes, StorefrontAdd(c) PROVE IInv'
  <2>1. RegistryInv' BY <1>12, AddSaved DEF StorefrontAdd, env
  <2>2. TypeOK' BY <1>12, <2>1 DEF StorefrontAdd, Enrolled, TypeOK, RegistryInv, env
  <2>3. DOMAIN mem \subseteq DOMAIN mem' /\ announced' \subseteq announced
    BY <1>12 DEF StorefrontAdd, Add, Enrolled
  <2>4. StillWatched' BY <1>12, WindowsStay DEF StorefrontAdd, CanAdd, JobsInv, TypeOK
  <2>5. JobsInv' BY <1>12, <2>3, <2>4, JobsCarryOn DEF StorefrontAdd, env
  <2>6. QED BY <2>1, <2>2, <2>5
<1>13. ASSUME NEW c \in Codes, StorefrontAddNotSaved(c) PROVE IInv'
  <2>1. RegistryInv' BY <1>13, AddNotSaved DEF StorefrontAddNotSaved, env
  <2>2. TypeOK' BY <1>13, <2>1 DEF StorefrontAddNotSaved, Enrolled, TypeOK, RegistryInv, env
  <2>3. DOMAIN mem \subseteq DOMAIN mem' /\ announced' \subseteq announced
    BY <1>13 DEF StorefrontAddNotSaved, Enrolled
  <2>4. StillWatched' BY <1>13 DEF StorefrontAddNotSaved, JobsInv, StillWatched
  <2>5. JobsInv' BY <1>13, <2>3, <2>4, JobsCarryOn DEF StorefrontAddNotSaved, env
  <2>6. QED BY <2>1, <2>2, <2>5
<1>14. ASSUME BeginScan PROVE IInv'
  <2>1. WatchList(mem) \subseteq Watched
    BY RegistryFields DEF WatchList, Watched, RegistryInv
  <2>2. TypeOK' BY <1>14, <2>1 DEF BeginScan, TypeOK, env
  <2>3. RegistryInv' BY <1>14, RegistryUntouched DEF BeginScan, env
  <2>4. AnnouncedOnce'
    BY <1>14, WatchedNotAnnounced DEF BeginScan, AnnouncedOnce
  <2>5. StillWatched'
    BY <1>14 DEF BeginScan, WatchList, WindowOf, StillWatched
  <2>6. JobsInv'
    BY <1>14, <2>4, <2>5 DEF BeginScan, env, JobsInv, DownIsEmpty, FoundIsFunded, RemovedIsKnown
  <2>7. QED BY <2>2, <2>3, <2>6
<1>15. ASSUME NEW w \in Watched, Lookup(w) PROVE IInv'
  <2>1. scan'.todo \subseteq scan.todo /\ scan'.found = scan.found \cup ({w} \cap funded)
        /\ scan'.pc = scan.pc
    BY <1>15 DEF Lookup, TypeOK
  <2>2. TypeOK' BY <1>15 DEF Lookup, TypeOK, env
  <2>3. RegistryInv' BY <1>15, RegistryUntouched DEF Lookup, env
  <2>4. JobsInv'
    BY <1>15, <1>u, <2>1 DEF Lookup, env, JobsInv, DownIsEmpty, FoundIsFunded,
                             RemovedIsKnown, AnnouncedOnce, StillWatched
  <2>5. QED BY <2>2, <2>3, <2>4
<1>16. ASSUME LookupFails \/ FindNothing PROVE IInv'
  <2>1. TypeOK' BY <1>16 DEF LookupFails, FindNothing, TypeOK, env, ScanIdle
  <2>2. RegistryInv' BY <1>16, RegistryUntouched DEF LookupFails, FindNothing, env
  <2>3. JobsInv'
    BY <1>16 DEF LookupFails, FindNothing, env, ScanIdle, JobsInv, DownIsEmpty, FoundIsFunded,
                 RemovedIsKnown, AnnouncedOnce, StillWatched
  <2>4. QED BY <2>1, <2>2, <2>3
<1>17. ASSUME Credit \/ CreditNotSaved PROVE IInv'
  <2>1. up /\ FoundIsFunded /\ StillWatched
    BY <1>17, <1>u DEF Credit, CreditNotSaved, AllAnswered, JobsInv
  <2>2. RegistryInv' BY <1>17, <2>1, Credited DEF Credit, CreditNotSaved, Save, SaveFails, env
  <2>3. TypeOK'
    BY <1>17, <2>2 DEF Credit, CreditNotSaved, TypeOK, RegistryInv, env, ScanIdle, Addresses
  <2>4. DOMAIN mem' = DOMAIN mem /\ scan' = ScanIdle /\ UNCHANGED <<up, funded, listen>>
    BY <1>17 DEF Credit, CreditNotSaved, CreditAll, env
  <2>5. JobsInv'
    BY <2>1, <2>4 DEF ScanIdle, JobsInv, DownIsEmpty, FoundIsFunded,
                      RemovedIsKnown, AnnouncedOnce, StillWatched
  <2>6. QED BY <2>2, <2>3, <2>5
<1>18. ASSUME Crash \/ CrashBeforeAnnounce PROVE IInv'
  <2>1. up /\ FoundIsFunded
    BY <1>18, <1>u DEF Crash, CrashBeforeAnnounce, AllAnswered, JobsInv
  <2>2. RegistryInv'
    BY <1>18, <2>1, ProcessStopped DEF Crash, CrashBeforeAnnounce, Save, env
  <2>3. TypeOK'
    <3>1. up' = FALSE /\ listen' = ListenIdle /\ scan' = ScanIdle /\ UNCHANGED <<env, announced>>
      BY <1>18 DEF Crash, CrashBeforeAnnounce, Stopped
    <3>2. QED BY <2>2, <3>1 DEF TypeOK, RegistryInv, env, ScanIdle, ListenIdle, Dirs
  <2>4. JobsInv'
    BY <1>18 DEF Crash, CrashBeforeAnnounce, Stopped, env, ScanIdle, ListenIdle, JobsInv, DownIsEmpty,
                 FoundIsFunded, RemovedIsKnown, AnnouncedOnce, StillWatched
  <2>5. QED BY <2>2, <2>3, <2>4
<1>19. ASSUME Restart PROVE IInv'
  <2>1. RegistryInv' BY <1>19, Restarted DEF Restart, env
  <2>2. TypeOK' BY <1>19, <2>1 DEF Restart, TypeOK, RegistryInv, env
  <2>3. JobsInv'
    BY <1>19 DEF Restart, env, ScanIdle, ListenIdle, JobsInv, DownIsEmpty, FoundIsFunded,
                 RemovedIsKnown, AnnouncedOnce, StillWatched
  <2>4. QED BY <2>1, <2>2, <2>3
<1>20. CASE UNCHANGED vars
  BY <1>20, RegistryUntouched
     DEF vars, env, TypeOK, JobsInv, DownIsEmpty, FoundIsFunded, RemovedIsKnown, AnnouncedOnce,
         StillWatched
<1>21. QED
  BY <1>1, <1>2, <1>3, <1>4, <1>5, <1>6, <1>7, <1>8, <1>9, <1>10, <1>11, <1>12, <1>13, <1>14,
     <1>15, <1>16, <1>17, <1>18, <1>19, <1>20
     DEF Next, Environment, Listen, Scan, Registration, Fault, JobFault, Ending

\* Every reachable state satisfies the inductive invariant.
THEOREM Inductive == Spec => []IInv
  BY InitIInv, NextIInv, PTL DEF Spec

\* Every state of the receiver is well typed.
THEOREM TypeCorrect == Spec => []TypeOK
<1>1. IInv => TypeOK
  BY DEF IInv
<1>2. QED BY <1>1, Inductive, PTL

\* A customer being watched survives any restart.
THEOREM WatchedSurvives == Spec => []MemIsOnDisk
<1>1. IInv => MemIsOnDisk
  BY DEF IInv, RegistryInv
<1>2. QED BY <1>1, Inductive, PTL

\* An inbox entry is only ever removed once the code it proves would survive.
THEOREM RemovalIsSafe == Spec => []RemovedOnlyOnceDurable
<1>1. IInv => RemovedOnlyOnceDurable
  <2> SUFFICES ASSUME IInv PROVE RemovedOnlyOnceDurable
    OBVIOUS
  <2>1. listen.pc = "remove" => up
    BY DEF IInv, JobsInv, DownIsEmpty, ListenIdle
  <2>2. QED BY <2>1 DEF IInv, RegistryInv, JobsInv, MemIsOnDisk, RemovedIsKnown, RemovedOnlyOnceDurable
<1>2. QED BY <1>1, Inductive, PTL

\* What the file lags behind memory by is never a payment.
THEOREM LagIsSafe == Spec => []DiskLagsSafely
<1>1. IInv => DiskLagsSafely
  BY DEF IInv, RegistryInv
<1>2. QED BY <1>1, Inductive, PTL

\* An index reads as used only when it was paid.
THEOREM UsedIsFunded == Spec => []KnownUsedIsFunded
<1>1. IInv => KnownUsedIsFunded
  BY DEF IInv, RegistryInv
<1>2. QED BY <1>1, Inductive, PTL

\* The bound on the watch list holds in memory and in the file.
THEOREM CapacityHolds == Spec => []WithinCapacity
<1>1. IInv => WithinCapacity
  BY DEF IInv, RegistryInv
<1>2. QED BY <1>1, Inductive, PTL

\* A restart from a file that lags behind finds every payment again.
THEOREM RestartFinds == Spec => []RestartFindsAgain
<1>1. IInv => RestartFindsAgain
  BY DEF IInv, RegistryInv
<1>2. QED BY <1>1, Inductive, PTL

\* No restart forgets a payment that was announced.
THEOREM CreditsDurable == Spec => []AnnouncedIsDurable
<1>1. IInv => AnnouncedIsDurable
  BY DEF IInv, RegistryInv
<1>2. QED BY <1>1, Inductive, PTL

\* A credit is announced once per registration.
THEOREM CreditsOnce == Spec => []AnnouncedOnce
<1>1. IInv => AnnouncedOnce
  BY DEF IInv, JobsInv
<1>2. QED BY <1>1, Inductive, PTL

-----------------------------------------------------------------------------
(***************************************************************************)
(* The state file is a DurableLedger.                                      *)
(***************************************************************************)
\* A paid customer of the file is one of memory, with at least those payments.
LEMMA PaidIsInMemory ==
  ASSUME IInv, up, NEW c \in DOMAIN disk, KnownUsed(disk[c]) # {}
  PROVE  c \in DOMAIN mem /\ KnownUsed(disk[c]) \subseteq KnownUsed(mem[c])
<1>1. disk[c] \in SenderRecord
  BY RegistryFields DEF IInv, RegistryInv
<1>2. QED BY <1>1, PaidIsKnown DEF IInv, RegistryInv, DiskLagsSafely

\* What a step may do to the file: nothing, or write memory after an add, a
\* prune or a credit.
LEMMA FileWrites ==
  ASSUME IInv, Next
  PROVE  \/ disk' = disk
         \/ up /\ \E c \in Codes : c \notin DOMAIN mem /\ disk' = Add(mem, c, now)
         \/ up /\ disk' = Prune(mem, now)
         \/ up /\ disk' = CreditAll(mem, scan.found)
<1> DEFINE Writes ==
      \/ disk' = disk
      \/ up /\ \E c \in Codes : c \notin DOMAIN mem /\ disk' = Add(mem, c, now)
      \/ up /\ disk' = Prune(mem, now)
      \/ up /\ disk' = CreditAll(mem, scan.found)
<1>u. listen.pc # "idle" \/ scan.pc # "idle" => up
  BY DEF IInv, JobsInv, DownIsEmpty, ListenIdle, ScanIdle
<1>a. \A c : CanAdd(mem, c) => c \notin DOMAIN mem
  BY DEF CanAdd
<1>e. \A e \in Entries : EntryCode[e] # NoCode => EntryCode[e] \in Codes
  BY EntryAssumption
<1>1. CASE Environment
  BY <1>1 DEF Environment, Tick, Post, Expire, Pay
<1>2. CASE BeginListen \/ PruneNotSaved
  BY <1>2 DEF BeginListen, PruneNotSaved, Save, SaveFails
<1>3. ASSUME NEW e \in Entries, Accept(e) \/ AcceptNotSaved(e) PROVE Writes
  <2>1. up /\ EntryCode[e] \in Codes /\ EntryCode[e] \notin DOMAIN mem
    BY <1>3, <1>u, <1>a, <1>e DEF Accept, AcceptNotSaved, Draining
  <2>2. disk' = disk \/ disk' = Add(mem, EntryCode[e], now)
    BY <1>3 DEF Accept, AcceptNotSaved, Save, SaveFails
  <2>3. QED BY <2>1, <2>2
<1>4. ASSUME NEW c \in Codes, StorefrontAdd(c) \/ StorefrontAddNotSaved(c) PROVE Writes
  BY <1>4, <1>a DEF StorefrontAdd, StorefrontAddNotSaved, Save, SaveFails
<1>5. CASE Credit \/ CreditNotSaved \/ CrashBeforeAnnounce
  BY <1>5, <1>u DEF Credit, CreditNotSaved, CrashBeforeAnnounce, AllAnswered, Save, SaveFails
<1>6. CASE ListDirectory \/ NextDirectory \/ ListReadsEmpty \/ ListFails
  BY <1>6 DEF ListDirectory, NextDirectory, ListReadsEmpty, ListFails
<1>7. ASSUME NEW e \in Entries, Drop(e) \/ Defer(e) PROVE Writes
  BY <1>7 DEF Drop, Defer
<1>8. CASE RemoveEntry \/ RemoveRefused \/ RemoveFails \/ CallHangs
  BY <1>8 DEF RemoveEntry, RemoveRefused, RemoveFails, CallHangs
<1>9. CASE BeginScan \/ FindNothing \/ LookupFails
  BY <1>9 DEF BeginScan, FindNothing, LookupFails
<1>10. ASSUME NEW w \in Watched, Lookup(w) PROVE Writes
  BY <1>10 DEF Lookup
<1>11. CASE Crash \/ Restart
  BY <1>11 DEF Crash, Restart
<1> HIDE DEF Writes
<1>12. Writes
  BY <1>1, <1>2, <1>3, <1>4, <1>5, <1>6, <1>7, <1>8, <1>9, <1>10, <1>11
     DEF Next, Listen, Scan, Registration, Fault, JobFault, Ending, Writes
<1>13. QED BY <1>12 DEF Writes

\* Whatever a step writes to the file keeps every paid customer in it.
LEMMA PaidIsKept ==
  ASSUME IInv, Next, NEW c \in DOMAIN disk, KnownUsed(disk[c]) # {}
  PROVE  c \in DOMAIN disk' /\ KnownUsed(disk[c]) \subseteq KnownUsed(disk'[c])
<1>m. up => c \in DOMAIN mem /\ KnownUsed(disk[c]) \subseteq KnownUsed(mem[c])
  BY PaidIsInMemory
<1>t. mem \in Registries /\ now \in Clock /\ scan.found \in SUBSET (Codes \X Index)
  BY DEF IInv, TypeOK, Addresses
<1>1. CASE disk' = disk
  BY <1>1
<1>2. ASSUME up, NEW d \in Codes, d \notin DOMAIN mem, disk' = Add(mem, d, now)
      PROVE  c \in DOMAIN disk' /\ disk'[c] = mem[c]
  BY <1>2, <1>m DEF Add
<1>3. CASE up /\ disk' = Prune(mem, now)
  <2>1. c \in DOMAIN mem /\ mem[c] \in SenderRecord
    BY <1>3, <1>m, <1>t, RegistryFields
  <2>2. Paid(mem[c])
    BY <1>3, <1>m, <2>1, PaidIsKnown
  <2>3. c \in DOMAIN Prune(mem, now) /\ Prune(mem, now)[c] = mem[c]
    BY <2>1, <2>2, <1>t, PruneSound
  <2>4. QED BY <1>3, <1>m, <2>3
<1>4. CASE up /\ disk' = CreditAll(mem, scan.found)
  <2>1. DOMAIN disk' = DOMAIN mem
    BY <1>4, <1>t, CreditAllSound
  <2>2. \A d \in DOMAIN mem :
          KnownUsed(disk'[d]) = KnownUsed(mem[d]) \cup {i \in Index : <<d, i>> \in scan.found}
    BY <1>4, <1>t, CreditAllSound
  <2>3. QED BY <1>4, <1>m, <2>1, <2>2
<1>5. QED BY <1>1, <1>2, <1>3, <1>4, <1>m, FileWrites

\* Payments are the only steps on the chain, and they leave the file alone.
LEMMA ChainStep ==
  ASSUME Next
  PROVE  \/ funded' = funded
         \/ \E c \in Codes, i \in Index : funded' = funded \cup {<<c, i>>} /\ disk' = disk
<1>1. ASSUME NEW c \in Codes, NEW i \in Index, Pay(c, i)
      PROVE  funded' = funded \cup {<<c, i>>} /\ disk' = disk
  BY <1>1 DEF Pay
<1>2. CASE Tick \/ \E e \in Entries : Post(e) \/ Expire(e)
  BY <1>2 DEF Tick, Post, Expire
<1>3. CASE BeginListen \/ ListDirectory \/ NextDirectory
  BY <1>3 DEF BeginListen, ListDirectory, NextDirectory, env
<1>4. CASE \E e \in Entries : Drop(e) \/ Defer(e) \/ Accept(e) \/ AcceptNotSaved(e)
  BY <1>4 DEF Drop, Defer, Accept, AcceptNotSaved, env
<1>5. CASE RemoveEntry \/ RemoveFails \/ RemoveRefused \/ CallHangs
  BY <1>5 DEF RemoveEntry, RemoveFails, RemoveRefused, CallHangs, env
<1>6. CASE Scan
  BY <1>6 DEF Scan, BeginScan, Lookup, FindNothing, Credit, env
<1>7. CASE Registration \/ \E c \in Codes : StorefrontAddNotSaved(c)
  BY <1>7 DEF Registration, StorefrontAdd, StorefrontAddNotSaved, env
<1>8. CASE PruneNotSaved \/ ListReadsEmpty \/ ListFails
  BY <1>8 DEF PruneNotSaved, ListReadsEmpty, ListFails, env
<1>9. CASE LookupFails \/ CreditNotSaved \/ Crash \/ CrashBeforeAnnounce \/ Restart
  BY <1>9 DEF LookupFails, CreditNotSaved, Crash, CrashBeforeAnnounce, Restart, env
<1>10. QED
  BY <1>1, <1>2, <1>3, <1>4, <1>5, <1>6, <1>7, <1>8, <1>9
     DEF Next, Environment, Listen, Registration, Fault, JobFault, Ending

\* The state file keeps the promise of DurableLedger: through every failed
\* write, race and crash, a customer who paid and the payments known stay.
THEOREM FileIsDurableLedger == Spec => ImplementsLedger
<1> DEFINE L == [c \in DOMAIN disk |-> KnownUsed(disk[c])]
<1>1. Init => Ledger!Init
  BY DEF Init, Ledger!Init, EmptyRegistry
<1>2. IInv /\ IInv' /\ [Next]_vars => [Ledger!Next]_<<L, funded>>
  <2> SUFFICES ASSUME IInv, IInv', [Next]_vars PROVE [Ledger!Next]_<<L, funded>>
    OBVIOUS
  <2>1. CASE UNCHANGED vars
    BY <2>1 DEF vars, env
  <2>2. CASE Next /\ funded' = funded
    <3>1. DOMAIN disk' \subseteq Codes
      BY RegistryFields DEF IInv, RegistryInv
    <3>2. L' \in [DOMAIN disk' -> SUBSET Ledger!Index]
      BY DEF KnownUsed, Index, Ledger!Index
    <3>3. Cardinality(DOMAIN disk') <= MaxSenders
      BY DEF IInv, RegistryInv, WithinCapacity
    <3>4. L' \in Ledger!Ledgers
      BY <3>1, <3>2, <3>3 DEF Ledger!Ledgers
    <3>5. \A c \in DOMAIN L : L[c] # {} => c \in DOMAIN L' /\ L[c] \subseteq L'[c]
      BY <2>2, PaidIsKept
    <3>6. \A c \in DOMAIN L' : {c} \X L'[c] \subseteq funded
      BY <2>2 DEF IInv, RegistryInv, KnownUsedIsFunded
    <3>7. Ledger!Write
      BY <2>2, <3>4, <3>5, <3>6 DEF Ledger!Write, Ledger!Kept
    <3>8. QED BY <3>7 DEF Ledger!Next
  <2>3. ASSUME NEW c \in Codes, NEW i \in Index, funded' = funded \cup {<<c, i>>}, disk' = disk
        PROVE Ledger!Next
    BY <2>3 DEF Ledger!Next, Ledger!Pay, Ledger!Index, Index
  <2>4. QED
    BY <2>1, <2>2, <2>3, ChainStep
<1>3. QED BY <1>1, <1>2, Inductive, PTL DEF Spec, ImplementsLedger, Ledger!Spec
=============================================================================

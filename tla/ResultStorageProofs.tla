------------------------- MODULE ResultStorageProofs -------------------------
(***************************************************************************)
(* Proofs about ResultStorage, for every size, budget and time to live, and *)
(* for every number of results, crashes and failed file operations.        *)
(***************************************************************************)
EXTENDS ResultStorage, SumTheorems

-----------------------------------------------------------------------------
(* The inductive invariant.                                                *)

\* A dead process has no call in progress and no index.
DownIsEmpty == ~up => op = Idle /\ Indexed = {}

\* A sweep took its time before now: what it finds due is due.
SinceIsPast == op.since <= time

\* The result of a put that is not over has an id of its own, which nobody was
\* told yet; after the rename the FileStore has it.
PutSound ==
  (op.at = "WRITE" \/ (op.at = "SAVE" /\ op.caller = "put")) =>
    /\ op.id \in 1..made /\ op.id \notin Indexed
    /\ op.at = "SAVE" => op.id \in meta \cap files

\* Only results that were made are indexed, and a call knows its place.
IndexSound ==
  /\ Indexed \subseteq 1..made
  /\ op.at = "WRITE" => op.caller = "put"
  /\ op.at = "SAVE" => op.caller # "none"
  /\ op.at = "GET" => op.id \in Ids

IInv ==
  /\ TypeOK /\ DownIsEmpty /\ SinceIsPast /\ PutSound /\ IndexSound
  /\ AnnouncedIsStored

\* The totals are right, a restart could load the manifest, the room for a write
\* in progress is still free, and its result is in neither store.
BytesSound ==
  /\ BytesAccounted
  /\ Bytes(manifest) <= MaxBytes
  /\ op.at = "WRITE" =>
       op.id \notin meta \cup memory /\ fileTotal + size[op.id] <= MaxBytes
  /\ op.at = "SAVE" /\ op.caller = "put" => op.id \notin memory

\* What a step may do to the index.
IndexKept ==
  \A id \in Indexed : ~Due(id, time) => index'[id] = index[id] \/ ~up'

-----------------------------------------------------------------------------
(* What the parts of an action do.                                         *)

\* A call record has its fields and its type.
LEMMA OpTyped ==
  ASSUME NEW at \in Stages, NEW caller \in Callers, NEW id \in Ids \cup {0},
         NEW since \in 0..MaxTime
  PROVE  /\ Op(at, caller, id, since) \in
              [at : Stages, caller : Callers, id : Ids \cup {0},
               since : 0..MaxTime]
         /\ Op(at, caller, id, since).at = at
         /\ Op(at, caller, id, since).caller = caller
         /\ Op(at, caller, id, since).id = id
         /\ Op(at, caller, id, since).since = since
  BY DEF Op

\* Between two calls nothing is in progress.
LEMMA IdleTyped ==
  /\ Idle \in [at : Stages, caller : Callers, id : Ids \cup {0},
               since : 0..MaxTime]
  /\ Idle.at = "IDLE" /\ Idle.since = 0
  <1>1. MaxTime \in Nat
    BY StorageAssumption
  <1>2. "IDLE" \in Stages /\ "none" \in Callers /\ 0 \in 0..MaxTime
    BY <1>1 DEF Stages, Callers
  <1> QED
    BY <1>2, OpTyped DEF Idle

\* What a read or a sweep may do: take away what is due, and no more.
RemovesDue ==
  /\ UNCHANGED <<time, results, up, temps, hasManifest, manifest>>
  /\ faults' \in {faults, faults + 1} /\ faults' <= MaxFaults
  /\ meta' \subseteq meta /\ files' \subseteq files /\ memory' \subseteq memory
  /\ index' \in [Ids -> Backends]
  /\ \A id \in Ids :
       /\ index'[id] \in {index[id], "none"}
       /\ ~Due(id, time) => /\ index'[id] = index[id]
                            /\ id \in meta => id \in meta'
                            /\ id \in files => id \in files'
                            /\ id \in memory => id \in memory'
  /\ OpType' /\ op'.since <= time
  /\ up
  /\ op'.at # "WRITE"
  /\ op'.at = "SAVE" => op'.caller \notin {"none", "put"}
  /\ op'.at = "GET" => op'.id \in Ids

\* What is due at a time in the past is due.
LEMMA StillDue ==
  ASSUME TypeOK, NEW id \in Ids, NEW since \in 0..MaxTime, since <= time,
         Due(id, since)
  PROVE  Due(id, time)
  BY StorageAssumption DEF TypeOK, ClockType, Due

\* FileStore._remove_locked takes one result away, and its file or not.
LEMMA FileRemovedEffect ==
  ASSUME TypeOK, NEW id \in Ids, NEW caller \in Callers \ {"none", "put"},
         NEW since \in 0..MaxTime, FileRemoved(id, caller, since)
  PROVE  /\ meta' = meta \ {id}
         /\ files' \in {files, files \ {id}}
         /\ faults' \in {faults, faults + 1} /\ faults' <= MaxFaults
         /\ OpType' /\ op'.at = "SAVE" /\ op'.caller = caller
         /\ op'.since = since
  <1>1. op' = Op("SAVE", caller, id, since)
    BY DEF FileRemoved
  <1>2. "SAVE" \in Stages
    BY DEF Stages
  <1>3. OpType' /\ op'.at = "SAVE" /\ op'.caller = caller /\ op'.since = since
    BY <1>1, <1>2, OpTyped DEF OpType
  <1>4. meta' = meta \ {id} /\ files' \in {files, files \ {id}}
    BY DEF FileRemoved
  <1>5. faults' \in {faults, faults + 1} /\ faults' <= MaxFaults
    BY StorageAssumption DEF FileRemoved, Fault, TypeOK, ClockType
  <1> QED
    BY <1>3, <1>4, <1>5

\* Each read and each step of a sweep keeps to that.
LEMMA RemovalStep ==
  ASSUME IInv,
         (\E id \in Ids : Read(id)) \/ Get \/ SweepIndex \/ SweepStores
  PROVE  RemovesDue
  <1> USE DEF IInv, TypeOK
  <1>0. /\ op.since \in 0..MaxTime /\ op.since <= time /\ 0 \in 0..MaxTime
        /\ 0 <= time /\ time \in 0..MaxTime
        /\ faults \in 0..MaxFaults
    BY StorageAssumption DEF OpType, SinceIsPast, ClockType
  <1>1. ASSUME NEW id \in Ids, Read(id)
        PROVE  RemovesDue
    <2>1. op' = op \/ op' = Op("GET", "read", id, 0)
      BY <1>1 DEF Read
    <2>2. op = Idle /\ up
      BY <1>1 DEF Read
    <2>3. "GET" \in Stages /\ "read" \in Callers
      BY DEF Stages, Callers
    <2>4. /\ OpType' /\ op'.since <= time
          /\ op'.at \notin {"WRITE", "SAVE"}
          /\ op'.at = "GET" => op'.id \in Ids
      BY <1>0, <2>1, <2>2, <2>3, OpTyped, IdleTyped DEF OpType
    <2>5. index' \in [Ids -> Backends]
      BY <1>1 DEF Read, IndexType, Backends
    <2>6. \A i \in Ids : /\ index'[i] \in {index[i], "none"}
                         /\ ~Due(i, time) => index'[i] = index[i]
      BY <1>1 DEF Read, IndexType
    <2> QED
      BY <1>0, <1>1, <2>2, <2>4, <2>5, <2>6
      DEF Read, RemovesDue, fileVars, memoryVars, disk
  <1>2. CASE Get
    <2>0. op.at = "GET" /\ op.id \in Ids /\ up
      BY <1>2, IdleTyped DEF Get, IndexSound, DownIsEmpty, IndexType
    <2>1. CASE Due(op.id, time) /\ FileRemoved(op.id, "read", 0)
                 /\ UNCHANGED memoryVars
      <3>1. "read" \in Callers \ {"none", "put"}
        BY DEF Callers
      <3> QED
        BY <1>0, <1>2, <2>0, <2>1, <3>1, FileRemovedEffect
        DEF Get, RemovesDue, memoryVars, IndexType
    <2>2. CASE Due(op.id, time) /\ MemoryRemoved({op.id}) /\ op' = Idle
                 /\ UNCHANGED <<fileVars, files, faults>>
      BY <1>0, <1>2, <2>0, <2>2, IdleTyped
      DEF Get, RemovesDue, MemoryRemoved, fileVars, IndexType, OpType
    <2>3. CASE op' = Idle /\ UNCHANGED <<fileVars, memoryVars, files, faults>>
      BY <1>0, <1>2, <2>0, <2>3, IdleTyped
      DEF Get, RemovesDue, fileVars, memoryVars, IndexType, OpType
    <2> QED
      BY <1>2, <2>1, <2>2, <2>3 DEF Get
  <1>3. CASE SweepIndex
    <2>0. op.at = "SWEEP_INDEX" /\ up
      BY <1>3, IdleTyped DEF SweepIndex, DownIsEmpty, IndexType
    <2>1. ASSUME NEW id \in Indexed, Due(id, op.since),
                 index' = [index EXCEPT ![id] = "none"],
                 \/ /\ FileRemoved(id, "SWEEP_INDEX", op.since)
                    /\ UNCHANGED memoryVars
                 \/ UNCHANGED <<fileVars, memoryVars, files, faults, op>>
                 \/ /\ MemoryRemoved({id})
                    /\ UNCHANGED <<fileVars, files, faults, op>>
          PROVE  RemovesDue
      <3>1. id \in Ids /\ Due(id, time)
        BY <1>0, <2>1, StillDue DEF Indexed
      <3>2. index' \in [Ids -> Backends]
        BY <2>1, <3>1 DEF IndexType, Backends
      <3>3. \A i \in Ids : /\ index'[i] \in {index[i], "none"}
                           /\ ~Due(i, time) => index'[i] = index[i]
        BY <2>1, <3>1 DEF IndexType
      <3>4. UNCHANGED <<time, results, up, temps, hasManifest, manifest>>
        BY <1>3 DEF SweepIndex
      <3>5. CASE FileRemoved(id, "SWEEP_INDEX", op.since)
                   /\ UNCHANGED memoryVars
        <4>1. "SWEEP_INDEX" \in Callers \ {"none", "put"}
          BY DEF Callers
        <4> QED
          BY <1>0, <2>0, <3>1, <3>2, <3>3, <3>4, <3>5, <4>1,
             FileRemovedEffect
          DEF RemovesDue, memoryVars
      <3>6. CASE UNCHANGED <<fileVars, memoryVars, files, faults, op>>
        BY <1>0, <2>0, <3>1, <3>2, <3>3, <3>4, <3>6
        DEF RemovesDue, fileVars, memoryVars, OpType
      <3>7. CASE MemoryRemoved({id})
                   /\ UNCHANGED <<fileVars, files, faults, op>>
        BY <1>0, <2>0, <3>1, <3>2, <3>3, <3>4, <3>7
        DEF RemovesDue, MemoryRemoved, fileVars, OpType
      <3> QED
        BY <2>1, <3>5, <3>6, <3>7
    <2>2. CASE op' = [op EXCEPT !.at = "SWEEP_FILES"]
                 /\ UNCHANGED <<index, fileVars, memoryVars, files, faults>>
      <3>1. OpType' /\ op'.at = "SWEEP_FILES" /\ op'.since = op.since
        BY <2>2 DEF OpType, Stages
      <3> QED
        BY <1>0, <1>3, <2>0, <2>2, <3>1
        DEF SweepIndex, RemovesDue, fileVars, memoryVars, IndexType
    <2> QED
      BY <1>3, <2>1, <2>2 DEF SweepIndex
  <1>4. CASE SweepStores
    <2>0. op.at = "SWEEP_FILES" /\ up
      BY <1>4, IdleTyped DEF SweepStores, DownIsEmpty, IndexType
    <2>1. ASSUME NEW id \in meta, Due(id, op.since),
                 FileRemoved(id, "SWEEP_FILES", op.since),
                 UNCHANGED memoryVars
          PROVE  RemovesDue
      <3>1. id \in Ids
        BY StorageAssumption DEF HeldType, ClockType, Ids
      <3>2. Due(id, time)
        BY <1>0, <2>1, <3>1, StillDue
      <3>3. "SWEEP_FILES" \in Callers \ {"none", "put"}
        BY DEF Callers
      <3> QED
        BY <1>0, <1>4, <2>0, <2>1, <3>1, <3>2, <3>3, FileRemovedEffect
        DEF SweepStores, RemovesDue, memoryVars, IndexType
    <2>2. CASE MemoryRemoved({id \in memory : Due(id, op.since)}) /\ op' = Idle
                 /\ UNCHANGED <<fileVars, files, faults>>
      <3>1. memory' = memory \ {id \in memory : Due(id, op.since)}
        BY <2>2 DEF MemoryRemoved
      <3>2. \A id \in Ids : ~Due(id, time) => (id \in memory => id \in memory')
        BY <1>0, <3>1, StillDue
      <3> QED
        BY <1>0, <1>4, <2>0, <2>2, <3>1, <3>2, IdleTyped
        DEF SweepStores, RemovesDue, fileVars, IndexType, OpType
    <2> QED
      BY <1>4, <2>1, <2>2 DEF SweepStores
  <1> QED
    BY <1>1, <1>2, <1>3, <1>4

\* A put takes the next id.
LEMMA NewIdFresh ==
  ASSUME TypeOK, made < MaxResults
  PROVE  NewId \in Ids /\ NewId = made + 1 /\ NewId \in 1..(made + 1)
  BY StorageAssumption DEF TypeOK, ClockType, NewId, Ids

\* MemoryStore.put takes the result in, and indexes it, or does nothing.
LEMMA MemoryPutEffect ==
  ASSUME IndexType, NEW id \in Ids, NEW s, MemoryPut(id, s)
  PROVE  /\ index' \in [Ids -> Backends]
         /\ memory' \in {memory, memory \cup {id}}
         /\ \A i \in Ids : i # id => index'[i] = index[i]
         /\ index'[id] = index[id] \/ (index'[id] = "memory" /\ id \in memory')
  <1>1. CASE UNCHANGED <<memoryVars, index>>
    BY <1>1 DEF memoryVars, IndexType
  <1>2. CASE /\ memory' = memory \cup {id}
             /\ index' = [index EXCEPT ![id] = "memory"]
    BY <1>2 DEF IndexType, Backends
  <1> QED
    BY <1>1, <1>2 DEF MemoryPut

\* A put that begins changes nothing that was there before.
PutAdds ==
  /\ NewId \in Ids /\ NewId = made + 1 /\ made' = made + 1
  /\ NewId \notin 1..made /\ up /\ ClockType'
  /\ \A i \in Ids : i # NewId => expires'[i] = expires[i]
  /\ index' \in [Ids -> Backends]
  /\ \A i \in Ids : i # NewId => index'[i] = index[i]
  /\ \/ index'[NewId] = index[NewId]
     \/ index'[NewId] = "memory" /\ NewId \in memory'
  /\ memory \subseteq memory' /\ memory' \subseteq memory \cup {NewId}
  /\ temps' \subseteq temps \cup {NewId}
  /\ UNCHANGED <<time, up, meta, files, hasManifest, manifest>>
  /\ OpType' /\ op'.since = 0
  /\ \/ op'.at = "IDLE"
     \/ /\ op'.at = "WRITE" /\ op'.caller = "put" /\ op'.id = NewId
        /\ UNCHANGED index

\* The two ways a put can begin, with a file and in memory.
LEMMA PutBeginsAdds ==
  ASSUME IInv, NEW s \in Sizes, PutBegins(s)
  PROVE  PutAdds
  <1>1. /\ NewId \in Ids /\ NewId = made + 1 /\ made' = made + 1
        /\ NewId \notin 1..made /\ up /\ op = Idle /\ made \in Nat
        /\ UNCHANGED <<time, up, meta, files, hasManifest, manifest>>
        /\ faults' = faults /\ size' = [size EXCEPT ![NewId] = s]
        /\ expires' = [expires EXCEPT ![NewId] = time + Ttl]
    BY NewIdFresh DEF PutBegins, IInv, TypeOK, ClockType, fileVars
  <1>2. \A i \in Ids : i # NewId => expires'[i] = expires[i]
    BY <1>1 DEF IInv, TypeOK, ClockType
  <1>3. ClockType'
    <2>1. /\ time' \in 0..MaxTime /\ made' \in 0..MaxResults
          /\ faults' \in 0..MaxFaults
      BY <1>1, StorageAssumption DEF PutBegins, IInv, TypeOK, ClockType
    <2>2. size' \in [Ids -> Sizes \cup {0}]
      BY <1>1 DEF IInv, TypeOK, ClockType
    <2>3. time + Ttl \in 0..(MaxTime + Ttl)
      BY StorageAssumption DEF IInv, TypeOK, ClockType
    <2>4. expires' \in [Ids -> 0..(MaxTime + Ttl)]
      BY <1>1, <2>3 DEF IInv, TypeOK, ClockType
    <2> QED
      BY <2>1, <2>2, <2>4 DEF ClockType
  <1>4. CASE /\ temps' = temps \cup {NewId}
             /\ op' = Op("WRITE", "put", NewId, 0)
             /\ UNCHANGED <<memoryVars, index>>
    <2>1. "WRITE" \in Stages /\ "put" \in Callers /\ 0 \in 0..MaxTime
      BY StorageAssumption DEF Stages, Callers
    <2>2. /\ OpType' /\ op'.since = 0
          /\ op'.at = "WRITE" /\ op'.caller = "put" /\ op'.id = NewId
      BY <1>1, <1>4, <2>1, OpTyped DEF OpType
    <2> QED
      BY <1>1, <1>2, <1>4, <1>3, <2>2
      DEF PutAdds, memoryVars, IInv, TypeOK, IndexType
  <1>5. CASE MemoryPut(NewId, s) /\ UNCHANGED <<temps, op>>
    <2>1. OpType' /\ op'.since = 0 /\ op'.at = "IDLE"
      BY <1>1, <1>5, IdleTyped DEF OpType
    <2>2. IndexType
      BY DEF IInv, TypeOK
    <2> QED
      BY <1>1, <1>2, <1>5, <1>3, <2>1, <2>2, MemoryPutEffect DEF PutAdds
  <1> QED
    BY <1>4, <1>5 DEF PutBegins

\* A write that fails ends the call, with the result in memory or nowhere.
FallsBack ==
  /\ UNCHANGED <<time, results, up, meta, files, hasManifest, manifest>>
  /\ op' = Idle /\ op.at # "IDLE" /\ temps' \subseteq temps
  /\ faults' \in 0..MaxFaults
  /\ index' \in [Ids -> Backends]
  /\ \A i \in Ids :
       \/ index'[i] = index[i]
       \/ /\ index[i] = "none" /\ index'[i] = "memory"
          /\ i \in memory' /\ i \in 1..made
  /\ memory \subseteq memory' /\ memory' \subseteq memory \cup 1..made

\* Before the rename as after it, and for reads and sweeps too.
LEMMA FailedFallsBack ==
  ASSUME IInv, WriteFails \/ SaveFails
  PROVE  FallsBack
  <1>1. /\ UNCHANGED <<time, results, up, meta, files, hasManifest, manifest>>
        /\ op' = Idle /\ op.at # "IDLE" /\ temps' \subseteq temps
    BY DEF WriteFails, SaveFails, fileVars, disk
  <1>2. faults' \in 0..MaxFaults
    BY StorageAssumption
    DEF WriteFails, SaveFails, Fault, IInv, TypeOK, ClockType
  <1>3. CASE UNCHANGED <<memoryVars, index>>
    BY <1>1, <1>2, <1>3
    DEF FallsBack, memoryVars, IInv, TypeOK, IndexType
  <1>4. CASE (op.at = "WRITE" \/ op.caller = "put")
               /\ MemoryPut(op.id, size[op.id])
    <2>1. op.at \in {"WRITE", "SAVE"}
      BY DEF WriteFails, SaveFails
    <2>2. op.id \in 1..made /\ op.id \notin Indexed
      BY <1>4, <2>1 DEF IInv, PutSound
    <2>3. op.id \in Ids /\ index[op.id] = "none"
      BY <2>2, StorageAssumption DEF IInv, TypeOK, ClockType, Ids, Indexed
    <2>4. IndexType
      BY DEF IInv, TypeOK
    <2> QED
      BY <1>1, <1>2, <1>4, <2>2, <2>3, <2>4, MemoryPutEffect DEF FallsBack
  <1> QED
    BY <1>3, <1>4 DEF WriteFails, SaveFails

\* After the rename the same call saves the manifest.
LEMMA RenamedOp ==
  ASSUME OpType, Renamed
  PROVE  /\ OpType' /\ op'.at = "SAVE" /\ op'.caller = op.caller
         /\ op'.id = op.id /\ op'.since = op.since
  BY DEF OpType, Renamed, Stages

\* After the manifest a put or a read is over and a sweep goes on.
LEMMA SavedOp ==
  ASSUME OpType, op.at = "SAVE" => op.caller # "none", Saved
  PROVE  /\ OpType' /\ op'.at \notin {"WRITE", "SAVE", "GET"}
         /\ op'.since \in {0, op.since}
  <1>1. CASE op.caller \in {"put", "read"}
    BY <1>1, IdleTyped DEF OpType, Saved
  <1>2. CASE op.caller \notin {"put", "read"}
    <2>1. op' = [op EXCEPT !.at = op.caller] /\ op.at = "SAVE"
      BY <1>2 DEF Saved
    <2>2. op.caller \in {"SWEEP_INDEX", "SWEEP_FILES"}
      BY <1>2, <2>1 DEF OpType, Callers
    <2> QED
      BY <2>1, <2>2 DEF OpType, Stages
  <1> QED
    BY <1>1, <1>2

-----------------------------------------------------------------------------
\* The clock, the results and the count of failures keep their types.
LEMMA ClockStep ==
  ASSUME IInv, [Next]_vars
  PROVE  ClockType'
  <1> USE DEF IInv, TypeOK, ClockType, Ids
  <1> USE StorageAssumption
  <1>1. CASE PutAdds
    BY <1>1 DEF PutAdds
  <1>2. CASE FallsBack
    BY <1>2 DEF FallsBack, results
  <1>3. CASE Renamed
    BY <1>3 DEF Renamed, results, memoryVars
  <1>4. CASE Saved
    BY <1>4 DEF Saved, results, fileVars, memoryVars, Idle, Op
  <1>5. CASE SweepBegins
    BY <1>5 DEF SweepBegins, results, fileVars, memoryVars, disk, Idle, Op
  <1>6. CASE RemovesDue
    BY <1>6 DEF RemovesDue, results
  <1>7. CASE Stop
    BY <1>7 DEF Stop, Vanished, results, disk, Idle, Op
  <1>8. CASE Crash
    BY <1>8 DEF Crash, Fault, Vanished, results, disk, Idle, Op
  <1>9. CASE Restart
    BY <1>9 DEF Restart, Load, SweepDirectory, Fault, results, memoryVars,
           disk
  <1>10. CASE Tick
    BY <1>10 DEF Tick, results, fileVars, memoryVars, disk
  <1>11. CASE UNCHANGED vars
    BY <1>11 DEF vars, results, fileVars, memoryVars, disk
  <1> QED
    BY RemovalStep, PutBeginsAdds, FailedFallsBack,
       <1>1, <1>2, <1>3, <1>4, <1>5, <1>6, <1>7, <1>8, <1>9, <1>10, <1>11
    DEF Next, Continue

\* The index keeps its type.
LEMMA IndexTypeStep ==
  ASSUME IInv, [Next]_vars
  PROVE  IndexType'
  <1> USE DEF IInv, TypeOK, IndexType, OpType, Backends
  <1>1. CASE PutAdds
    BY <1>1 DEF PutAdds
  <1>2. CASE FallsBack
    BY <1>2 DEF FallsBack, results
  <1>3. CASE Renamed
    BY <1>3 DEF Renamed, results, memoryVars
  <1>4. CASE Saved
    BY <1>4 DEF Saved, results, fileVars, memoryVars, Idle, Op
  <1>5. CASE SweepBegins
    BY <1>5 DEF SweepBegins, results, fileVars, memoryVars, disk, Idle, Op
  <1>6. CASE RemovesDue
    BY <1>6 DEF RemovesDue, results
  <1>7. CASE Stop
    BY <1>7 DEF Stop, Vanished, results, disk, Idle, Op
  <1>8. CASE Crash
    BY <1>8 DEF Crash, Fault, Vanished, results, disk, Idle, Op
  <1>9. CASE Restart
    BY <1>9 DEF Restart, Load, SweepDirectory, Fault, results, memoryVars,
           disk
  <1>10. CASE Tick
    BY <1>10 DEF Tick, results, fileVars, memoryVars, disk
  <1>11. CASE UNCHANGED vars
    BY <1>11 DEF vars, results, fileVars, memoryVars, disk
  <1> QED
    BY RemovalStep, PutBeginsAdds, FailedFallsBack,
       <1>1, <1>2, <1>3, <1>4, <1>5, <1>6, <1>7, <1>8, <1>9, <1>10, <1>11
    DEF Next, Continue

\* What a bad manifest has loaded, it lists.
LEMMA LoadedFromManifest ==
  ASSUME NEW S \in LoadedPart
  PROVE  S \subseteq manifest
  BY DEF LoadedPart

\* The stores and the directory hold results that were made.
LEMMA HeldStep ==
  ASSUME IInv, [Next]_vars
  PROVE  HeldType'
  <1> USE DEF IInv, TypeOK, ClockType, HeldType, OpType, PutSound
  <1>1. CASE PutAdds
    BY <1>1 DEF PutAdds
  <1>2. CASE FallsBack
    BY <1>2 DEF FallsBack, results
  <1>3. CASE Renamed
    BY <1>3 DEF Renamed, results, memoryVars
  <1>4. CASE Saved
    BY <1>4 DEF Saved, results, fileVars, memoryVars, Idle, Op
  <1>5. CASE SweepBegins
    BY <1>5 DEF SweepBegins, results, fileVars, memoryVars, disk, Idle, Op
  <1>6. CASE RemovesDue
    BY <1>6 DEF RemovesDue, results
  <1>7. CASE Stop
    BY <1>7 DEF Stop, Vanished, results, disk, Idle, Op
  <1>8. CASE Crash
    BY <1>8 DEF Crash, Fault, Vanished, results, disk, Idle, Op
  <1>9. CASE Restart
    <2>1. meta' = manifest \/ meta' \in LoadedPart \/ meta' = {}
      BY <1>9 DEF Restart, Load, SweepDirectory
    <2>2. meta' \subseteq manifest
      BY <2>1, LoadedFromManifest
    <2>3. files' \subseteq files /\ temps' \subseteq temps
      BY <1>9 DEF Restart, Load, SweepDirectory, disk
    <2> QED
      BY <1>9, <2>2, <2>3
      DEF Restart, Load, SweepDirectory, results, memoryVars, disk
  <1>10. CASE Tick
    BY <1>10 DEF Tick, results, fileVars, memoryVars, disk
  <1>11. CASE UNCHANGED vars
    BY <1>11 DEF vars, results, fileVars, memoryVars, disk
  <1> QED
    BY RemovalStep, PutBeginsAdds, FailedFallsBack,
       <1>1, <1>2, <1>3, <1>4, <1>5, <1>6, <1>7, <1>8, <1>9, <1>10, <1>11
    DEF Next, Continue

\* A call keeps its type.
LEMMA OpStep ==
  ASSUME IInv, [Next]_vars
  PROVE  OpType'
  <1> USE DEF IInv, TypeOK, OpType, ClockType, SinceIsPast, IndexSound,
            Stages, Callers
  <1> USE IdleTyped
  <1>1. CASE PutAdds
    BY <1>1 DEF PutAdds
  <1>2. CASE FallsBack
    BY <1>2 DEF FallsBack, results
  <1>3. CASE Renamed
    BY <1>3 DEF Renamed, results, memoryVars
  <1>4. CASE Saved
    BY <1>4, SavedOp DEF Saved, results, fileVars, memoryVars
  <1>5. CASE SweepBegins
    BY <1>5 DEF SweepBegins, results, fileVars, memoryVars, disk, Idle, Op
  <1>6. CASE RemovesDue
    BY <1>6 DEF RemovesDue, results
  <1>7. CASE Stop
    BY <1>7 DEF Stop, Vanished, results, disk, Idle, Op
  <1>8. CASE Crash
    BY <1>8 DEF Crash, Fault, Vanished, results, disk, Idle, Op
  <1>9. CASE Restart
    BY <1>9 DEF Restart, Load, SweepDirectory, Fault, results, memoryVars,
           disk
  <1>10. CASE Tick
    BY <1>10 DEF Tick, results, fileVars, memoryVars, disk
  <1>11. CASE UNCHANGED vars
    BY <1>11 DEF vars, results, fileVars, memoryVars, disk
  <1> QED
    BY RemovalStep, PutBeginsAdds, FailedFallsBack,
       <1>1, <1>2, <1>3, <1>4, <1>5, <1>6, <1>7, <1>8, <1>9, <1>10, <1>11
    DEF Next, Continue

\* A process that ends leaves nothing behind but the directory.
LEMMA DownStep ==
  ASSUME IInv, [Next]_vars
  PROVE  DownIsEmpty'
  <1> USE DEF IInv, TypeOK, ClockType, IndexType, HeldType, OpType,
            DownIsEmpty, SinceIsPast, PutSound, IndexSound, Indexed, Ids,
            Backends
  <1> USE IdleTyped
  <1>1. CASE PutAdds
    BY <1>1 DEF PutAdds
  <1>2. CASE FallsBack
    BY <1>2 DEF FallsBack, results
  <1>3. CASE Renamed
    BY <1>3 DEF Renamed, results, memoryVars
  <1>4. CASE Saved
    BY <1>4 DEF Saved, results, fileVars, memoryVars, Idle, Op
  <1>5. CASE SweepBegins
    BY <1>5 DEF SweepBegins, results, fileVars, memoryVars, disk, Idle, Op
  <1>6. CASE RemovesDue
    BY <1>6 DEF RemovesDue, results
  <1>7. CASE Stop
    BY <1>7 DEF Stop, Vanished, results, disk, Idle, Op
  <1>8. CASE Crash
    BY <1>8 DEF Crash, Fault, Vanished, results, disk, Idle, Op
  <1>9. CASE Restart
    BY <1>9 DEF Restart, Load, SweepDirectory, Fault, results, memoryVars,
           disk
  <1>10. CASE Tick
    BY <1>10 DEF Tick, results, fileVars, memoryVars, disk
  <1>11. CASE UNCHANGED vars
    BY <1>11 DEF vars, results, fileVars, memoryVars, disk
  <1> QED
    BY RemovalStep, PutBeginsAdds, FailedFallsBack,
       <1>1, <1>2, <1>3, <1>4, <1>5, <1>6, <1>7, <1>8, <1>9, <1>10, <1>11
    DEF Next, Continue

\* The clock does not go back.
LEMMA SinceStep ==
  ASSUME IInv, [Next]_vars
  PROVE  SinceIsPast'
  <1> USE DEF IInv, TypeOK, ClockType, IndexType, HeldType, OpType,
            DownIsEmpty, SinceIsPast, PutSound, IndexSound, Indexed, Ids,
            Backends
  <1> USE IdleTyped
  <1>1. CASE PutAdds
    BY <1>1 DEF PutAdds
  <1>2. CASE FallsBack
    BY <1>2 DEF FallsBack, results
  <1>3. CASE Renamed
    BY <1>3, RenamedOp DEF Renamed, results, memoryVars
  <1>4. CASE Saved
    BY <1>4, SavedOp DEF Saved, results, fileVars, memoryVars
  <1>5. CASE SweepBegins
    BY <1>5 DEF SweepBegins, results, fileVars, memoryVars, disk, Idle, Op
  <1>6. CASE RemovesDue
    BY <1>6 DEF RemovesDue, results
  <1>7. CASE Stop
    BY <1>7 DEF Stop, Vanished, results, disk, Idle, Op
  <1>8. CASE Crash
    BY <1>8 DEF Crash, Fault, Vanished, results, disk, Idle, Op
  <1>9. CASE Restart
    BY <1>9 DEF Restart, Load, SweepDirectory, Fault, results, memoryVars,
           disk
  <1>10. CASE Tick
    BY <1>10 DEF Tick, results, fileVars, memoryVars, disk
  <1>11. CASE UNCHANGED vars
    BY <1>11 DEF vars, results, fileVars, memoryVars, disk
  <1> QED
    BY RemovalStep, PutBeginsAdds, FailedFallsBack,
       <1>1, <1>2, <1>3, <1>4, <1>5, <1>6, <1>7, <1>8, <1>9, <1>10, <1>11
    DEF Next, Continue

\* Nothing touches the result of a put that is not over.
LEMMA PutStep ==
  ASSUME IInv, [Next]_vars
  PROVE  PutSound'
  <1> USE DEF IInv, TypeOK, ClockType, IndexType, HeldType, OpType,
            DownIsEmpty, SinceIsPast, PutSound, IndexSound, Indexed, Ids,
            Backends
  <1> USE IdleTyped
  <1>1. CASE PutAdds
    BY <1>1 DEF PutAdds
  <1>2. CASE FallsBack
    BY <1>2 DEF FallsBack, results
  <1>3. CASE Renamed
    BY <1>3, RenamedOp DEF Renamed, results, memoryVars
  <1>4. CASE Saved
    BY <1>4, SavedOp DEF Saved, results, fileVars, memoryVars
  <1>5. CASE SweepBegins
    BY <1>5 DEF SweepBegins, results, fileVars, memoryVars, disk, Idle, Op
  <1>6. CASE RemovesDue
    BY <1>6 DEF RemovesDue, results
  <1>7. CASE Stop
    BY <1>7 DEF Stop, Vanished, results, disk, Idle, Op
  <1>8. CASE Crash
    BY <1>8 DEF Crash, Fault, Vanished, results, disk, Idle, Op
  <1>9. CASE Restart
    BY <1>9 DEF Restart, Load, SweepDirectory, Fault, results, memoryVars,
           disk
  <1>10. CASE Tick
    BY <1>10 DEF Tick, results, fileVars, memoryVars, disk
  <1>11. CASE UNCHANGED vars
    BY <1>11 DEF vars, results, fileVars, memoryVars, disk
  <1> QED
    BY RemovalStep, PutBeginsAdds, FailedFallsBack,
       <1>1, <1>2, <1>3, <1>4, <1>5, <1>6, <1>7, <1>8, <1>9, <1>10, <1>11
    DEF Next, Continue

\* Only the put of a result indexes it.
LEMMA IndexStep ==
  ASSUME IInv, [Next]_vars
  PROVE  IndexSound'
  <1> USE DEF IInv, TypeOK, ClockType, IndexType, HeldType, OpType,
            DownIsEmpty, SinceIsPast, PutSound, IndexSound, Indexed, Ids,
            Backends
  <1> USE IdleTyped
  <1>1. CASE PutAdds
    BY <1>1 DEF PutAdds
  <1>2. CASE FallsBack
    BY <1>2 DEF FallsBack, results
  <1>3. CASE Renamed
    BY <1>3, RenamedOp DEF Renamed, results, memoryVars
  <1>4. CASE Saved
    BY <1>4, SavedOp DEF Saved, results, fileVars, memoryVars
  <1>5. CASE SweepBegins
    BY <1>5 DEF SweepBegins, results, fileVars, memoryVars, disk, Idle, Op
  <1>6. CASE RemovesDue
    BY <1>6 DEF RemovesDue, results
  <1>7. CASE Stop
    BY <1>7 DEF Stop, Vanished, results, disk, Idle, Op
  <1>8. CASE Crash
    BY <1>8 DEF Crash, Fault, Vanished, results, disk, Idle, Op
  <1>9. CASE Restart
    BY <1>9 DEF Restart, Load, SweepDirectory, Fault, results, memoryVars,
           disk
  <1>10. CASE Tick
    BY <1>10 DEF Tick, results, fileVars, memoryVars, disk
  <1>11. CASE UNCHANGED vars
    BY <1>11 DEF vars, results, fileVars, memoryVars, disk
  <1> QED
    BY RemovalStep, PutBeginsAdds, FailedFallsBack,
       <1>1, <1>2, <1>3, <1>4, <1>5, <1>6, <1>7, <1>8, <1>9, <1>10, <1>11
    DEF Next, Continue

\* What is removed is due, and a manifest that is saved lists what is announced.
LEMMA AnnouncedStep ==
  ASSUME IInv, [Next]_vars
  PROVE  AnnouncedIsStored'
  <1> USE DEF IInv, TypeOK, ClockType, IndexType, HeldType, OpType,
            DownIsEmpty, SinceIsPast, PutSound, IndexSound, Indexed, Ids,
            Backends, AnnouncedIsStored, Due
  <1>1. CASE PutAdds
    BY <1>1 DEF PutAdds
  <1>2. CASE FallsBack
    BY <1>2 DEF FallsBack, results
  <1>3. CASE Renamed
    BY <1>3, RenamedOp DEF Renamed, results, memoryVars
  <1>4. CASE Saved
    BY <1>4, SavedOp DEF Saved, results, fileVars, memoryVars
  <1>5. CASE SweepBegins
    BY <1>5 DEF SweepBegins, results, fileVars, memoryVars, disk, Idle, Op
  <1>6. CASE RemovesDue
    BY <1>6 DEF RemovesDue, results
  <1>7. CASE Stop
    BY <1>7 DEF Stop, Vanished, results, disk, Idle, Op
  <1>8. CASE Crash
    BY <1>8 DEF Crash, Fault, Vanished, results, disk, Idle, Op
  <1>9. CASE Restart
    BY <1>9 DEF Restart, Load, SweepDirectory, Fault, results, memoryVars,
           disk
  <1>10. CASE Tick
    BY <1>10 DEF Tick, results, fileVars, memoryVars, disk
  <1>11. CASE UNCHANGED vars
    BY <1>11 DEF vars, results, fileVars, memoryVars, disk
  <1> QED
    BY RemovalStep, PutBeginsAdds, FailedFallsBack,
       <1>1, <1>2, <1>3, <1>4, <1>5, <1>6, <1>7, <1>8, <1>9, <1>10, <1>11
    DEF Next, Continue

\* What leaves the index is due.
LEMMA AvailableStep ==
  ASSUME IInv, [Next]_vars
  PROVE  IndexKept
  <1> USE DEF IInv, TypeOK, ClockType, IndexType, HeldType, OpType,
            DownIsEmpty, SinceIsPast, PutSound, IndexSound, Indexed, Ids,
            Backends, IndexKept
  <1>1. CASE PutAdds
    BY <1>1 DEF PutAdds
  <1>2. CASE FallsBack
    BY <1>2 DEF FallsBack, results
  <1>3. CASE Renamed
    BY <1>3, RenamedOp DEF Renamed, results, memoryVars
  <1>4. CASE Saved
    BY <1>4, SavedOp DEF Saved, results, fileVars, memoryVars
  <1>5. CASE SweepBegins
    BY <1>5 DEF SweepBegins, results, fileVars, memoryVars, disk, Idle, Op
  <1>6. CASE RemovesDue
    BY <1>6 DEF RemovesDue, results
  <1>7. CASE Stop
    BY <1>7 DEF Stop, Vanished, results, disk, Idle, Op
  <1>8. CASE Crash
    BY <1>8 DEF Crash, Fault, Vanished, results, disk, Idle, Op
  <1>9. CASE Restart
    BY <1>9 DEF Restart, Load, SweepDirectory, Fault, results, memoryVars,
           disk
  <1>10. CASE Tick
    BY <1>10 DEF Tick, results, fileVars, memoryVars, disk
  <1>11. CASE UNCHANGED vars
    BY <1>11 DEF vars, results, fileVars, memoryVars, disk
  <1> QED
    BY RemovalStep, PutBeginsAdds, FailedFallsBack,
       <1>1, <1>2, <1>3, <1>4, <1>5, <1>6, <1>7, <1>8, <1>9, <1>10, <1>11
    DEF Next, Continue

-----------------------------------------------------------------------------
(* The bytes that the stores hold.                                         *)

\* Bytes is a sum over a finite set of sizes.
LEMMA BytesAreSums ==
  \A S : Bytes(S) = SumOver(size, S)
  BY DEF Bytes, SumOver

\* After a step as before it.
LEMMA BytesPrimed ==
  /\ Bytes(meta)' = SumOver(size', meta')
  /\ Bytes(memory)' = SumOver(size', memory')
  /\ Bytes(manifest)' = SumOver(size', manifest')
  BY DEF Bytes, SumOver, MapThenSumSet, MapThenFoldSet

\* What the stores and the manifest hold are made results, finitely many.
LEMMA HeldFinite ==
  ASSUME TypeOK
  PROVE  /\ \A S \in SUBSET (1..made) :
              IsFiniteSet(S) /\ S \subseteq Ids
                /\ \A id \in S : id \in Ids /\ size[id] \in Nat /\ size[id] \in Int
         /\ meta \in SUBSET (1..made) /\ memory \in SUBSET (1..made)
         /\ manifest \in SUBSET (1..made)
  <1>0. \A x \in Sizes \cup {0} : x \in Nat
    BY StorageAssumption
  <1>1. made \in 0..MaxResults /\ MaxResults \in Nat
        /\ size \in [Ids -> Sizes \cup {0}]
    BY StorageAssumption DEF TypeOK, ClockType
  <1>2. IsFiniteSet(1..made)
    BY <1>1, FS_Interval
  <1>3. ASSUME NEW id \in 1..made
        PROVE  id \in Ids /\ size[id] \in Nat /\ size[id] \in Int
    <2>1. id \in Ids
      BY <1>1 DEF Ids
    <2>2. size[id] \in Sizes \cup {0}
      BY <1>1, <2>1
    <2>3. size[id] \in Nat
      BY <1>0, <2>2
    <2> QED
      BY <2>1, <2>3
  <1> QED
    BY <1>2, <1>3, FS_Subset DEF TypeOK, HeldType

\* The bytes of made results do not change when another one is made.
LEMMA BytesKept ==
  ASSUME TypeOK, NEW S \in SUBSET (1..made),
         \A id \in 1..made : size'[id] = size[id]
  PROVE  SumOver(size', S) = Bytes(S)
  <1>1. IsFiniteSet(S) /\ (\A id \in S : size[id] \in Int)
        /\ (\A id \in S : size[id] = size'[id])
    BY HeldFinite
  <1>2. SumOver(size, S) = SumOver(size', S)
    BY <1>1, SumSame
  <1> QED
    BY <1>2, BytesAreSums

\* MemoryStore.put counts what it takes in, within its budget.
LEMMA MemoryPutCounts ==
  ASSUME TypeOK, BytesAccounted, NEW id \in Ids, NEW s \in Nat,
         id \notin memory, MemoryPut(id, s),
         size'[id] = s, \A i \in 1..made : i # id => size'[i] = size[i]
  PROVE  (memoryTotal = Bytes(memory) /\ memoryTotal <= MaxMemory)'
  <1>1. /\ memory \in SUBSET (1..made) /\ IsFiniteSet(memory)
        /\ \A i \in memory : size[i] \in Nat /\ size[i] \in Int
                             /\ size'[i] = size[i]
    BY HeldFinite
  <1>2. SumOver(size, memory) = SumOver(size', memory)
    BY <1>1, SumSame
  <1>3. memoryTotal = SumOver(size', memory) /\ memoryTotal \in Int
    <2>1. SumOver(size, memory) \in Int
      BY <1>1, SumInteger
    <2> QED
      BY <1>2, <2>1, BytesAreSums DEF BytesAccounted
  <1>4. Bytes(memory)' = SumOver(size', memory')
    BY BytesPrimed
  <1>5. CASE UNCHANGED memoryVars
    BY <1>3, <1>4, <1>5 DEF memoryVars, BytesAccounted
  <1>6. CASE /\ ~(memoryTotal + s > MaxMemory)
             /\ memory' = memory \cup {id} /\ memoryTotal' = memoryTotal + s
    <2>1. SumOver(size', memory \cup {id}) = s + SumOver(size', memory)
      <3>1. \A i \in memory \cup {id} : size'[i] \in Int
        BY <1>1
      <3> QED
        BY <1>1, <3>1, SumAdd
    <2>2. MaxMemory \in Nat
      BY StorageAssumption
    <2> QED
      BY <1>3, <1>4, <1>6, <2>1, <2>2
  <1> QED
    BY <1>5, <1>6 DEF MemoryPut

\* Taking results out of the memory store takes their bytes off the total.
LEMMA MemoryRemovedCounts ==
  ASSUME TypeOK, BytesAccounted, NEW S, MemoryRemoved(S), size' = size
  PROVE  (memoryTotal = Bytes(memory) /\ memoryTotal <= MaxMemory)'
  <1> DEFINE gone == memory \cap S
  <1>1. /\ memory \in SUBSET (1..made) /\ IsFiniteSet(memory)
        /\ gone \in SUBSET memory /\ memory' = memory \ gone
        /\ \A i \in memory : size[i] \in Nat /\ size[i] \in Int
    BY HeldFinite DEF MemoryRemoved
  <1>2. SumOver(size, memory \ gone)
          = SumOver(size, memory) - SumOver(size, gone)
    BY <1>1, SumRest
  <1>3. SumOver(size, memory \ gone) <= SumOver(size, memory)
    BY <1>1, SumSubset
  <1>4. Bytes(memory)' = SumOver(size, memory \ gone)
    BY <1>1, BytesPrimed
  <1>5. memoryTotal' = memoryTotal - SumOver(size, gone)
    BY BytesAreSums DEF MemoryRemoved
  <1>6. memoryTotal = SumOver(size, memory) /\ memoryTotal <= MaxMemory
    BY BytesAreSums DEF BytesAccounted
  <1>7. SumOver(size, memory) \in Int /\ SumOver(size, memory \ gone) \in Int
        /\ MaxMemory \in Int
    <2>1. IsFiniteSet(memory \ gone)
      BY <1>1, FS_Subset
    <2>2. SumOver(size, memory) \in Int
      BY <1>1, SumInteger
    <2>3. SumOver(size, memory \ gone) \in Int
      BY <1>1, <2>1, SumInteger
    <2> QED
      BY <2>2, <2>3, StorageAssumption
  <1> HIDE DEF gone
  <1> QED
    BY <1>2, <1>3, <1>4, <1>5, <1>6, <1>7

\* Taking a result out of the FileStore takes its bytes off the total, which
\* is never less than they are.
LEMMA FileRemovedCounts ==
  ASSUME TypeOK, BytesAccounted, NEW id \in meta, NEW caller, NEW since,
         FileRemoved(id, caller, since), size' = size
  PROVE  (fileTotal = Bytes(meta) /\ fileTotal <= MaxBytes)'
  <1>1. /\ IsFiniteSet(meta) /\ meta' = meta \ {id}
        /\ \A i \in meta : size[i] \in Nat /\ size[i] \in Int
    BY HeldFinite DEF FileRemoved
  <1>2. SumOver(size, meta) = size[id] + SumOver(size, meta \ {id})
    BY <1>1, SumRemove
  <1>3. SumOver(size, meta \ {id}) \in Nat
    BY <1>1, SumSubset
  <1>4. Bytes(meta)' = SumOver(size, meta \ {id})
    BY <1>1, BytesPrimed
  <1>5. fileTotal = SumOver(size, meta) /\ fileTotal <= MaxBytes
    BY BytesAreSums DEF BytesAccounted
  <1>6. fileTotal' = fileTotal - size[id]
    BY <1>1, <1>2, <1>3, <1>5 DEF FileRemoved
  <1> QED
    BY <1>1, <1>2, <1>3, <1>4, <1>5, <1>6, StorageAssumption

\* A step that leaves the totals, the sizes and what they are of alone.
LEMMA BytesUntouched ==
  ASSUME BytesSound, UNCHANGED <<size, fileVars, memoryVars, manifest>>,
         op' = op \/ (op'.at # "WRITE" /\ ~(op'.at = "SAVE" /\ op'.caller = "put"))
  PROVE  BytesSound'
  <1>1. /\ Bytes(meta)' = Bytes(meta) /\ Bytes(memory)' = Bytes(memory)
        /\ Bytes(manifest)' = Bytes(manifest)
    BY BytesPrimed, BytesAreSums DEF fileVars, memoryVars
  <1> QED
    BY <1>1 DEF BytesSound, BytesAccounted, fileVars, memoryVars

\* A read or a step of a sweep takes away what it counts.
LEMMA RemovalCounts ==
  ASSUME IInv, BytesSound,
         (\E id \in Ids : Read(id)) \/ Get \/ SweepIndex \/ SweepStores
  PROVE  BytesSound'
  <1>1. RemovesDue
    BY RemovalStep
  <1>2. /\ op'.at # "WRITE" /\ ~(op'.at = "SAVE" /\ op'.caller = "put")
        /\ size' = size /\ manifest' = manifest
    BY <1>1 DEF RemovesDue, results
  <1>3. TypeOK /\ BytesAccounted
    BY DEF IInv, BytesSound
  <1>4. Bytes(manifest)' <= MaxBytes
    BY <1>2, BytesPrimed, BytesAreSums DEF BytesSound
  <1>5. ASSUME UNCHANGED memoryVars
        PROVE  (memoryTotal = Bytes(memory) /\ memoryTotal <= MaxMemory)'
    BY <1>2, <1>3, <1>5, BytesPrimed, BytesAreSums
    DEF memoryVars, BytesAccounted
  <1>6. ASSUME UNCHANGED fileVars
        PROVE  (fileTotal = Bytes(meta) /\ fileTotal <= MaxBytes)'
    BY <1>2, <1>3, <1>6, BytesPrimed, BytesAreSums
    DEF fileVars, BytesAccounted
  <1>7. ASSUME UNCHANGED fileVars, UNCHANGED memoryVars
        PROVE  BytesSound'
    BY <1>2, <1>7, BytesUntouched
  <1>8. ASSUME UNCHANGED memoryVars,
               NEW id \in meta, NEW caller, NEW since,
               FileRemoved(id, caller, since)
        PROVE  BytesSound'
    <2>1. (fileTotal = Bytes(meta) /\ fileTotal <= MaxBytes)'
      BY <1>2, <1>3, <1>8, FileRemovedCounts
    <2> QED
      BY <1>2, <1>4, <1>5, <1>8, <2>1 DEF BytesSound, BytesAccounted
  <1>9. ASSUME UNCHANGED fileVars, NEW S, MemoryRemoved(S)
        PROVE  BytesSound'
    <2>1. (memoryTotal = Bytes(memory) /\ memoryTotal <= MaxMemory)'
      BY <1>2, <1>3, <1>9, MemoryRemovedCounts
    <2> QED
      BY <1>2, <1>4, <1>6, <1>9, <2>1 DEF BytesSound, BytesAccounted
  <1>10. ASSUME NEW id \in Ids, Read(id)
         PROVE  BytesSound'
    BY <1>7, <1>10 DEF Read
  <1>11. CASE Get
    BY <1>7, <1>8, <1>9, <1>11 DEF Get
  <1>12. CASE SweepIndex
    BY <1>7, <1>8, <1>9, <1>12 DEF SweepIndex
  <1>13. CASE SweepStores
    BY <1>7, <1>8, <1>9, <1>13 DEF SweepStores
  <1> QED
    BY <1>10, <1>11, <1>12, <1>13

\* A put counts its result where it goes, if there is room for it.
LEMMA PutCounts ==
  ASSUME IInv, BytesSound, NEW s \in Sizes, PutBegins(s)
  PROVE  BytesSound'
  <1>1. /\ NewId \in Ids /\ NewId \notin 1..made /\ s \in Nat
        /\ size' = [size EXCEPT ![NewId] = s]
        /\ meta' = meta /\ fileTotal' = fileTotal /\ manifest' = manifest
    BY NewIdFresh, StorageAssumption
    DEF PutBegins, fileVars, IInv, TypeOK, ClockType
  <1>2. TypeOK /\ BytesAccounted
    BY DEF IInv, BytesSound
  <1>3. size'[NewId] = s /\ \A i \in 1..made : size'[i] = size[i]
    BY <1>1, <1>2, HeldFinite DEF TypeOK, ClockType
  <1>4. /\ meta \in SUBSET (1..made) /\ memory \in SUBSET (1..made)
        /\ manifest \in SUBSET (1..made) /\ NewId \notin meta \cup memory
    BY <1>1, <1>2, HeldFinite
  <1>5. (fileTotal = Bytes(meta) /\ fileTotal <= MaxBytes)'
        /\ Bytes(manifest)' <= MaxBytes
    BY <1>1, <1>2, <1>3, <1>4, BytesPrimed, BytesKept
    DEF BytesSound, BytesAccounted
  <1>6. CASE /\ fileTotal + s <= MaxBytes
             /\ op' = Op("WRITE", "put", NewId, 0)
             /\ UNCHANGED memoryVars
    <2>1. (memoryTotal = Bytes(memory) /\ memoryTotal <= MaxMemory)'
      BY <1>2, <1>3, <1>4, <1>6, BytesPrimed, BytesKept
      DEF memoryVars, BytesAccounted
    <2>2. op'.at = "WRITE" /\ op'.id = NewId
      BY <1>6 DEF Op
    <2>3. op'.id \notin meta' \cup memory' /\ fileTotal' + size'[op'.id] <= MaxBytes
      BY <1>1, <1>3, <1>4, <1>6, <2>2 DEF memoryVars
    <2> QED
      BY <1>5, <2>1, <2>2, <2>3 DEF BytesSound, BytesAccounted
  <1>7. CASE MemoryPut(NewId, s) /\ UNCHANGED op
    <2>1. (memoryTotal = Bytes(memory) /\ memoryTotal <= MaxMemory)'
      BY <1>1, <1>2, <1>3, <1>4, <1>7, MemoryPutCounts
    <2>2. op'.at = "IDLE"
      BY <1>7, IdleTyped DEF PutBegins
    <2> QED
      BY <1>5, <2>1, <2>2 DEF BytesSound, BytesAccounted
  <1> QED
    BY <1>6, <1>7 DEF PutBegins

\* A put that falls back was not in memory yet; the FileStore still has it after
\* the rename, and counts it.
LEMMA FallbackCounts ==
  ASSUME IInv, BytesSound, WriteFails \/ SaveFails
  PROVE  BytesSound'
  <1>1. /\ op' = Idle /\ size' = size /\ manifest' = manifest
        /\ UNCHANGED fileVars
    BY DEF WriteFails, SaveFails, results, fileVars, disk
  <1>2. op'.at = "IDLE"
    BY <1>1, IdleTyped
  <1>3. TypeOK /\ BytesAccounted
    BY DEF IInv, BytesSound
  <1>4. CASE UNCHANGED memoryVars
    BY <1>1, <1>2, <1>4, BytesUntouched
  <1>5. CASE /\ op.at = "WRITE" \/ (op.at = "SAVE" /\ op.caller = "put")
             /\ MemoryPut(op.id, size[op.id])
    <2>1. op.id \in 1..made /\ op.id \notin memory
      BY <1>5 DEF IInv, PutSound, BytesSound
    <2>2. op.id \in Ids /\ size[op.id] \in Nat
      <3>1. 1..made \in SUBSET (1..made)
        OBVIOUS
      <3> QED
        BY <1>3, <2>1, <3>1, HeldFinite
    <2>3. (memoryTotal = Bytes(memory) /\ memoryTotal <= MaxMemory)'
      BY <1>1, <1>3, <1>5, <2>1, <2>2, MemoryPutCounts
    <2>4. (fileTotal = Bytes(meta) /\ fileTotal <= MaxBytes)'
          /\ Bytes(manifest)' <= MaxBytes
      BY <1>1, <1>3, BytesPrimed, BytesAreSums
      DEF fileVars, BytesSound, BytesAccounted
    <2> QED
      BY <1>2, <2>3, <2>4 DEF BytesSound, BytesAccounted
  <1> QED
    BY <1>4, <1>5 DEF WriteFails, SaveFails

\* The rename counts the bytes that were checked when the put began.
LEMMA RenameCounts ==
  ASSUME IInv, BytesSound, Renamed
  PROVE  BytesSound'
  <1>1. /\ op.at = "WRITE" /\ size' = size /\ manifest' = manifest
        /\ meta' = meta \cup {op.id} /\ fileTotal' = fileTotal + size[op.id]
        /\ UNCHANGED memoryVars
    BY DEF Renamed, results
  <1>2. TypeOK /\ BytesAccounted
    BY DEF IInv, BytesSound
  <1>3. op.id \notin meta \cup memory /\ fileTotal + size[op.id] <= MaxBytes
    BY <1>1 DEF BytesSound
  <1>4. op'.at = "SAVE" /\ op'.id = op.id
    BY <1>2, RenamedOp DEF TypeOK
  <1>5. IsFiniteSet(meta) /\ \A i \in meta \cup {op.id} : size[i] \in Int
    <2>1. op.id \in 1..made /\ 1..made \in SUBSET (1..made)
      BY <1>1 DEF IInv, PutSound
    <2> QED
      BY <1>2, <2>1, HeldFinite
  <1>6. SumOver(size, meta \cup {op.id}) = size[op.id] + SumOver(size, meta)
    BY <1>3, <1>5, SumAdd
  <1>7. (fileTotal = Bytes(meta) /\ fileTotal <= MaxBytes)'
    <2>1. SumOver(size, meta) \in Int /\ size[op.id] \in Int
      BY <1>5, SumInteger
    <2>2. fileTotal = SumOver(size, meta)
      BY <1>2, BytesAreSums DEF BytesAccounted
    <2>3. Bytes(meta)' = SumOver(size, meta \cup {op.id})
      BY <1>1, BytesPrimed
    <2> QED
      BY <1>1, <1>3, <1>6, <2>1, <2>2, <2>3
  <1>8. (memoryTotal = Bytes(memory) /\ memoryTotal <= MaxMemory)'
        /\ Bytes(manifest)' <= MaxBytes
    BY <1>1, <1>2, BytesPrimed, BytesAreSums
    DEF memoryVars, BytesSound, BytesAccounted
  <1>9. op'.id \notin memory'
    BY <1>1, <1>3, <1>4 DEF memoryVars
  <1> QED
    BY <1>4, <1>7, <1>8, <1>9 DEF BytesSound, BytesAccounted

\* A restart counts what the manifest lists, and a dead process nothing.
LEMMA ProcessCounts ==
  ASSUME IInv, BytesSound, Stop \/ Crash \/ Restart
  PROVE  BytesSound'
  <1>1. /\ op' = Idle
        /\ size' = size /\ manifest' = manifest
    BY DEF Stop, Crash, Vanished, Restart, Load, SweepDirectory, results, disk,
           IInv, DownIsEmpty
  <1>2. op'.at = "IDLE"
    BY <1>1, IdleTyped
  <1>3. Bytes(manifest)' <= MaxBytes /\ Bytes(manifest) <= MaxBytes
    BY <1>1, BytesPrimed, BytesAreSums DEF BytesSound
  <1>4. /\ MaxBytes \in Nat /\ MaxMemory \in Nat
        /\ SumOver(size, {}) = 0
    BY StorageAssumption, SumEmpty
  <1>5. (fileTotal = Bytes(meta) /\ fileTotal <= MaxBytes)'
    <2>1. CASE meta' = {} /\ fileTotal' = 0
      BY <1>1, <1>4, <2>1, BytesPrimed
    <2>2. CASE meta' = manifest /\ fileTotal' = Bytes(manifest)
      BY <1>1, <1>3, <2>2, BytesPrimed, BytesAreSums
    <2>3. CASE meta' \in LoadedPart \cup {{}} /\ fileTotal' = Bytes(meta')
      <3>1. meta' \in SUBSET manifest
        BY <2>3, LoadedFromManifest
      <3>2. /\ IsFiniteSet(manifest)
            /\ \A id \in manifest : size[id] \in Nat
        BY HeldFinite DEF IInv
      <3>3. /\ SumOver(size, meta') <= SumOver(size, manifest)
            /\ SumOver(size, meta') \in Nat /\ SumOver(size, manifest) \in Nat
        BY <3>1, <3>2, SumSubset
      <3>4. SumOver(size, manifest) <= MaxBytes
        BY <1>3, BytesAreSums
      <3>5. fileTotal' = SumOver(size, meta')
        BY <2>3, BytesAreSums
      <3>6. fileTotal' <= MaxBytes
        BY <1>4, <3>3, <3>4, <3>5
      <3>7. Bytes(meta)' = SumOver(size, meta')
        BY <1>1, BytesPrimed
      <3> QED
        BY <3>5, <3>6, <3>7
    <2> QED
      BY <2>1, <2>2, <2>3
      DEF Stop, Crash, Vanished, Restart, Load, SweepDirectory
  <1>6. (memoryTotal = Bytes(memory) /\ memoryTotal <= MaxMemory)'
    <2>1. CASE memory' = {} /\ memoryTotal' = 0
      BY <1>1, <1>4, <2>1, BytesPrimed
    <2>2. CASE UNCHANGED memoryVars
      BY <1>1, <2>2, BytesPrimed, BytesAreSums
      DEF memoryVars, BytesSound, BytesAccounted
    <2> QED
      BY <2>1, <2>2 DEF Stop, Crash, Vanished, Restart
  <1> QED
    BY <1>2, <1>3, <1>5, <1>6 DEF BytesSound, BytesAccounted

\* Every step keeps the accounts.
LEMMA BytesStep ==
  ASSUME IInv, BytesSound, [Next]_vars
  PROVE  BytesSound'
  <1>1. CASE Saved
    <2>1. /\ size' = size /\ UNCHANGED <<fileVars, memoryVars>>
          /\ manifest' = meta
      BY <1>1 DEF Saved, results
    <2>2. op'.at \notin {"WRITE", "SAVE"}
      BY <1>1, SavedOp DEF IInv, TypeOK, IndexSound
    <2>3. Bytes(meta) <= MaxBytes
      BY DEF BytesSound, BytesAccounted
    <2> QED
      BY <2>1, <2>2, <2>3, BytesPrimed, BytesAreSums
      DEF BytesSound, BytesAccounted, fileVars, memoryVars
  <1>2. CASE SweepBegins
    <2>1. op'.at = "SWEEP_INDEX"
      BY <1>2 DEF SweepBegins, Op
    <2> QED
      BY <1>2, <2>1, BytesUntouched DEF SweepBegins, results, disk
  <1>3. CASE Tick \/ UNCHANGED vars
    BY <1>3, BytesUntouched DEF Tick, vars, results, disk
  <1> QED
    BY <1>1, <1>2, <1>3, PutCounts, FallbackCounts, RenameCounts,
       RemovalCounts, ProcessCounts
    DEF Next, Continue

-----------------------------------------------------------------------------
(* The theorems.                                                           *)

\* The first process begins with an empty directory.
LEMMA InitIInv == Init => IInv
  <1> SUFFICES ASSUME Init PROVE IInv
    OBVIOUS
  <1>1. ClockType
    <2>1. /\ time \in 0..MaxTime /\ made \in 0..MaxResults
          /\ faults \in 0..MaxFaults
      BY StorageAssumption DEF Init
    <2>2. 0 \in 0..(MaxTime + Ttl)
      BY StorageAssumption
    <2> QED
      BY <2>1, <2>2 DEF Init, ClockType
  <1>2. IndexType /\ HeldType
    BY DEF Init, IndexType, HeldType, Backends
  <1>3. OpType
    BY IdleTyped DEF Init, OpType
  <1>4. Indexed = {}
    BY DEF Init, Indexed
  <1>5. DownIsEmpty /\ PutSound /\ IndexSound /\ AnnouncedIsStored
    BY <1>4, IdleTyped
    DEF Init, DownIsEmpty, PutSound, IndexSound, AnnouncedIsStored
  <1>6. SinceIsPast
    BY IdleTyped DEF Init, SinceIsPast
  <1> QED
    BY <1>1, <1>2, <1>3, <1>5, <1>6 DEF IInv, TypeOK

\* Every step keeps every part of the invariant.
LEMMA StepIInv == IInv /\ [Next]_vars => IInv'
  <1> SUFFICES ASSUME IInv, [Next]_vars PROVE IInv'
    OBVIOUS
  <1>1. TypeOK'
    BY ClockStep, IndexTypeStep, HeldStep, OpStep DEF TypeOK
  <1>2. DownIsEmpty' /\ SinceIsPast' /\ PutSound' /\ IndexSound'
    BY DownStep, SinceStep, PutStep, IndexStep
  <1>3. AnnouncedIsStored'
    BY AnnouncedStep
  <1> QED
    BY <1>1, <1>2, <1>3 DEF IInv

\* The invariant holds in every state that the store can reach.
THEOREM IInvHolds == Spec => []IInv
  BY InitIInv, StepIInv, PTL DEF Spec

\* Type correctness of the stores, the directory and the call in progress.
THEOREM StorageTyped == Spec => []TypeOK
  <1>1. IInv => TypeOK
    BY DEF IInv
  <1> QED
    BY <1>1, IInvHolds, PTL

\* A result that was announced and has not expired is where the index says,
\* and, in a file, in the manifest of a restart: whatever crashes, whichever
\* file operations fail and however many results there are.
THEOREM AnnouncedStaysStored == Spec => []AnnouncedIsStored
  <1>1. IInv => AnnouncedIsStored
    BY DEF IInv
  <1> QED
    BY <1>1, IInvHolds, PTL

\* Nothing but its expiry or the end of the process takes an announced result
\* out of the index.
THEOREM ResultsStayAvailable == Spec => AvailableUntilExpiry
  <1>1. IInv /\ [Next]_vars =>
          [\A id \in Indexed : ~Due(id, time) =>
             \/ index'[id] = index[id]
             \/ ~up']_vars
    BY AvailableStep DEF IndexKept
  <1> QED
    BY <1>1, IInvHolds, PTL DEF Spec, AvailableUntilExpiry

\* Both stores count exactly the bytes they hold and keep to their budgets,
\* whatever the sizes and budgets, through crashes, failed writes and restarts.
THEOREM BytesAreAccounted == Spec => []BytesAccounted
  <1>1. Init => BytesSound
    <2> SUFFICES ASSUME Init PROVE BytesSound
      OBVIOUS
    <2>1. Bytes({}) = 0
      BY SumEmpty, BytesAreSums
    <2> QED
      BY <2>1, IdleTyped, StorageAssumption
      DEF Init, BytesSound, BytesAccounted
  <1>2. IInv /\ BytesSound /\ [Next]_vars => BytesSound'
    BY BytesStep
  <1>3. BytesSound => BytesAccounted
    BY DEF BytesSound
  <1> QED
    BY <1>1, <1>2, <1>3, IInvHolds, PTL DEF Spec
=============================================================================

---------------------------- MODULE ResultStorage ----------------------------
(***************************************************************************)
(* Stored results: ResultStore with its index, its FileStore and its       *)
(* MemoryStore, the periodic sweep, and the directory that outlives the    *)
(* process.                                                                *)
(*                                                                         *)
(* The stores are called from the event loop only, one call at a time.     *)
(* What cuts a call in two is the disk: a call that changes the FileStore  *)
(* touches first the file, then the manifest, and the process may die, or  *)
(* the disk refuse, between the two.  Who may read a result (its principal *)
(* or an admin) is decided without a change of state and left out.         *)
(***************************************************************************)
EXTENDS Naturals, FiniteSets, FiniteSetsExt

CONSTANTS
  MaxBytes,    (* storage.maximum_total_bytes                              *)
  MaxMemory,   (* MEMORY_STORE_CAP_BYTES                                   *)
  Ttl,         (* result_ttl_seconds                                       *)
  Sizes,       (* sizes of results, in bytes and in lines                  *)
  MaxResults,  (* bound of the model: results ever produced                *)
  MaxTime,     (* bound of the model: the clock                            *)
  MaxFaults    (* bound of the model: crashes and failed file operations   *)

ASSUME StorageAssumption ==
  /\ MaxBytes \in Nat /\ MaxMemory \in Nat /\ Ttl \in Nat \ {0}
  /\ Sizes \subseteq Nat
  /\ MaxResults \in Nat /\ MaxTime \in Nat /\ MaxFaults \in Nat

VARIABLES
  time,        (* utc_now()                                                *)
  made,        (* result ids handed out: 1..made                           *)
  size,        (* byte_count of a result                                   *)
  expires,     (* expires_at of a result                                   *)
  up,          (* the process runs                                         *)
  index,       (* ResultStore._index: the backend of an indexed result     *)
  meta,        (* FileStore._meta                                          *)
  fileTotal,   (* FileStore._total_bytes                                   *)
  memory,      (* MemoryStore._blobs and _meta                             *)
  memoryTotal, (* MemoryStore._total_bytes                                 *)
  op,          (* the call in progress and where it is                     *)
  files,       (* the artifact files in the directory                      *)
  temps,       (* the temporary files of artifacts in it                   *)
  hasManifest, (* manifest.json exists                                     *)
  manifest,    (* the results it lists                                     *)
  faults       (* history: crashes and failed file operations              *)

results == <<made, size, expires>>
fileVars == <<meta, fileTotal>>
memoryVars == <<memory, memoryTotal>>
disk == <<files, temps, hasManifest, manifest>>
vars == <<time, results, up, index, fileVars, memoryVars, op, disk, faults>>

-----------------------------------------------------------------------------
Ids == 1..MaxResults
Backends == {"none", "file", "memory"}
Stages == {"IDLE", "WRITE", "SAVE", "GET", "SWEEP_INDEX", "SWEEP_FILES"}
Callers == {"none", "put", "read", "SWEEP_INDEX", "SWEEP_FILES"}

\* since is the now that the sweep took when it began.
Op(at, caller, id, since) ==
  [at |-> at, caller |-> caller, id |-> id, since |-> since]
Idle == Op("IDLE", "none", 0, 0)

Due(id, now) == now >= expires[id]
Bytes(S) == MapThenSumSet(LAMBDA id : size[id], S)
Indexed == {id \in Ids : index[id] # "none"}

Init ==
  /\ time = 0 /\ made = 0 /\ faults = 0
  /\ size = [id \in Ids |-> 0] /\ expires = [id \in Ids |-> 0]
  /\ up = TRUE
  /\ index = [id \in Ids |-> "none"]
  /\ meta = {} /\ fileTotal = 0 /\ memory = {} /\ memoryTotal = 0
  /\ op = Idle
  /\ files = {} /\ temps = {} /\ hasManifest = FALSE /\ manifest = {}

Fault ==
  /\ faults < MaxFaults
  /\ faults' = faults + 1

-----------------------------------------------------------------------------
(* storing *)

\* MemoryStore.put, and RESPONSE_TOO_LARGE when that is full as well.
MemoryPut(id, s) ==
  IF memoryTotal + s > MaxMemory
  THEN UNCHANGED <<memoryVars, index>>
  ELSE /\ memory' = memory \cup {id}
       /\ memoryTotal' = memoryTotal + s
       /\ index' = [index EXCEPT ![id] = "memory"]

\* A fresh result id.
NewId == made + 1

\* ResultStore.put up to the temporary file, when the file budget allows.
PutBegins(s) ==
  LET id == NewId
      fits == fileTotal + s <= MaxBytes
  IN
  /\ up /\ op = Idle /\ made < MaxResults
  /\ made' = made + 1
  /\ size' = [size EXCEPT ![id] = s]
  /\ expires' = [expires EXCEPT ![id] = time + Ttl]
  /\ \/ /\ fits
        /\ temps' = temps \cup {id}
        /\ op' = Op("WRITE", "put", id, 0)
        /\ UNCHANGED <<memoryVars, index>>
     \/ /\ ~fits
        /\ MemoryPut(id, s)
        /\ UNCHANGED <<temps, op>>
  /\ UNCHANGED <<time, up, fileVars, files, hasManifest, manifest, faults>>

\* An OSError before the rename; the removal of the temporary file may fail.
WriteFails ==
  /\ op.at = "WRITE"
  /\ Fault
  /\ temps' \in {temps, temps \ {op.id}}
  /\ MemoryPut(op.id, size[op.id])
  /\ op' = Idle
  /\ UNCHANGED <<time, results, up, fileVars, files, hasManifest, manifest>>

\* os.replace, then the entry and the bytes; the manifest comes next.
Renamed ==
  /\ op.at = "WRITE"
  /\ temps' = temps \ {op.id}
  /\ files' = files \cup {op.id}
  /\ meta' = meta \cup {op.id}
  /\ fileTotal' = fileTotal + size[op.id]
  /\ op' = [op EXCEPT !.at = "SAVE"]
  /\ UNCHANGED <<time, results, up, index, memoryVars, hasManifest, manifest,
                 faults>>

\* Mutant: the result is announced although the manifest is the old one.
SavedLater ==
  /\ op.at = "SAVE"
  /\ IF op.caller = "put"
     THEN /\ index' = [index EXCEPT ![op.id] = "file"]
          /\ UNCHANGED <<hasManifest, manifest>>
     ELSE /\ hasManifest' = TRUE /\ manifest' = meta
          /\ UNCHANGED index
  /\ op' = IF op.caller \in {"put", "read"} THEN Idle
           ELSE [op EXCEPT !.at = op.caller]
  /\ UNCHANGED <<time, results, up, fileVars, memoryVars, files, temps, faults>>
\* _save_manifest, and the return to its caller.
Saved ==
  /\ op.at = "SAVE"
  /\ hasManifest' = TRUE /\ manifest' = meta
  /\ index' = IF op.caller = "put"
              THEN [index EXCEPT ![op.id] = "file"] ELSE index
  /\ op' = IF op.caller \in {"put", "read"} THEN Idle
           ELSE [op EXCEPT !.at = op.caller]
  /\ UNCHANGED <<time, results, up, fileVars, memoryVars, files, temps, faults>>

\* An OSError of _save_manifest: a put falls back to memory, although the
\* FileStore keeps its entry; a read or a sweep ends with the exception.
SaveFails ==
  /\ op.at = "SAVE"
  /\ Fault
  /\ IF op.caller = "put" THEN MemoryPut(op.id, size[op.id])
     ELSE UNCHANGED <<memoryVars, index>>
  /\ op' = Idle
  /\ UNCHANGED <<time, results, up, fileVars, disk>>

-----------------------------------------------------------------------------
(* removing *)

\* FileStore._remove_locked of a known result: a failed unlink is logged.
FileRemoved(id, caller, since) ==
  /\ meta' = meta \ {id}
  /\ fileTotal' = IF fileTotal >= size[id] THEN fileTotal - size[id] ELSE 0
  /\ \/ files' = files \ {id} /\ UNCHANGED faults
     \/ Fault /\ UNCHANGED files
  /\ op' = Op("SAVE", caller, id, since)

\* MemoryStore._remove_locked of some results.
MemoryRemoved(S) ==
  /\ memory' = memory \ S
  /\ memoryTotal' = memoryTotal - Bytes(memory \cap S)

\* _owned: an expired result leaves the index only; else the store is asked.
Read(id) ==
  /\ up /\ op = Idle /\ id \in Indexed
  /\ \/ /\ Due(id, time)
        /\ index' = [index EXCEPT ![id] = "none"]
        /\ UNCHANGED op
     \/ /\ ~Due(id, time)
        /\ op' = Op("GET", "read", id, 0)
        /\ UNCHANGED index
  /\ UNCHANGED <<time, results, up, fileVars, memoryVars, disk, faults>>

\* FileStore.get or MemoryStore.get, with a clock reading of its own.
Get ==
  /\ op.at = "GET"
  /\ \/ /\ index[op.id] = "file" /\ op.id \in meta /\ Due(op.id, time)
        /\ FileRemoved(op.id, "read", 0)
        /\ UNCHANGED memoryVars
     \/ /\ index[op.id] = "memory" /\ Due(op.id, time)
        /\ MemoryRemoved({op.id})
        /\ op' = Idle
        /\ UNCHANGED <<fileVars, files, faults>>
     \/ /\ ~Due(op.id, time) \/ (index[op.id] = "file" /\ op.id \notin meta)
        /\ op' = Idle
        /\ UNCHANGED <<fileVars, memoryVars, files, faults>>
  /\ UNCHANGED <<time, results, up, index, temps, hasManifest, manifest>>

-----------------------------------------------------------------------------
(* the sweep: the first job of Gateway._sweep_once *)

\* Mutant: what expires before the next sweep is taken now.
SweepBeginsAhead ==
  /\ up /\ op = Idle
  /\ op' = Op("SWEEP_INDEX", "none", 0, time + Ttl)
  /\ UNCHANGED <<time, results, up, index, fileVars, memoryVars, disk, faults>>
SweepBegins ==
  /\ up /\ op = Idle
  /\ op' = Op("SWEEP_INDEX", "none", 0, time)
  /\ UNCHANGED <<time, results, up, index, fileVars, memoryVars, disk, faults>>

\* The loop over the index.
SweepIndex ==
  LET due == {id \in Indexed : Due(id, op.since)}
  IN
  /\ op.at = "SWEEP_INDEX"
  /\ \/ \E id \in due :
          /\ index' = [index EXCEPT ![id] = "none"]
          /\ \/ /\ index[id] = "file" /\ id \in meta
                /\ FileRemoved(id, "SWEEP_INDEX", op.since)
                /\ UNCHANGED memoryVars
             \/ /\ index[id] = "file" /\ id \notin meta
                /\ UNCHANGED <<fileVars, memoryVars, files, faults, op>>
             \/ /\ index[id] = "memory"
                /\ MemoryRemoved({id})
                /\ UNCHANGED <<fileVars, files, faults, op>>
     \/ /\ due = {}
        /\ op' = [op EXCEPT !.at = "SWEEP_FILES"]
        /\ UNCHANGED <<index, fileVars, memoryVars, files, faults>>
  /\ UNCHANGED <<time, results, up, temps, hasManifest, manifest>>

\* Mutant: what the index does not know is never swept.
SweepStoresNever ==
  /\ op.at = "SWEEP_FILES"
  /\ op' = Idle
  /\ UNCHANGED <<time, results, up, index, fileVars, memoryVars, disk, faults>>
\* The sweeps of the two stores find what the index does not know.
SweepStores ==
  LET due == {id \in meta : Due(id, op.since)}
  IN
  /\ op.at = "SWEEP_FILES"
  /\ \/ /\ \E id \in due : FileRemoved(id, "SWEEP_FILES", op.since)
        /\ UNCHANGED memoryVars
     \/ /\ due = {}
        /\ MemoryRemoved({id \in memory : Due(id, op.since)})
        /\ op' = Idle
        /\ UNCHANGED <<fileVars, files, faults>>
  /\ UNCHANGED <<time, results, up, index, temps, hasManifest, manifest>>

-----------------------------------------------------------------------------
(* the process and the clock *)

Vanished ==
  /\ up' = FALSE
  /\ index' = [id \in Ids |-> "none"]
  /\ meta' = {} /\ fileTotal' = 0 /\ memory' = {} /\ memoryTotal' = 0
  /\ op' = Idle
  /\ UNCHANGED <<time, results, disk>>

\* The process is stopped between two calls.
Stop == up /\ op = Idle /\ Vanished /\ UNCHANGED faults

\* The process dies in the middle of one.
Crash == up /\ op # Idle /\ Fault /\ Vanished

\* Mutant: the loaded entries are not counted.
LoadUncounted ==
  /\ hasManifest
  /\ meta' = manifest /\ fileTotal' = 0
  /\ UNCHANGED <<disk, faults>>
\* _load_or_sweep: a manifest that can be read is authoritative.
Load ==
  /\ hasManifest
  /\ meta' = manifest /\ fileTotal' = Bytes(manifest)
  /\ UNCHANGED <<disk, faults>>

\* What is in the table when the manifest turns out to be unreadable: nothing,
\* or the entries before the bad one.
LoadedPart == {{}} \cup {{id \in manifest : id < bad} : bad \in manifest}

\* No manifest, or none that can be read: every other file is deleted that can
\* be, and what was loaded stays loaded.
SweepDirectory ==
  /\ meta' \in IF hasManifest THEN LoadedPart ELSE {{}}
  /\ fileTotal' = Bytes(meta')
  /\ files' \in SUBSET files /\ temps' \in SUBSET temps
  /\ IF hasManifest \/ files' # {} \/ temps' # {}
     THEN Fault ELSE UNCHANGED faults
  /\ UNCHANGED <<hasManifest, manifest>>

Restart ==
  /\ ~up
  /\ up' = TRUE
  /\ Load \/ SweepDirectory
  /\ UNCHANGED <<time, results, index, memoryVars, op>>

Tick ==
  /\ time < MaxTime
  /\ time' = time + 1
  /\ UNCHANGED <<results, up, index, fileVars, memoryVars, op, disk, faults>>

Continue ==
  \/ WriteFails \/ Renamed \/ Saved \/ SaveFails \/ Get
  \/ SweepIndex \/ SweepStores

Next ==
  \/ \E s \in Sizes : PutBegins(s)
  \/ \E id \in Ids : Read(id)
  \/ SweepBegins
  \/ Continue
  \/ Stop \/ Crash \/ Restart
  \/ Tick

Spec == Init /\ [][Next]_vars

\* A call runs to its end, and the sweep comes round: the event loop serves
\* its timers in turn, however many reads there are.
Fairness == WF_vars(Continue) /\ SF_vars(SweepBegins)
FairSpec == Spec /\ Fairness

-----------------------------------------------------------------------------
(* pages of a stored result: get_page *)

TotalPages(n, k) == IF n = 0 THEN 1 ELSE (n + k - 1) \div k
\* The numbers of the lines on page p.
Page(n, p, k) == {i \in 1..n : (p - 1) * k < i /\ i <= p * k}

-----------------------------------------------------------------------------
(* properties *)

ClockType ==
  /\ time \in 0..MaxTime /\ made \in 0..MaxResults /\ faults \in 0..MaxFaults
  /\ size \in [Ids -> Sizes \cup {0}]
  /\ expires \in [Ids -> 0..(MaxTime + Ttl)]
IndexType == up \in BOOLEAN /\ index \in [Ids -> Backends]
HeldType ==
  /\ meta \subseteq 1..made /\ memory \subseteq 1..made
  /\ files \subseteq 1..made /\ temps \subseteq 1..made
  /\ hasManifest \in BOOLEAN /\ manifest \subseteq 1..made
OpType ==
  op \in [at : Stages, caller : Callers, id : Ids \cup {0}, since : 0..MaxTime]

(* Every variable has its type; the totals are those of BytesAccounted. *)
TypeOK == ClockType /\ IndexType /\ HeldType /\ OpType

(* Both stores count exactly the bytes of the results they hold, and hold  *)
(* no more than their budget, through failed writes, failed removals and   *)
(* restarts (file_store.py:100-119, 152-165, 57-68; memory_store.py:22-50).*)
BytesAccounted ==
  /\ fileTotal = Bytes(meta) /\ fileTotal <= MaxBytes
  /\ memoryTotal = Bytes(memory) /\ memoryTotal <= MaxMemory

(* A result that was announced and has not expired is where the index says *)
(* it is, and, in a file, also in the manifest that a restart would read   *)
(* (result_store.py:60-75; file_store.py:100-119).                         *)
AnnouncedIsStored ==
  \A id \in Indexed :
    \/ Due(id, time)
    \/ index[id] = "file" /\ id \in meta \cap files \cap manifest
    \/ index[id] = "memory" /\ id \in memory

(* The pages of a stored result, from the first to total_pages, hold every *)
(* one of its n lines once, and no page but the first is empty             *)
(* (result_store.py:102-137).                                              *)
PagesPartition(n, k) ==
  LET pages == 1..TotalPages(n, k)
  IN /\ \A i \in 1..n : \E p \in pages : i \in Page(n, p, k)
     /\ \A p, q \in pages :
          p # q => Page(n, p, k) \cap Page(n, q, k) = {}
     /\ \A p \in pages : p > 1 => Page(n, p, k) # {}

(* A result stays where it can be read until it expires or the process     *)
(* ends: no sweep, failed removal or fallback takes it away early          *)
(* (result_store.py:77-100, 139-153).                                      *)
AvailableUntilExpiry ==
  [][\A id \in Indexed : ~Due(id, time) =>
       \/ index'[id] = index[id]
       \/ ~up']_vars

(* An expired result leaves the index and both stores, whatever failed     *)
(* before, reads and restarts included                                     *)
(* (result_store.py:139-153, file_store.py:167-174, cleanup.py:30-39).     *)
ExpiredLeave ==
  \A id \in Ids :
    (id \in Indexed \cup meta \cup memory /\ Due(id, time))
      ~> (id \notin Indexed \cup meta \cup memory)
=============================================================================

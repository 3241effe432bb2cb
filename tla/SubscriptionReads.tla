-------------------------- MODULE SubscriptionReads --------------------------
(***************************************************************************)
(* The reading side of one subscription group: its bounded event buffer,   *)
(* the cursors that CursorRegistry keeps for it, and the long polls of     *)
(* SubscriptionRegistry.read.  How events find the group is the subject of *)
(* SubscriptionGroups; here they arrive while its tokens are routed.       *)
(*                                                                         *)
(* A read without waiting is one stretch of the event loop.  A long poll   *)
(* is suspended between the check of its cursor and the use of the offset  *)
(* it took from it, and anything may happen to the group meanwhile.        *)
(***************************************************************************)
EXTENDS Naturals, Sequences, FiniteSets

CONSTANTS
  Readers,       (* read calls that can be in progress at a time           *)
  Items,         (* the items of the group                                 *)
  Retention,     (* retention.mode                                         *)
  BufferSize,    (* retention.max_events                                   *)
  MaxPolls,      (* subscriptions.maximum_concurrent_long_polls            *)
  MaxCursors,    (* CursorRegistry.MAX_CURSORS                             *)
  Limits,        (* page sizes that clients ask for                        *)
  MaxEvents,     (* bound of the model: events of one generation           *)
  MaxGeneration, (* bound of the model: generations                        *)
  MaxMinted      (* bound of the model: cursors ever created               *)

ASSUME ReadsAssumption ==
  /\ Retention \in {"latest_and_changes", "changes_only", "latest_only"}
  /\ BufferSize \in Nat \ {0} /\ MaxPolls \in Nat \ {0}
  /\ MaxCursors \in Nat \ {0} /\ Limits \subseteq Nat \ {0}
  /\ MaxEvents \in Nat /\ MaxGeneration \in Nat /\ MaxMinted \in Nat

VARIABLES
  status,      (* group.status: "LIVE" stands for every status not ended   *)
  generation,  (* group.generation                                         *)
  replacing,   (* a resubscribe waits for its native feeds                 *)
  restoring,   (* generations whose restore waits for its native feeds     *)
  fed,         (* the tokens of its items are in the token map             *)
  sequence,    (* item.sequence                                            *)
  total,       (* runtime.total_events                                     *)
  buffer,      (* runtime.buffer                                           *)
  latest,      (* runtime.latest: the sequence of the newest event, or 0   *)
  dropped,     (* group.dropped_events                                     *)
  log,         (* history: all events of this generation                   *)
  minted,      (* cursors created so far                                   *)
  cursor,      (* cursor[c]: what cursor c says                            *)
  live,        (* cursors in the registry                                  *)
  lapsed,      (* those of them whose expires_at has passed                *)
  reader       (* reader[r]: where read call r is suspended                *)

bufferVars == <<sequence, total, buffer, latest, dropped, log>>
groupVars == <<status, generation, replacing, restoring, fed>>
cursorVars == <<minted, cursor, live, lapsed>>
vars == <<groupVars, bufferVars, cursorVars, reader>>

-----------------------------------------------------------------------------
NoCursor == 0
Ids == 1..MaxMinted
EndedStatuses == {"CANCELLED", "EXPIRED"}
Event == [item : Items, seq : Nat]

\* history: given is what was delivered through the cursors that led to this
\* one, told says that one of these reads reported a data gap.
Cursor(gen, offset, given, told) ==
  [generation |-> gen, offset |-> offset, given |-> given, told |-> told]
NullCursor == Cursor(0, 0, <<>>, FALSE)

Reader(stage, c, offset) == [stage |-> stage, cursor |-> c, offset |-> offset]
Idle == Reader("IDLE", NoCursor, 0)

\* A reader is in runtime.waiters exactly while it is WAITING; READY is a
\* suspended reader whose future is done or whose wait timed out.
Waiting == {r \in Readers : reader[r].stage = "WAITING"}
Polling == {r \in Readers : reader[r].stage # "IDLE"}

Init ==
  /\ status = "LIVE" /\ generation = 1 /\ replacing = FALSE
  /\ restoring = {} /\ fed = TRUE
  /\ sequence = [i \in Items |-> 0]
  /\ total = 0 /\ buffer = <<>> /\ dropped = 0 /\ log = <<>>
  /\ latest = [i \in Items |-> 0]
  /\ minted = 0 /\ live = {} /\ lapsed = {}
  /\ cursor = [c \in Ids |-> NullCursor]
  /\ reader = [r \in Readers |-> Idle]

-----------------------------------------------------------------------------
(* events *)

\* Mutant: nobody is woken.
WokenNone == reader
\* _wake: every future of runtime.waiters is done.
Woken == [r \in Readers |->
  IF r \in Waiting THEN [reader[r] EXCEPT !.stage = "READY"] ELSE reader[r]]

\* The buffer with a place for one more event.
Room(b) == IF Len(b) >= BufferSize THEN Tail(b) ELSE b

\* handle_event for data: numbering, the bounded buffer, the latest values.
DataEvent(i) ==
  LET e == [item |-> i, seq |-> sequence[i] + 1]
  IN
  /\ fed
  /\ total < MaxEvents
  /\ sequence' = [sequence EXCEPT ![i] = @ + 1]
  /\ total' = total + 1
  /\ buffer' = Append(Room(buffer), e)
  /\ dropped' = IF Len(buffer) >= BufferSize THEN dropped + 1 ELSE dropped
  /\ latest' = [latest EXCEPT ![i] = e.seq]
  /\ log' = Append(log, e)
  /\ reader' = Woken
  /\ UNCHANGED <<groupVars, cursorVars>>

\* handle_event for a status: only the readers are woken, to an empty page.
StatusEvent ==
  /\ fed
  /\ Waiting # {}
  /\ reader' = Woken
  /\ UNCHANGED <<groupVars, bufferVars, cursorVars>>

-----------------------------------------------------------------------------
(* cursors *)

\* Mutant: the newest handles are the ones dropped.
EvictedNewest(L) ==
  IF Cardinality(L) <= MaxCursors THEN L
  ELSE {c \in L \ lapsed :
          Cardinality({d \in L \ lapsed : d < c}) < MaxCursors}
\* _evict_if_needed: over the bound the expired go, then the oldest.
Evicted(L) ==
  IF Cardinality(L) <= MaxCursors THEN L
  ELSE {c \in L \ lapsed :
          Cardinality({d \in L \ lapsed : d > c}) < MaxCursors}

\* create, after the handle that is consumed was taken out.
Mint(consumed, new) ==
  /\ minted < MaxMinted
  /\ minted' = minted + 1
  /\ cursor' = [cursor EXCEPT ![minted + 1] = new]
  /\ live' = Evicted((live \ {consumed}) \cup {minted + 1})
  /\ lapsed' = lapsed \cap live'

\* resolve, and the checks of read: the offset of c may be used.
Resolves(c) ==
  c \in live \ lapsed /\ cursor[c].generation = generation

CursorLapses(c) ==
  /\ c \in live \ lapsed
  /\ lapsed' = lapsed \cup {c}
  /\ UNCHANGED <<groupVars, bufferVars, minted, cursor, live, reader>>

\* resolve drops the expired handle it was asked for.
LapsedCursorRefused(c) ==
  /\ status = "LIVE"
  /\ c \in lapsed
  /\ live' = live \ {c}
  /\ lapsed' = lapsed \ {c}
  /\ UNCHANGED <<groupVars, bufferVars, minted, cursor, reader>>

-----------------------------------------------------------------------------
(* read *)

\* Mutant: a consumed cursor takes the generation the group has now.
GenerationNow(c) == generation
\* consume copies the generation of the old handle.
MintedGeneration(c) ==
  IF c = NoCursor THEN generation ELSE cursor[c].generation

\* data_gap
Gap(offset, base) == offset < base

\* Mutant: the next offset counts from the requested one.
NewOffsetFromOld(offset, first, page) == offset + Len(page)
\* The place after the last event of the page, which starts at first.
NewOffset(offset, first, page) ==
  IF page = <<>> THEN offset ELSE first + Len(page)

\* The last stretch of read: the page from offset on, and its new cursor.
Serve(r, c, offset) ==
  \E limit \in Limits :
    LET base == total - Len(buffer)
        first == IF offset < base THEN base ELSE offset
        last == IF first + limit < total THEN first + limit ELSE total
        page == SubSeq(buffer, first - base + 1, last - base)
        old == IF c = NoCursor THEN NullCursor ELSE cursor[c]
    IN
    /\ Mint(c, Cursor(MintedGeneration(c), NewOffset(offset, first, page),
                      old.given \o page, old.told \/ Gap(offset, base)))
    /\ reader' = [reader EXCEPT ![r] = Idle]
    /\ UNCHANGED <<groupVars, bufferVars>>

\* The semaphore _long_polls is not locked.
PollAdmitted == Cardinality(Polling) < MaxPolls

\* read(mode="changes"), with or without a cursor, with or without waiting.
ReadChanges(r, c) ==
  LET offset == IF c = NoCursor THEN 0 ELSE cursor[c].offset
  IN
  /\ reader[r] = Idle
  /\ status = "LIVE"
  /\ Retention # "latest_only"
  /\ c # NoCursor => Resolves(c)
  /\ \/ Serve(r, c, offset)
     \/ /\ PollAdmitted
        /\ total <= offset
        /\ reader' = [reader EXCEPT ![r] = Reader("WAITING", c, offset)]
        /\ UNCHANGED <<groupVars, bufferVars, cursorVars>>

PollTimesOut(r) ==
  /\ r \in Waiting
  /\ reader' = [reader EXCEPT ![r].stage = "READY"]
  /\ UNCHANGED <<groupVars, bufferVars, cursorVars>>

\* The long poll goes on with the offset and the cursor it came with.
PollResumes(r) ==
  /\ reader[r].stage = "READY"
  /\ Serve(r, reader[r].cursor, reader[r].offset)

\* The tool call is cancelled while it waits.
Abandon(r) ==
  /\ r \in Polling
  /\ reader' = [reader EXCEPT ![r] = Idle]
  /\ UNCHANGED <<groupVars, bufferVars, cursorVars>>

-----------------------------------------------------------------------------
(* what ends or replaces the group *)

\* invalidate_subscription
Invalidate == live' = {} /\ lapsed' = {} /\ UNCHANGED <<minted, cursor>>

\* Another generation: no buffered event, no latest value, items from 0.
Reset ==
  /\ buffer' = <<>> /\ log' = <<>> /\ total' = 0
  /\ sequence' = [i \in Items |-> 0]
  /\ latest' = [i \in Items |-> 0]

ResubscribeBegins ==
  /\ status = "LIVE"
  /\ generation < MaxGeneration
  /\ replacing' = TRUE
  /\ UNCHANGED <<status, generation, restoring, fed, bufferVars, cursorVars,
                 reader>>

\* The commit of resubscribe: whatever the group has become, it is live again.
ResubscribeCommits ==
  /\ replacing /\ generation < MaxGeneration
  /\ replacing' = FALSE
  /\ status' = "LIVE" /\ fed' = TRUE
  /\ generation' = generation + 1
  /\ Reset
  /\ Invalidate
  /\ UNCHANGED <<restoring, dropped, reader>>

\* The swap of restore_after_reconnect.
Restore ==
  /\ status = "LIVE"
  /\ generation < MaxGeneration
  /\ generation' = generation + 1
  /\ restoring' = restoring \cup {generation'} /\ fed' = TRUE
  /\ Reset
  /\ Invalidate
  /\ UNCHANGED <<status, replacing, dropped, reader>>

\* Its feeds are there, or they are not: then its tokens leave the map, and
\* the group is FAILED, which is not ended, whatever it has become meanwhile.
RestoreReturns(g) ==
  /\ g \in restoring
  /\ restoring' = restoring \ {g}
  /\ \/ UNCHANGED <<status, fed>>
     \/ status' = "LIVE" /\ fed' = (fed /\ g # generation)
  /\ UNCHANGED <<generation, replacing, bufferVars, cursorVars, reader>>

\* cancel wakes the long polls, expire_due does not.
Cancel ==
  /\ status # "CANCELLED"
  /\ status' = "CANCELLED" /\ fed' = FALSE
  /\ Invalidate
  /\ reader' = Woken
  /\ UNCHANGED <<generation, replacing, restoring, bufferVars>>

Expire ==
  /\ status = "LIVE"
  /\ status' = "EXPIRED" /\ fed' = FALSE
  /\ Invalidate
  /\ UNCHANGED <<generation, replacing, restoring, bufferVars, reader>>

-----------------------------------------------------------------------------
Read(r) ==
  \/ \E c \in Ids \cup {NoCursor} : ReadChanges(r, c)
  \/ PollTimesOut(r) \/ PollResumes(r) \/ Abandon(r)

Replace ==
  \/ ResubscribeBegins \/ ResubscribeCommits
  \/ Restore \/ \E g \in restoring : RestoreReturns(g)

Next ==
  \/ \E i \in Items : DataEvent(i)
  \/ StatusEvent
  \/ \E c \in Ids : CursorLapses(c) \/ LapsedCursorRefused(c)
  \/ \E r \in Readers : Read(r)
  \/ Replace \/ Cancel \/ Expire

Spec == Init /\ [][Next]_vars

-----------------------------------------------------------------------------
(* Properties *)

CursorType ==
  [generation : Nat, offset : Nat, given : Seq(Event), told : BOOLEAN]
ReaderType ==
  [stage : {"IDLE", "WAITING", "READY"}, cursor : Ids \cup {NoCursor},
   offset : Nat]

\* Every variable has its type.
TypeOK ==
  /\ status \in {"LIVE"} \cup EndedStatuses
  /\ generation \in Nat \ {0} /\ replacing \in BOOLEAN
  /\ restoring \subseteq Nat /\ fed \in BOOLEAN
  /\ sequence \in [Items -> Nat] /\ latest \in [Items -> Nat]
  /\ total \in Nat /\ dropped \in Nat
  /\ buffer \in Seq(Event) /\ log \in Seq(Event)
  /\ minted \in 0..MaxMinted
  /\ cursor \in [Ids -> CursorType]
  /\ live \subseteq 1..minted /\ lapsed \subseteq live
  /\ reader \in [Readers -> ReaderType]

\* The window: the buffer holds the newest events of the generation, at the
\* places that total_events implies, and every event that left it was counted.
WindowSound ==
  /\ total = Len(log) /\ Len(buffer) <= BufferSize /\ Len(buffer) <= total
  /\ Len(buffer) \in {total, BufferSize}
  /\ \A k \in 1..Len(buffer) : buffer[k] = log[total - Len(buffer) + k]
  /\ dropped >= total - Len(buffer)

\* A client that follows cursors of the present generation was given every
\* event before its offset, once and in order, or was told of a gap; so no long
\* poll that slept through a replacement can hand on a cursor that skips.
ChainsComplete ==
  \A c \in live : cursor[c].generation = generation =>
    /\ cursor[c].offset <= total
    /\ ~cursor[c].told =>
         cursor[c].given = SubSeq(log, 1, cursor[c].offset)

\* Not even after a gap is an event delivered twice or after a later one.
NothingTwice ==
  \A c \in live : cursor[c].generation = generation =>
    \A j, k \in 1..Len(cursor[c].given) : j < k =>
      \E m, n \in 1..cursor[c].offset :
        /\ m < n
        /\ cursor[c].given[j] = log[m] /\ cursor[c].given[k] = log[n]

\* A long poll does not sleep while there is an event it has not delivered.
NoLostWakeup ==
  \A r \in Waiting : total <= reader[r].offset

\* The store of cursors is bounded, and its eviction never takes the handle
\* that the reply about to be sent contains.
FreshCursorUsable ==
  [][minted' # minted =>
       minted' \in live' /\ Cardinality(live') <= MaxCursors]_vars

-----------------------------------------------------------------------------
(* What the documents say and the code does not do *)

\* cursors.py:4, "reading with an invalidated cursor returns CURSOR_INVALID":
\* a page is served only for a handle that is still in the registry.
InvalidatedCursorsRefused ==
  [][\A r \in Readers :
       (reader[r].stage = "READY" /\ minted' # minted
          /\ reader'[r] # reader[r])
         => reader[r].cursor \in live \cup {NoCursor}]_vars
=============================================================================

--------------------------- MODULE SessionLifecycle ---------------------------
(***************************************************************************)
(* The Bloomberg session of the gateway: SessionManager, the session       *)
(* events of SubscriptionDispatcher, the start, retry and stop of the      *)
(* Gateway, and what NativeBloombergBackend does at a change of the        *)
(* generation: the cached schemas, their refresh, the session listener.    *)
(*                                                                         *)
(* Five coroutines use the manager's lock: Gateway.start, the retry of it  *)
(* (_retry_backend_start), the reconnect task, a tool call that opens a    *)
(* service, and Gateway.stop.  They are suspended inside the lock while a   *)
(* worker thread is in a native call.  Losses are reported by the          *)
(* dispatcher thread, which does not take the lock.  A native call may     *)
(* fail: a stop that raises is swallowed and its session is forgotten.     *)
(*                                                                         *)
(* One service stands for those that are configured or opened on demand.   *)
(***************************************************************************)
EXTENDS Naturals, FiniteSets

CONSTANTS
  MaxSessions,   (* bound of the model: session objects alive; ids are reused *)
  Configured,    (* the service is one of startup_services                 *)
  Reconnects,    (* reconnect.enabled                                      *)
  MaxEvents      (* bound of the model: losses, native calls that fail, and *)
                 (* calls that open a service                              *)

ASSUME SessionAssumption ==
  /\ MaxSessions \in Nat \ {0} /\ MaxEvents \in Nat
  /\ Configured \in BOOLEAN /\ Reconnects \in BOOLEAN

VARIABLES
  state,       (* SessionManager._state                                    *)
  stopping,    (* SessionManager._stopping                                 *)
  generation,  (* SessionManager._generation                               *)
  session,     (* SessionManager._session                                  *)
  opened,      (* the service is in _opened_services                       *)
  lock,        (* who holds the lock                                       *)
  pc,          (* where each coroutine is                                  *)
  busy,        (* busy[p]: the session that p's native call is about       *)
  orphan,      (* the session whose start went on without its coroutine    *)
  posted,      (* whether _schedule_reconnect is in the event loop's queue, *)
               (* and which coroutines may be ahead of it there            *)
  native,      (* native[s]: what Bloomberg knows of the session           *)
  events,
  entry,       (* the service in ServiceRegistry; ops is the session that  *)
               (* its schemas were read from                               *)
  refresh,     (* refresh[g]: the task that _on_generation_change spawned  *)
  heard,       (* history: the generation the listener was last told of as *)
               (* CONNECTED                                                *)
  missed       (* history: a loss was ignored as the reconnect task was in *)
               (* its transition                                           *)

managerVars == <<state, stopping, generation, session, opened>>
taskVars == <<lock, pc, busy, orphan, posted>>
schemaVars == <<entry, refresh, heard>>
vars == <<managerVars, taskVars, native, events, schemaVars, missed>>

-----------------------------------------------------------------------------
NoSession == 0
Sessions == 1..MaxSessions
Starters == {"STARTER", "RETRY"}
Transitioners == Starters \cup {"RECONNECT"}
Coroutines == Transitioners \cup {"OPENER", "STOPPER"}
Nobody == "NOBODY"
States == {"STOPPED", "STARTING", "CONNECTING", "CONNECTED", "RECONNECTING",
           "FAILED", "STOPPING"}

\* The stages of _transition that wait for a worker thread.
InTransition == {"STOP_OLD", "NATIVE_START", "NATIVE_STARTED", "OPENING"}
Stages == InTransition \cup {"IDLE", "SLEEP", "WAIT", "OPEN", "STOP", "DONE"}

Generations == 0..(MaxEvents + 4)
NoEntry == [opened |-> FALSE, generation |-> 0, ops |-> NoSession]
Task(stage, source) == [stage |-> stage, source |-> source]
NoTask == Task("NONE", NoSession)

NotPosted == [due |-> FALSE, ahead |-> {}]
\* The event loop runs what is ready in its order: p goes on if no callback is
\* before it, and then it is not ahead any more.
Runs(p) ==
  /\ posted.due => p \in posted.ahead
  /\ posted' = [posted EXCEPT !.ahead = @ \ {p}]

\* What Bloomberg knows of a session.  UNSTOPPED: its stop raised and nobody
\* has the session any more, it may be alive.
NativeStates == {"STARTING", "UP", "LOST", "UNSTOPPED", "STOPPED"}

Usable(s) == s # NoSession /\ native[s] = "UP"
Free == {s \in Sessions : native[s] = "STOPPED"} \ {session, orphan}
IsFresh(s) == s \in Free /\ \A t \in Free : s <= t
Goto(p, stage) == pc' = [pc EXCEPT ![p] = stage]
Event == events < MaxEvents /\ events' = events + 1

Init ==
  /\ state = "STOPPED" /\ stopping = FALSE /\ generation = 0
  /\ session = NoSession /\ opened = FALSE
  /\ lock = Nobody
  /\ pc = [p \in Coroutines |-> IF p = "STARTER" THEN "WAIT" ELSE "IDLE"]
  /\ busy = [p \in Coroutines |-> NoSession]
  /\ orphan = NoSession /\ posted = NotPosted
  /\ native = [s \in Sessions |-> "STOPPED"]
  /\ events = 0
  /\ entry = NoEntry /\ heard = 0
  /\ refresh = [g \in Generations |-> NoTask]
  /\ missed = FALSE

-----------------------------------------------------------------------------
(* losses, told by the dispatcher thread *)

\* Mutant: the state tells of the loss, but nothing is scheduled.
NotifyDownUnheard(ahead) ==
  /\ state' = IF stopping \/ ~Reconnects THEN "FAILED" ELSE "RECONNECTING"
  /\ UNCHANGED posted
\* notify_session_down
NotifyDown(ahead) ==
  IF stopping \/ ~Reconnects
  THEN state' = "FAILED" /\ UNCHANGED posted
  ELSE /\ state' = "RECONNECTING"
       /\ posted' = IF posted.due THEN posted
                    ELSE [due |-> TRUE, ahead |-> ahead]

\* SessionTerminated or ConnectionDown, of whatever session, a forgotten one
\* included.
Lose(s) ==
  /\ native[s] \in {"UP", "UNSTOPPED"}
  /\ Event
  /\ native' = [native EXCEPT ![s] = IF @ = "UP" THEN "LOST" ELSE "STOPPED"]
  /\ NotifyDown(Transitioners)
  /\ UNCHANGED <<stopping, generation, session, opened, lock, pc, busy,
                 orphan, schemaVars, missed>>

\* session.stop is under way: Bloomberg reports the end of this session too,
\* before stop returns.
TerminatedByStop ==
  /\ \E p \in Coroutines :
       /\ pc[p] \in {"STOP_OLD", "STOP"} /\ Usable(busy[p])
       /\ native' = [native EXCEPT ![busy[p]] = "LOST"]
  /\ NotifyDown({p \in Transitioners : pc[p] # "STOP_OLD"})
  /\ UNCHANGED <<stopping, generation, session, opened, lock, pc, busy,
                 orphan, events, schemaVars, missed>>

\* _schedule_reconnect: without effect while a reconnect task is not done; a
\* new task ends at once if the manager is stopping.
ScheduleReconnect ==
  /\ posted.due
  /\ posted' = NotPosted
  /\ missed' = (missed \/ pc["RECONNECT"] \in InTransition \ {"STOP_OLD"})
  /\ IF pc["RECONNECT"] \in {"IDLE", "DONE"} /\ ~stopping
     THEN Goto("RECONNECT", "SLEEP") ELSE UNCHANGED pc
  /\ UNCHANGED <<managerVars, lock, busy, orphan, native, events,
                 schemaVars>>

-----------------------------------------------------------------------------
(* the transition, in the starter and in the reconnect task *)

\* The old session is forgotten, the worker thread is in session.start of a
\* new one; what Bloomberg knows of the others is known.
StartNative(p, known) ==
  \E s \in Sessions :
    /\ IsFresh(s)
    /\ state' = "CONNECTING"
    /\ session' = NoSession
    /\ opened' = FALSE
    /\ busy' = [busy EXCEPT ![p] = s]
    /\ native' = [known EXCEPT ![s] = "STARTING"]
    /\ Goto(p, "NATIVE_START")

\* Mutant: the transition does not wait for the lock.
EntersUnlocked(p) == lock' = p
Enters(p) == lock = Nobody /\ lock' = p

\* The lock is taken; an old session is stopped before a new one is made.
TransitionBegins(p) ==
  /\ pc[p] = "WAIT"
  /\ Enters(p)
  /\ Runs(p)
  /\ missed' = FALSE
  /\ stopping' = (stopping /\ p \notin Starters)
  /\ IF session # NoSession
     THEN /\ Goto(p, "STOP_OLD")
          /\ busy' = [busy EXCEPT ![p] = session]
          /\ state' = IF p \in Starters THEN "STARTING" ELSE state
          /\ UNCHANGED <<session, opened, native>>
     ELSE StartNative(p, native)
  /\ UNCHANGED <<generation, orphan, events, schemaVars>>

OldSessionStopped(p) ==
  /\ pc[p] = "STOP_OLD"
  /\ Runs(p)
  /\ StartNative(p, [native EXCEPT ![busy[p]] = "STOPPED"])
  /\ UNCHANGED <<stopping, generation, lock, orphan, events, schemaVars,
                 missed>>

\* The stop of s raised: nothing is left of a session that was lost.
Unstopped(s) ==
  [native EXCEPT ![s] = IF @ = "UP" THEN "UNSTOPPED" ELSE "STOPPED"]

\* The exception is logged and the transition goes on.
OldSessionUnstopped(p) ==
  /\ pc[p] = "STOP_OLD"
  /\ Runs(p)
  /\ Event
  /\ StartNative(p, Unstopped(busy[p]))
  /\ UNCHANGED <<stopping, generation, lock, orphan, schemaVars, missed>>

\* The worker thread publishes the session before the coroutine goes on.
NativeStarts(p) ==
  /\ pc[p] = "NATIVE_START"
  /\ native' = [native EXCEPT ![busy[p]] = "UP"]
  /\ session' = busy[p]
  /\ busy' = [busy EXCEPT ![p] = NoSession]
  /\ Goto(p, "NATIVE_STARTED")
  /\ UNCHANGED <<state, stopping, generation, opened, lock, orphan, posted,
                 events, schemaVars, missed>>

\* The transition of p raised: the retry takes over from the first start, the
\* two loops sleep and try again.
Raised(p) ==
  pc' = [pc EXCEPT
    ![p] = IF p = "STARTER" \/ (p = "RECONNECT" /\ stopping)
           THEN "DONE" ELSE "SLEEP",
    !["RETRY"] = IF p = "STARTER" THEN "SLEEP" ELSE @]

\* Mutant: the lock is kept.
NativeStartFailsInLock(p) ==
  /\ pc[p] = "NATIVE_START"
  /\ Runs(p)
  /\ Event
  /\ native' = [native EXCEPT ![busy[p]] = "STOPPED"]
  /\ busy' = [busy EXCEPT ![p] = NoSession]
  /\ Raised(p)
  /\ UNCHANGED <<managerVars, lock, orphan, schemaVars, missed>>

\* session.start returns false: the state stays CONNECTING.
NativeStartFails(p) ==
  /\ pc[p] = "NATIVE_START"
  /\ Runs(p)
  /\ Event
  /\ native' = [native EXCEPT ![busy[p]] = "STOPPED"]
  /\ busy' = [busy EXCEPT ![p] = NoSession]
  /\ lock' = Nobody
  /\ Raised(p)
  /\ UNCHANGED <<managerVars, orphan, schemaVars, missed>>

\* Mutant: the schemas of the older generation stay until they are replaced.
ConnectedKeepingSchemas(p, gen) ==
  /\ state' = "CONNECTED"
  /\ entry' = entry
  /\ refresh' = [refresh EXCEPT ![gen] = Task("DUE", NoSession)]
  /\ lock' = Nobody
  /\ busy' = [busy EXCEPT ![p] = NoSession]
  /\ Goto(p, "DONE")
\* CONNECTED, whatever was reported meanwhile; _on_generation_change drops the
\* schemas and spawns the task of this generation.
Connected(p, gen) ==
  /\ state' = "CONNECTED"
  /\ entry' = NoEntry
  /\ refresh' = [refresh EXCEPT ![gen] = Task("DUE", NoSession)]
  /\ lock' = Nobody
  /\ busy' = [busy EXCEPT ![p] = NoSession]
  /\ Goto(p, "DONE")

\* A new generation; the configured service is opened next, if there is one.
GenerationBegins(p) ==
  /\ pc[p] = "NATIVE_STARTED"
  /\ Runs(p)
  /\ generation' = generation + 1
  /\ IF Configured
     THEN /\ Goto(p, "OPENING")
          /\ busy' = [busy EXCEPT ![p] = session]
          /\ UNCHANGED <<state, entry, refresh, lock>>
     ELSE Connected(p, generation + 1)
  /\ UNCHANGED <<stopping, session, opened, orphan, native, events, heard,
                 missed>>

ServiceOpens(p) ==
  /\ pc[p] = "OPENING"
  /\ Runs(p)
  /\ opened' = TRUE
  /\ Connected(p, generation)
  /\ UNCHANGED <<stopping, generation, session, orphan, native, events, heard,
                 missed>>

\* _open_native_service raises: always if the session is down; else openService
\* failed, or getService did after the service was added to the open ones.
OpeningRaises(s) ==
  IF Usable(s) THEN Event /\ opened' \in {opened, TRUE}
  ELSE UNCHANGED <<events, opened>>

\* At startup a service that does not open is fatal, at a reconnect it is not.
ServiceFailsToOpen(p) ==
  /\ pc[p] = "OPENING"
  /\ Runs(p)
  /\ OpeningRaises(busy[p])
  /\ IF p \in Starters
     THEN /\ state' = "FAILED"
          /\ lock' = Nobody
          /\ busy' = [busy EXCEPT ![p] = NoSession]
          /\ Raised(p)
          /\ UNCHANGED <<entry, refresh>>
     ELSE Connected(p, generation)
  /\ UNCHANGED <<stopping, generation, session, orphan, native, heard, missed>>

\* The backoff of the reconnect task, and of the gateway's retry.
BackoffEnds(p) ==
  /\ pc[p] = "SLEEP"
  /\ Runs(p)
  /\ Goto(p, "WAIT")
  /\ UNCHANGED <<managerVars, lock, busy, orphan, native, events,
                 schemaVars, missed>>

-----------------------------------------------------------------------------
(* stop *)

\* Gateway.stop cancels the retry at whatever await it is; the lock is given
\* back, but a worker thread inside session.start cannot be stopped.  (Nor can
\* one inside session.stop: its session stays published, and Lose is its end.)
GatewayStops ==
  /\ pc["STOPPER"] = "IDLE"
  /\ pc["STARTER"] = "DONE"
  /\ pc' = [pc EXCEPT !["STOPPER"] = "WAIT", !["RETRY"] = "DONE"]
  /\ lock' = IF lock = "RETRY" THEN Nobody ELSE lock
  /\ orphan' = IF pc["RETRY"] = "NATIVE_START" THEN busy["RETRY"] ELSE orphan
  /\ busy' = [busy EXCEPT !["RETRY"] = NoSession]
  /\ UNCHANGED <<managerVars, posted, native, events, schemaVars,
                 missed>>

\* The worker thread publishes its session, whatever has happened meanwhile.
OrphanStarts ==
  /\ orphan # NoSession /\ native[orphan] = "STARTING"
  /\ native' = [native EXCEPT ![orphan] = "UP"]
  /\ session' = orphan
  /\ UNCHANGED <<state, stopping, generation, opened, taskVars, events,
                 schemaVars, missed>>

OrphanFails ==
  /\ orphan # NoSession /\ native[orphan] = "STARTING"
  /\ Event
  /\ native' = [native EXCEPT ![orphan] = "STOPPED"]
  /\ orphan' = NoSession
  /\ UNCHANGED <<managerVars, lock, pc, busy, posted, schemaVars, missed>>

\* The reconnect task is cancelled; it cannot be in the lock now.
ReconnectCancelled == IF pc["RECONNECT"] = "IDLE" THEN "IDLE" ELSE "DONE"

StopBegins ==
  /\ pc["STOPPER"] = "WAIT" /\ lock = Nobody
  /\ stopping' = TRUE
  /\ pc' = [pc EXCEPT
       !["RECONNECT"] = ReconnectCancelled,
       !["STOPPER"] = IF session # NoSession THEN "STOP" ELSE "DONE"]
  /\ IF session # NoSession
     THEN /\ state' = "STOPPING"
          /\ lock' = "STOPPER"
          /\ busy' = [busy EXCEPT !["STOPPER"] = session]
          /\ UNCHANGED <<opened, entry>>
     ELSE /\ state' = "STOPPED"
          /\ opened' = FALSE
          /\ entry' = NoEntry
          /\ UNCHANGED <<lock, busy>>
  /\ UNCHANGED <<generation, session, orphan, posted, native, events, refresh,
                 heard, missed>>

\* The session is forgotten, whether its stop returned or raised.
Stopped ==
  /\ session' = NoSession
  /\ opened' = FALSE
  /\ state' = "STOPPED"
  /\ lock' = Nobody
  /\ busy' = [busy EXCEPT !["STOPPER"] = NoSession]
  /\ Goto("STOPPER", "DONE")
  /\ entry' = NoEntry

StopReturns ==
  /\ pc["STOPPER"] = "STOP"
  /\ native' = [native EXCEPT ![busy["STOPPER"]] = "STOPPED"]
  /\ Stopped
  /\ UNCHANGED <<stopping, generation, orphan, posted, events, refresh, heard,
                 missed>>

StopRaises ==
  /\ pc["STOPPER"] = "STOP"
  /\ Event
  /\ native' = Unstopped(busy["STOPPER"])
  /\ Stopped
  /\ UNCHANGED <<stopping, generation, orphan, posted, refresh, heard, missed>>

-----------------------------------------------------------------------------
(* a service opened on demand, and the schemas *)

OpenBegins ==
  /\ pc["OPENER"] = "IDLE"
  /\ Event
  /\ Goto("OPENER", "WAIT")
  /\ UNCHANGED <<managerVars, lock, busy, orphan, posted, native, schemaVars,
                 missed>>

\* Without a session the call fails; an open service needs no native opening.
OpenProceeds ==
  /\ pc["OPENER"] = "WAIT" /\ lock = Nobody
  /\ IF session = NoSession
     THEN Goto("OPENER", "DONE") /\ UNCHANGED <<lock, busy>>
     ELSE /\ Goto("OPENER", "OPEN")
          /\ lock' = "OPENER"
          /\ busy' = [busy EXCEPT !["OPENER"] = session]
  /\ UNCHANGED <<managerVars, orphan, posted, native, events, schemaVars,
                 missed>>

Marked == [entry EXCEPT !.opened = TRUE, !.generation = generation]

OpenerLeaves ==
  /\ lock' = Nobody
  /\ busy' = [busy EXCEPT !["OPENER"] = NoSession]
  /\ Goto("OPENER", "DONE")

\* open_service of the backend goes on: it marks the service and refreshes its
\* schema, as the tasks of the generations do; it uses the place of task 0.
OpenReturns ==
  /\ pc["OPENER"] = "OPEN"
  /\ OpenerLeaves
  /\ opened' = TRUE
  /\ entry' = Marked
  /\ refresh' = [refresh EXCEPT ![0] = Task("GET", NoSession)]
  /\ UNCHANGED <<state, stopping, generation, session, orphan, posted, native,
                 events, heard, missed>>

OpenRaises ==
  /\ pc["OPENER"] = "OPEN"
  /\ OpeningRaises(busy["OPENER"])
  /\ OpenerLeaves
  /\ UNCHANGED <<state, stopping, generation, session, orphan, posted, native,
                 schemaVars, missed>>

\* Mutant: without an open service the task ends.
RefreshBeginsOrEnds(g) ==
  /\ refresh[g].stage = "DUE"
  /\ refresh' = [refresh EXCEPT ![g].stage = IF opened THEN "GET" ELSE "NONE"]
  /\ entry' = IF opened THEN Marked ELSE entry
  /\ UNCHANGED <<managerVars, taskVars, native, events, heard, missed>>

\* _refresh_schemas marks what is open now with the generation of now.
RefreshBegins(g) ==
  /\ refresh[g].stage = "DUE"
  /\ refresh' = [refresh EXCEPT
       ![g].stage = IF opened THEN "GET" ELSE "NOTIFY"]
  /\ entry' = IF opened THEN Marked ELSE entry
  /\ UNCHANGED <<managerVars, taskVars, native, events, heard, missed>>

\* What is left of the task when the schema was not stored: a task of a
\* generation still tells the listener, the opener's returns or raises.
AfterSchema(g) == Task(IF g = 0 THEN "NONE" ELSE "NOTIFY", NoSession)

\* _get_native_service, in a worker thread.
ServiceFound(g) ==
  /\ refresh[g].stage = "GET" /\ session # NoSession
  /\ refresh' = [refresh EXCEPT ![g] = Task("CONVERT", session)]
  /\ UNCHANGED <<managerVars, taskVars, native, events, entry, heard, missed>>

\* There is no session, or its getService raised.
ServiceNotFound(g) ==
  /\ refresh[g].stage = "GET"
  /\ IF session = NoSession THEN UNCHANGED events ELSE Event
  /\ refresh' = [refresh EXCEPT ![g] = AfterSchema(g)]
  /\ UNCHANGED <<managerVars, taskVars, native, entry, heard, missed>>

\* set_operations: the descriptors read from the source session are stored
\* under the generation of now.
Stored(g) ==
  [entry EXCEPT !.ops = refresh[g].source, !.generation = generation]

OperationsStored(g) ==
  /\ refresh[g].stage = "CONVERT"
  /\ entry' = Stored(g)
  /\ refresh' = [refresh EXCEPT ![g] = AfterSchema(g)]
  /\ UNCHANGED <<managerVars, taskVars, native, events, heard, missed>>

\* convert_service raises.
ConversionFails(g) ==
  /\ refresh[g].stage = "CONVERT"
  /\ Event
  /\ refresh' = [refresh EXCEPT ![g] = AfterSchema(g)]
  /\ UNCHANGED <<managerVars, taskVars, native, entry, heard, missed>>

\* The state and the generation of now are what the listener is told.
Told(g) == IF state = "CONNECTED" THEN generation ELSE heard

ListenerTold(g) ==
  /\ refresh[g].stage = "NOTIFY"
  /\ heard' = Told(g)
  /\ refresh' = [refresh EXCEPT ![g] = NoTask]
  /\ UNCHANGED <<managerVars, taskVars, native, events, entry, missed>>

-----------------------------------------------------------------------------
Transition(p) ==
  \/ TransitionBegins(p) \/ OldSessionStopped(p) \/ OldSessionUnstopped(p)
  \/ NativeStarts(p) \/ NativeStartFails(p)
  \/ GenerationBegins(p) \/ ServiceOpens(p) \/ ServiceFailsToOpen(p)
  \/ BackoffEnds(p)

Stop ==
  StopBegins \/ StopReturns \/ StopRaises \/ OrphanStarts \/ OrphanFails
Open == OpenProceeds \/ OpenReturns \/ OpenRaises

Refresh(g) ==
  \/ RefreshBegins(g) \/ ServiceFound(g) \/ ServiceNotFound(g)
  \/ OperationsStored(g) \/ ConversionFails(g) \/ ListenerTold(g)

\* The event loop and the worker threads do not all stand still.  Native calls
\* fail at most MaxEvents times, so nothing is repeated for ever and no stronger
\* fairness is needed.
Proceed ==
  \/ ScheduleReconnect
  \/ \E p \in Transitioners : Transition(p)
  \/ Stop \/ Open
  \/ \E g \in Generations : Refresh(g)

Next ==
  \/ \E s \in Sessions : Lose(s)
  \/ TerminatedByStop
  \/ GatewayStops \/ OpenBegins
  \/ Proceed

Spec == Init /\ [][Next]_vars

FairSpec == Spec /\ WF_vars(Proceed)

-----------------------------------------------------------------------------
(* Properties *)

EntryType ==
  [opened : BOOLEAN, generation : Nat, ops : Sessions \cup {NoSession}]
TaskType ==
  [stage : {"NONE", "DUE", "GET", "CONVERT", "NOTIFY"},
   source : Sessions \cup {NoSession}]

ManagerType ==
  /\ state \in States /\ stopping \in BOOLEAN
  /\ generation \in Nat
  /\ session \in Sessions \cup {NoSession} /\ opened \in BOOLEAN
  /\ native \in [Sessions -> NativeStates]
  /\ events \in 0..MaxEvents /\ missed \in BOOLEAN
TasksType ==
  /\ lock \in Coroutines \cup {Nobody}
  /\ pc \in [Coroutines -> Stages]
  /\ busy \in [Coroutines -> Sessions \cup {NoSession}]
  /\ orphan \in Sessions \cup {NoSession}
  /\ posted \in [due : BOOLEAN, ahead : SUBSET Coroutines]
SchemasType ==
  /\ entry \in EntryType
  /\ refresh \in [Generations -> TaskType]
  /\ heard \in Nat

\* Every variable has its type.
TypeOK == ManagerType /\ TasksType /\ SchemasType

\* What clients see as CONNECTED has a session object and a generation of its
\* own, although losses, stops and cancelled starts come at any time.
ConnectedHasSession ==
  state = "CONNECTED" => session # NoSession /\ generation > 0

LiveSessions == {s \in Sessions : native[s] \in {"STARTING", "UP"}}

\* The first start, its retry, the reconnect task and the stop never have two
\* native sessions alive between them that none of them has tried to stop, and
\* none after the stop; unless the stop has cancelled the retry in its start.
OneLiveSession ==
  orphan = NoSession =>
    Cardinality(LiveSessions) <= IF pc["STOPPER"] = "DONE" THEN 0 ELSE 1

\* While CONNECTED is shown, the service list is of this generation: no refresh
\* of an older one leaves its mark, however late it ends.
EntryOfThisGeneration ==
  state = "CONNECTED" => entry.generation \in {0, generation}

\* Once the stop has ended nothing connects again.
QuietAfterStop ==
  pc["STOPPER"] = "DONE" =>
    \A p \in Transitioners : pc[p] \in {"IDLE", "DONE"}

\* A stop ends, whoever holds the lock and however many losses come.
StopEnds == pc["STOPPER"] = "WAIT" ~> pc["STOPPER"] = "DONE"

\* With reconnect.enabled, a session that is lost is replaced, unless the loss
\* was reported while the reconnect task was already in its transition (missed).
LossIsRepaired ==
  (session # NoSession /\ native[session] = "LOST" /\ ~missed) ~>
     (Usable(session) \/ missed \/ stopping)

\* The last connection is followed by a call of the listener, which restores
\* the subscriptions.
ListenerCatchesUp ==
  (state = "CONNECTED") ~> (state # "CONNECTED" \/ heard = generation)

-----------------------------------------------------------------------------
(* What the documents say and the code does not do *)

\* SPEC.md:459, "Use a single long-lived consumer session": also after a stop
\* that raised, and while the gateway stops.
SingleSession ==
  Cardinality({s \in Sessions :
                 native[s] \in {"STARTING", "UP", "UNSTOPPED"}}) <= 1

\* SPEC.md:465, "Invalidate service and schema caches after generation
\* changes": schemas are stored under the generation they were read in.
SchemasOfTheirGeneration ==
  [][\A g \in Generations :
       (refresh[g].stage = "CONVERT" /\ refresh'[g].stage # "CONVERT")
         => refresh[g].source = session]_vars

\* SPEC.md:464, reopening after a loss: a lost session is always replaced.
EveryLossIsRepaired ==
  (session # NoSession /\ native[session] = "LOST") ~>
     (Usable(session) \/ stopping)
=============================================================================

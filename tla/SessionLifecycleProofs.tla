------------------------ MODULE SessionLifecycleProofs ------------------------
(***************************************************************************)
(* Proofs about SessionLifecycle, for every number of session objects and  *)
(* of failures, with and without a configured service.                     *)
(***************************************************************************)
EXTENDS SessionLifecycle, FiniteSetTheorems, TLAPS

-----------------------------------------------------------------------------
(* The inductive invariant.                                                *)

\* The stages in which a coroutine is suspended inside the lock.
Locked == InTransition \cup {"OPEN", "STOP"}

\* Each coroutine is at a stage of its own code.
PlacesSound ==
  /\ pc["STOPPER"] \in {"IDLE", "WAIT", "STOP", "DONE"}
  /\ pc["OPENER"] \in {"IDLE", "WAIT", "OPEN", "DONE"}
  /\ \A p \in Transitioners : pc[p] \notin {"OPEN", "STOP"}

\* The lock excludes: who is at such a stage holds it, and nobody else does.
LockSound == \A p \in Coroutines : pc[p] \in Locked <=> lock = p

\* Gateway.stop leaves no transition behind, in this order: the start and its
\* retry are over when it begins, the reconnect task when it has the lock.
StopSound ==
  /\ pc["STOPPER"] # "IDLE" => pc["STARTER"] = "DONE" /\ pc["RETRY"] = "DONE"
  /\ pc["STOPPER"] \in {"STOP", "DONE"} =>
       stopping /\ pc["RECONNECT"] \in {"IDLE", "DONE"}

\* What a transition has made when it shows CONNECTED.
TransitionSound ==
  \A p \in Transitioners :
    /\ pc[p] = "NATIVE_START" => busy[p] \in Sessions
    /\ pc[p] \in {"NATIVE_STARTED", "OPENING"} => session # NoSession
    /\ pc[p] = "OPENING" => generation > 0
    /\ pc[p] \in {"NATIVE_START", "NATIVE_STARTED", "OPENING"} =>
         state # "CONNECTED"

\* While the start that the stop has left behind is not over, a native session
\* that is alive is that one, the published one, or the one whose start is
\* waited for; who stops a session stops the published one.
Unpublished == orphan # NoSession => native[orphan] = "STARTING"
AliveSound ==
  /\ pc["STOPPER"] = "IDLE" => orphan = NoSession
  /\ Unpublished =>
       /\ \A p \in Transitioners :
            pc[p] = "NATIVE_START" => session = NoSession
       /\ \A p \in Coroutines :
            pc[p] \in {"STOP_OLD", "STOP"} => busy[p] = session
       /\ pc["STOPPER"] = "DONE" => session = NoSession
       /\ \A s \in LiveSessions :
            \/ s \in {session, orphan}
            \/ \E p \in Transitioners : pc[p] = "NATIVE_START" /\ s = busy[p]

IInv ==
  /\ TypeOK /\ PlacesSound /\ LockSound /\ StopSound
  /\ TransitionSound /\ ConnectedHasSession
  /\ AliveSound /\ EntryOfThisGeneration

-----------------------------------------------------------------------------
\* A loss changes what is posted to the event loop to another such record.
LEMMA NotifyDownTyped ==
  ASSUME posted \in [due : BOOLEAN, ahead : SUBSET Coroutines],
         NEW ahead \in SUBSET Coroutines, NotifyDown(ahead)
  PROVE  posted' \in [due : BOOLEAN, ahead : SUBSET Coroutines]
  <1>1. [due |-> TRUE, ahead |-> ahead]
          \in [due : BOOLEAN, ahead : SUBSET Coroutines]
    OBVIOUS
  <1>2. posted' = posted \/ posted' = [due |-> TRUE, ahead |-> ahead]
    BY DEF NotifyDown
  <1> QED
    BY <1>1, <1>2

\* When a native start begins, its session is neither the published one nor
\* the one of the start left behind, and it is the only one that is new.
LEMMA StartNativeAlive ==
  ASSUME NEW known \in [Sessions -> NativeStates],
         NEW p \in Transitioners, StartNative(p, known)
  PROVE  /\ native' \in [Sessions -> NativeStates]
         /\ \E s \in Sessions \ {session, orphan} :
              /\ busy' = [busy EXCEPT ![p] = s]
              /\ \A t \in Sessions :
                   native'[t] = IF t = s THEN "STARTING" ELSE known[t]
  <1>1. PICK s \in Sessions :
          /\ s \notin {session, orphan}
          /\ busy' = [busy EXCEPT ![p] = s]
          /\ native' = [known EXCEPT ![s] = "STARTING"]
    BY DEF StartNative, IsFresh, Free
  <1> QED
    BY <1>1 DEF NativeStates

\* A transition that goes on from an old session, or from none, waits for the
\* only session that may be alive.
LEMMA StartNativeSound ==
  ASSUME IInv, NEW known \in [Sessions -> NativeStates],
         NEW p \in Transitioners, StartNative(p, known),
         lock \in {Nobody, p}, pc[p] # "NATIVE_START", orphan' = orphan,
         \A t \in Sessions :
           known[t] = native[t] \/ known[t] \in {"STOPPED", "UNSTOPPED"},
         Unpublished /\ session # NoSession =>
           known[session] \in {"STOPPED", "UNSTOPPED"}
  PROVE  AliveSound'
  <1>1. PICK s \in Sessions \ {session, orphan} :
          /\ busy' = [busy EXCEPT ![p] = s]
          /\ \A t \in Sessions :
               native'[t] = IF t = s THEN "STARTING" ELSE known[t]
    BY StartNativeAlive
  <1> USE DEF IInv, TypeOK, ManagerType, TasksType, PlacesSound, LockSound,
            StopSound, AliveSound, Unpublished, LiveSessions, Locked,
            InTransition, Starters, Transitioners, Coroutines, Nobody,
            NoSession, Sessions
  <1>2. session' = NoSession /\ pc' = [pc EXCEPT ![p] = "NATIVE_START"]
    BY DEF StartNative, Goto
  <1>3. \A q \in Coroutines \ {p} : pc'[q] = pc[q] /\ pc[q] \notin Locked
    BY <1>2
  <1>4. pc["STOPPER"] = "IDLE" => orphan = NoSession
    OBVIOUS
  <1>5. ASSUME Unpublished'
        PROVE  Unpublished
    BY <1>1, <1>5
  <1>6. pc["STOPPER"] = pc'["STOPPER"]
    BY <1>3
  <1>7. ASSUME Unpublished', NEW t \in LiveSessions'
        PROVE  t = s \/ t = orphan
    <2>1. Unpublished
      BY <1>5, <1>7
    <2>2. CASE t # s
      <3>1. t \in LiveSessions /\ t # session
        BY <1>1, <1>7, <2>1, <2>2
      <3>2. \A q \in Transitioners : pc[q] # "NATIVE_START"
        BY <1>3
      <3> QED
        BY <2>1, <3>1, <3>2
    <2> QED
      BY <2>2
  <1>8. busy'[p] = s /\ pc'[p] = "NATIVE_START"
    BY <1>1, <1>2
  <1> QED
    BY <1>2, <1>3, <1>4, <1>6, <1>7, <1>8

\* Each coroutine goes through the stages of its own code only.
LEMMA PlacesStep ==
  ASSUME IInv, [Next]_vars
  PROVE  PlacesSound'
  <1> USE DEF IInv, TypeOK, ManagerType, TasksType, SchemasType, PlacesSound,
            Starters, Transitioners, Coroutines
  <1>1. ASSUME NEW s \in Sessions, Lose(s)
       PROVE  PlacesSound'
    BY <1>1 DEF Lose, NotifyDown, Event, schemaVars
  <1>2. CASE TerminatedByStop
    BY <1>2 DEF TerminatedByStop, Usable, NotifyDown, schemaVars
  <1>3. CASE GatewayStops
    BY <1>3 DEF GatewayStops, managerVars, schemaVars
  <1>4. CASE OpenBegins
    BY <1>4 DEF OpenBegins, Event, Goto, managerVars, schemaVars
  <1>5. CASE ScheduleReconnect
    BY <1>5 DEF ScheduleReconnect, NotPosted, Goto, managerVars, schemaVars
  <1>6. ASSUME NEW p \in Transitioners, TransitionBegins(p)
       PROVE  PlacesSound'
    BY <1>6 DEF TransitionBegins, Enters, Runs, StartNative, IsFresh, Free,
           Goto, schemaVars
  <1>7. ASSUME NEW p \in Transitioners, OldSessionStopped(p)
       PROVE  PlacesSound'
    BY <1>7 DEF OldSessionStopped, Runs, StartNative, IsFresh, Free, Goto,
           schemaVars
  <1>8. ASSUME NEW p \in Transitioners, OldSessionUnstopped(p)
       PROVE  PlacesSound'
    BY <1>8 DEF OldSessionUnstopped, Unstopped, Event, Runs, StartNative,
           IsFresh, Free, Goto, schemaVars
  <1>9. ASSUME NEW p \in Transitioners, NativeStarts(p)
       PROVE  PlacesSound'
    BY <1>9 DEF NativeStarts, Goto, schemaVars
  <1>10. ASSUME NEW p \in Transitioners, NativeStartFails(p)
       PROVE  PlacesSound'
    BY <1>10 DEF NativeStartFails, Runs, Event, Raised, managerVars, schemaVars
  <1>11. ASSUME NEW p \in Transitioners, GenerationBegins(p)
       PROVE  PlacesSound'
    BY <1>11 DEF GenerationBegins, Runs, Connected, Task, NoEntry, Goto
  <1>12. ASSUME NEW p \in Transitioners, ServiceOpens(p)
       PROVE  PlacesSound'
    BY <1>12 DEF ServiceOpens, Runs, Connected, Task, NoEntry, Goto
  <1>13. ASSUME NEW p \in Transitioners, ServiceFailsToOpen(p)
       PROVE  PlacesSound'
    BY <1>13 DEF ServiceFailsToOpen, OpeningRaises, Runs, Event, Raised,
           Connected, Task, NoEntry, Goto
  <1>14. ASSUME NEW p \in Transitioners, BackoffEnds(p)
       PROVE  PlacesSound'
    BY <1>14 DEF BackoffEnds, Runs, Goto, managerVars, schemaVars
  <1>15. CASE StopBegins
    BY <1>15 DEF StopBegins, ReconnectCancelled, NoEntry
  <1>16. CASE StopReturns
    BY <1>16 DEF StopReturns, Stopped, Goto, NoEntry
  <1>17. CASE StopRaises
    BY <1>17 DEF StopRaises, Stopped, Event, Goto, NoEntry
  <1>18. CASE OrphanStarts
    BY <1>18 DEF OrphanStarts, taskVars, schemaVars
  <1>19. CASE OrphanFails
    BY <1>19 DEF OrphanFails, Event, managerVars, schemaVars
  <1>20. CASE OpenProceeds
    BY <1>20 DEF OpenProceeds, Goto, managerVars, schemaVars
  <1>21. CASE OpenReturns
    BY <1>21 DEF OpenReturns, OpenerLeaves, Goto, Marked, Task
  <1>22. CASE OpenRaises
    BY <1>22 DEF OpenRaises, OpeningRaises, OpenerLeaves, Event, Goto,
           schemaVars
  <1>23. ASSUME NEW g \in Generations, Refresh(g)
       PROVE  PlacesSound'
    <2>1. UNCHANGED <<managerVars, taskVars, native, missed>>
      BY <1>23 DEF Refresh, RefreshBegins, ServiceFound, ServiceNotFound,
         OperationsStored, ConversionFails, ListenerTold, Event
    <2> QED
      BY <2>1 DEF managerVars, taskVars
  <1>24. CASE UNCHANGED vars
    BY <1>24 DEF vars, managerVars, taskVars, schemaVars
  <1> QED
    BY <1>1, <1>2, <1>3, <1>4, <1>5, <1>6, <1>7, <1>8, <1>9, <1>10, <1>11,
       <1>12, <1>13, <1>14, <1>15, <1>16, <1>17, <1>18, <1>19, <1>20, <1>21,
       <1>22, <1>23, <1>24
    DEF Next, Proceed, Transition, Stop, Open

\* The lock is taken before a native call and given back after it, by everyone
\* who returns, raises or is cancelled.
LEMMA LockStep ==
  ASSUME IInv, [Next]_vars
  PROVE  LockSound'
  <1> USE DEF IInv, TypeOK, ManagerType, TasksType, SchemasType, PlacesSound,
            LockSound, Locked, InTransition, Starters, Transitioners,
            Coroutines, Nobody
  <1>1. ASSUME NEW s \in Sessions, Lose(s)
       PROVE  LockSound'
    BY <1>1 DEF Lose, NotifyDown, Event, schemaVars
  <1>2. CASE TerminatedByStop
    BY <1>2 DEF TerminatedByStop, Usable, NotifyDown, schemaVars
  <1>3. CASE GatewayStops
    BY <1>3 DEF GatewayStops, managerVars, schemaVars
  <1>4. CASE OpenBegins
    BY <1>4 DEF OpenBegins, Event, Goto, managerVars, schemaVars
  <1>5. CASE ScheduleReconnect
    BY <1>5 DEF ScheduleReconnect, NotPosted, Goto, managerVars, schemaVars
  <1>6. ASSUME NEW p \in Transitioners, TransitionBegins(p)
       PROVE  LockSound'
    BY <1>6 DEF TransitionBegins, Enters, Runs, StartNative, IsFresh, Free,
           Goto, schemaVars
  <1>7. ASSUME NEW p \in Transitioners, OldSessionStopped(p)
       PROVE  LockSound'
    BY <1>7 DEF OldSessionStopped, Runs, StartNative, IsFresh, Free, Goto,
           schemaVars
  <1>8. ASSUME NEW p \in Transitioners, OldSessionUnstopped(p)
       PROVE  LockSound'
    BY <1>8 DEF OldSessionUnstopped, Unstopped, Event, Runs, StartNative,
           IsFresh, Free, Goto, schemaVars
  <1>9. ASSUME NEW p \in Transitioners, NativeStarts(p)
       PROVE  LockSound'
    BY <1>9 DEF NativeStarts, Goto, schemaVars
  <1>10. ASSUME NEW p \in Transitioners, NativeStartFails(p)
       PROVE  LockSound'
    BY <1>10 DEF NativeStartFails, Runs, Event, Raised, managerVars, schemaVars
  <1>11. ASSUME NEW p \in Transitioners, GenerationBegins(p)
       PROVE  LockSound'
    BY <1>11 DEF GenerationBegins, Runs, Connected, Task, NoEntry, Goto
  <1>12. ASSUME NEW p \in Transitioners, ServiceOpens(p)
       PROVE  LockSound'
    BY <1>12 DEF ServiceOpens, Runs, Connected, Task, NoEntry, Goto
  <1>13. ASSUME NEW p \in Transitioners, ServiceFailsToOpen(p)
       PROVE  LockSound'
    BY <1>13 DEF ServiceFailsToOpen, OpeningRaises, Runs, Event, Raised,
           Connected, Task, NoEntry, Goto
  <1>14. ASSUME NEW p \in Transitioners, BackoffEnds(p)
       PROVE  LockSound'
    BY <1>14 DEF BackoffEnds, Runs, Goto, managerVars, schemaVars
  <1>15. CASE StopBegins
    BY <1>15 DEF StopBegins, ReconnectCancelled, NoEntry
  <1>16. CASE StopReturns
    BY <1>16 DEF StopReturns, Stopped, Goto, NoEntry
  <1>17. CASE StopRaises
    BY <1>17 DEF StopRaises, Stopped, Event, Goto, NoEntry
  <1>18. CASE OrphanStarts
    BY <1>18 DEF OrphanStarts, taskVars, schemaVars
  <1>19. CASE OrphanFails
    BY <1>19 DEF OrphanFails, Event, managerVars, schemaVars
  <1>20. CASE OpenProceeds
    BY <1>20 DEF OpenProceeds, Goto, managerVars, schemaVars
  <1>21. CASE OpenReturns
    BY <1>21 DEF OpenReturns, OpenerLeaves, Goto, Marked, Task
  <1>22. CASE OpenRaises
    BY <1>22 DEF OpenRaises, OpeningRaises, OpenerLeaves, Event, Goto,
           schemaVars
  <1>23. ASSUME NEW g \in Generations, Refresh(g)
       PROVE  LockSound'
    <2>1. UNCHANGED <<managerVars, taskVars, native, missed>>
      BY <1>23 DEF Refresh, RefreshBegins, ServiceFound, ServiceNotFound,
         OperationsStored, ConversionFails, ListenerTold, Event
    <2> QED
      BY <2>1 DEF managerVars, taskVars
  <1>24. CASE UNCHANGED vars
    BY <1>24 DEF vars, managerVars, taskVars, schemaVars
  <1> QED
    BY <1>1, <1>2, <1>3, <1>4, <1>5, <1>6, <1>7, <1>8, <1>9, <1>10, <1>11,
       <1>12, <1>13, <1>14, <1>15, <1>16, <1>17, <1>18, <1>19, <1>20, <1>21,
       <1>22, <1>23, <1>24
    DEF Next, Proceed, Transition, Stop, Open

\* What the stop has ended does not begin again.
LEMMA StopStep ==
  ASSUME IInv, [Next]_vars
  PROVE  StopSound'
  <1> USE DEF IInv, TypeOK, ManagerType, TasksType, SchemasType, PlacesSound,
            LockSound, StopSound, Locked, InTransition, Starters,
            Transitioners, Coroutines, Nobody
  <1>1. ASSUME NEW s \in Sessions, Lose(s)
       PROVE  StopSound'
    BY <1>1 DEF Lose, NotifyDown, Event, schemaVars
  <1>2. CASE TerminatedByStop
    BY <1>2 DEF TerminatedByStop, Usable, NotifyDown, schemaVars
  <1>3. CASE GatewayStops
    BY <1>3 DEF GatewayStops, managerVars, schemaVars
  <1>4. CASE OpenBegins
    BY <1>4 DEF OpenBegins, Event, Goto, managerVars, schemaVars
  <1>5. CASE ScheduleReconnect
    BY <1>5 DEF ScheduleReconnect, NotPosted, Goto, managerVars, schemaVars
  <1>6. ASSUME NEW p \in Transitioners, TransitionBegins(p)
       PROVE  StopSound'
    BY <1>6 DEF TransitionBegins, Enters, Runs, StartNative, IsFresh, Free,
           Goto, schemaVars
  <1>7. ASSUME NEW p \in Transitioners, OldSessionStopped(p)
       PROVE  StopSound'
    BY <1>7 DEF OldSessionStopped, Runs, StartNative, IsFresh, Free, Goto,
           schemaVars
  <1>8. ASSUME NEW p \in Transitioners, OldSessionUnstopped(p)
       PROVE  StopSound'
    BY <1>8 DEF OldSessionUnstopped, Unstopped, Event, Runs, StartNative,
           IsFresh, Free, Goto, schemaVars
  <1>9. ASSUME NEW p \in Transitioners, NativeStarts(p)
       PROVE  StopSound'
    BY <1>9 DEF NativeStarts, Goto, schemaVars
  <1>10. ASSUME NEW p \in Transitioners, NativeStartFails(p)
       PROVE  StopSound'
    BY <1>10 DEF NativeStartFails, Runs, Event, Raised, managerVars, schemaVars
  <1>11. ASSUME NEW p \in Transitioners, GenerationBegins(p)
       PROVE  StopSound'
    BY <1>11 DEF GenerationBegins, Runs, Connected, Task, NoEntry, Goto
  <1>12. ASSUME NEW p \in Transitioners, ServiceOpens(p)
       PROVE  StopSound'
    BY <1>12 DEF ServiceOpens, Runs, Connected, Task, NoEntry, Goto
  <1>13. ASSUME NEW p \in Transitioners, ServiceFailsToOpen(p)
       PROVE  StopSound'
    BY <1>13 DEF ServiceFailsToOpen, OpeningRaises, Runs, Event, Raised,
           Connected, Task, NoEntry, Goto
  <1>14. ASSUME NEW p \in Transitioners, BackoffEnds(p)
       PROVE  StopSound'
    BY <1>14 DEF BackoffEnds, Runs, Goto, managerVars, schemaVars
  <1>15. CASE StopBegins
    BY <1>15 DEF StopBegins, ReconnectCancelled, NoEntry
  <1>16. CASE StopReturns
    BY <1>16 DEF StopReturns, Stopped, Goto, NoEntry
  <1>17. CASE StopRaises
    BY <1>17 DEF StopRaises, Stopped, Event, Goto, NoEntry
  <1>18. CASE OrphanStarts
    BY <1>18 DEF OrphanStarts, taskVars, schemaVars
  <1>19. CASE OrphanFails
    BY <1>19 DEF OrphanFails, Event, managerVars, schemaVars
  <1>20. CASE OpenProceeds
    BY <1>20 DEF OpenProceeds, Goto, managerVars, schemaVars
  <1>21. CASE OpenReturns
    BY <1>21 DEF OpenReturns, OpenerLeaves, Goto, Marked, Task
  <1>22. CASE OpenRaises
    BY <1>22 DEF OpenRaises, OpeningRaises, OpenerLeaves, Event, Goto,
           schemaVars
  <1>23. ASSUME NEW g \in Generations, Refresh(g)
       PROVE  StopSound'
    <2>1. UNCHANGED <<managerVars, taskVars, native, missed>>
      BY <1>23 DEF Refresh, RefreshBegins, ServiceFound, ServiceNotFound,
         OperationsStored, ConversionFails, ListenerTold, Event
    <2> QED
      BY <2>1 DEF managerVars, taskVars
  <1>24. CASE UNCHANGED vars
    BY <1>24 DEF vars, managerVars, taskVars, schemaVars
  <1> QED
    BY <1>1, <1>2, <1>3, <1>4, <1>5, <1>6, <1>7, <1>8, <1>9, <1>10, <1>11,
       <1>12, <1>13, <1>14, <1>15, <1>16, <1>17, <1>18, <1>19, <1>20, <1>21,
       <1>22, <1>23, <1>24
    DEF Next, Proceed, Transition, Stop, Open

\* Nobody takes a session away from a transition that is under way, or shows
\* CONNECTED before it ends.
LEMMA TransitionStep ==
  ASSUME IInv, [Next]_vars
  PROVE  TransitionSound'
  <1> USE DEF IInv, TypeOK, ManagerType, TasksType, SchemasType, PlacesSound,
            LockSound, StopSound, TransitionSound, Locked, InTransition,
            Starters, Transitioners, Coroutines, Nobody, NoSession, Sessions
  <1>1. ASSUME NEW s \in Sessions, Lose(s)
       PROVE  TransitionSound'
    BY <1>1 DEF Lose, NotifyDown, Event, schemaVars
  <1>2. CASE TerminatedByStop
    BY <1>2 DEF TerminatedByStop, Usable, NotifyDown, schemaVars
  <1>3. CASE GatewayStops
    BY <1>3 DEF GatewayStops, managerVars, schemaVars
  <1>4. CASE OpenBegins
    BY <1>4 DEF OpenBegins, Event, Goto, managerVars, schemaVars
  <1>5. CASE ScheduleReconnect
    BY <1>5 DEF ScheduleReconnect, NotPosted, Goto, managerVars, schemaVars
  <1>6. ASSUME NEW p \in Transitioners, TransitionBegins(p)
       PROVE  TransitionSound'
    BY <1>6 DEF TransitionBegins, Enters, Runs, StartNative, IsFresh, Free,
           Goto, schemaVars
  <1>7. ASSUME NEW p \in Transitioners, OldSessionStopped(p)
       PROVE  TransitionSound'
    BY <1>7 DEF OldSessionStopped, Runs, StartNative, IsFresh, Free, Goto,
           schemaVars
  <1>8. ASSUME NEW p \in Transitioners, OldSessionUnstopped(p)
       PROVE  TransitionSound'
    BY <1>8 DEF OldSessionUnstopped, Unstopped, Event, Runs, StartNative,
           IsFresh, Free, Goto, schemaVars
  <1>9. ASSUME NEW p \in Transitioners, NativeStarts(p)
       PROVE  TransitionSound'
    BY <1>9 DEF NativeStarts, Goto, schemaVars
  <1>10. ASSUME NEW p \in Transitioners, NativeStartFails(p)
       PROVE  TransitionSound'
    BY <1>10 DEF NativeStartFails, Runs, Event, Raised, managerVars, schemaVars
  <1>11. ASSUME NEW p \in Transitioners, GenerationBegins(p)
       PROVE  TransitionSound'
    BY <1>11 DEF GenerationBegins, Runs, Connected, Task, NoEntry, Goto
  <1>12. ASSUME NEW p \in Transitioners, ServiceOpens(p)
       PROVE  TransitionSound'
    BY <1>12 DEF ServiceOpens, Runs, Connected, Task, NoEntry, Goto
  <1>13. ASSUME NEW p \in Transitioners, ServiceFailsToOpen(p)
       PROVE  TransitionSound'
    BY <1>13 DEF ServiceFailsToOpen, OpeningRaises, Runs, Event, Raised,
           Connected, Task, NoEntry, Goto
  <1>14. ASSUME NEW p \in Transitioners, BackoffEnds(p)
       PROVE  TransitionSound'
    BY <1>14 DEF BackoffEnds, Runs, Goto, managerVars, schemaVars
  <1>15. CASE StopBegins
    BY <1>15 DEF StopBegins, ReconnectCancelled, NoEntry
  <1>16. CASE StopReturns
    BY <1>16 DEF StopReturns, Stopped, Goto, NoEntry
  <1>17. CASE StopRaises
    BY <1>17 DEF StopRaises, Stopped, Event, Goto, NoEntry
  <1>18. CASE OrphanStarts
    BY <1>18 DEF OrphanStarts, taskVars, schemaVars
  <1>19. CASE OrphanFails
    BY <1>19 DEF OrphanFails, Event, managerVars, schemaVars
  <1>20. CASE OpenProceeds
    BY <1>20 DEF OpenProceeds, Goto, managerVars, schemaVars
  <1>21. CASE OpenReturns
    BY <1>21 DEF OpenReturns, OpenerLeaves, Goto, Marked, Task
  <1>22. CASE OpenRaises
    BY <1>22 DEF OpenRaises, OpeningRaises, OpenerLeaves, Event, Goto,
           schemaVars
  <1>23. ASSUME NEW g \in Generations, Refresh(g)
       PROVE  TransitionSound'
    <2>1. UNCHANGED <<managerVars, taskVars, native, missed>>
      BY <1>23 DEF Refresh, RefreshBegins, ServiceFound, ServiceNotFound,
         OperationsStored, ConversionFails, ListenerTold, Event
    <2> QED
      BY <2>1 DEF managerVars, taskVars
  <1>24. CASE UNCHANGED vars
    BY <1>24 DEF vars, managerVars, taskVars, schemaVars
  <1> QED
    BY <1>1, <1>2, <1>3, <1>4, <1>5, <1>6, <1>7, <1>8, <1>9, <1>10, <1>11,
       <1>12, <1>13, <1>14, <1>15, <1>16, <1>17, <1>18, <1>19, <1>20, <1>21,
       <1>22, <1>23, <1>24
    DEF Next, Proceed, Transition, Stop, Open

\* CONNECTED is shown by a transition that has its session, and whatever takes
\* the session away changes the state with it.
LEMMA ConnectedStep ==
  ASSUME IInv, [Next]_vars
  PROVE  ConnectedHasSession'
  <1> USE DEF IInv, TypeOK, ManagerType, TasksType, SchemasType, PlacesSound,
            LockSound, StopSound, TransitionSound, ConnectedHasSession,
            Locked, InTransition, Starters, Transitioners, Coroutines, Nobody,
            NoSession, Sessions
  <1>1. ASSUME NEW s \in Sessions, Lose(s)
       PROVE  ConnectedHasSession'
    BY <1>1 DEF Lose, NotifyDown, Event, schemaVars
  <1>2. CASE TerminatedByStop
    BY <1>2 DEF TerminatedByStop, Usable, NotifyDown, schemaVars
  <1>3. CASE GatewayStops
    BY <1>3 DEF GatewayStops, managerVars, schemaVars
  <1>4. CASE OpenBegins
    BY <1>4 DEF OpenBegins, Event, Goto, managerVars, schemaVars
  <1>5. CASE ScheduleReconnect
    BY <1>5 DEF ScheduleReconnect, NotPosted, Goto, managerVars, schemaVars
  <1>6. ASSUME NEW p \in Transitioners, TransitionBegins(p)
       PROVE  ConnectedHasSession'
    BY <1>6 DEF TransitionBegins, Enters, Runs, StartNative, IsFresh, Free,
           Goto, schemaVars
  <1>7. ASSUME NEW p \in Transitioners, OldSessionStopped(p)
       PROVE  ConnectedHasSession'
    BY <1>7 DEF OldSessionStopped, Runs, StartNative, IsFresh, Free, Goto,
           schemaVars
  <1>8. ASSUME NEW p \in Transitioners, OldSessionUnstopped(p)
       PROVE  ConnectedHasSession'
    BY <1>8 DEF OldSessionUnstopped, Unstopped, Event, Runs, StartNative,
           IsFresh, Free, Goto, schemaVars
  <1>9. ASSUME NEW p \in Transitioners, NativeStarts(p)
       PROVE  ConnectedHasSession'
    BY <1>9 DEF NativeStarts, Goto, schemaVars
  <1>10. ASSUME NEW p \in Transitioners, NativeStartFails(p)
       PROVE  ConnectedHasSession'
    BY <1>10 DEF NativeStartFails, Runs, Event, Raised, managerVars, schemaVars
  <1>11. ASSUME NEW p \in Transitioners, GenerationBegins(p)
       PROVE  ConnectedHasSession'
    BY <1>11 DEF GenerationBegins, Runs, Connected, Task, NoEntry, Goto
  <1>12. ASSUME NEW p \in Transitioners, ServiceOpens(p)
       PROVE  ConnectedHasSession'
    BY <1>12 DEF ServiceOpens, Runs, Connected, Task, NoEntry, Goto
  <1>13. ASSUME NEW p \in Transitioners, ServiceFailsToOpen(p)
       PROVE  ConnectedHasSession'
    BY <1>13 DEF ServiceFailsToOpen, OpeningRaises, Runs, Event, Raised,
           Connected, Task, NoEntry, Goto
  <1>14. ASSUME NEW p \in Transitioners, BackoffEnds(p)
       PROVE  ConnectedHasSession'
    BY <1>14 DEF BackoffEnds, Runs, Goto, managerVars, schemaVars
  <1>15. CASE StopBegins
    BY <1>15 DEF StopBegins, ReconnectCancelled, NoEntry
  <1>16. CASE StopReturns
    BY <1>16 DEF StopReturns, Stopped, Goto, NoEntry
  <1>17. CASE StopRaises
    BY <1>17 DEF StopRaises, Stopped, Event, Goto, NoEntry
  <1>18. CASE OrphanStarts
    BY <1>18 DEF OrphanStarts, taskVars, schemaVars
  <1>19. CASE OrphanFails
    BY <1>19 DEF OrphanFails, Event, managerVars, schemaVars
  <1>20. CASE OpenProceeds
    BY <1>20 DEF OpenProceeds, Goto, managerVars, schemaVars
  <1>21. CASE OpenReturns
    BY <1>21 DEF OpenReturns, OpenerLeaves, Goto, Marked, Task
  <1>22. CASE OpenRaises
    BY <1>22 DEF OpenRaises, OpeningRaises, OpenerLeaves, Event, Goto,
           schemaVars
  <1>23. ASSUME NEW g \in Generations, Refresh(g)
       PROVE  ConnectedHasSession'
    <2>1. UNCHANGED <<managerVars, taskVars, native, missed>>
      BY <1>23 DEF Refresh, RefreshBegins, ServiceFound, ServiceNotFound,
         OperationsStored, ConversionFails, ListenerTold, Event
    <2> QED
      BY <2>1 DEF managerVars, taskVars
  <1>24. CASE UNCHANGED vars
    BY <1>24 DEF vars, managerVars, taskVars, schemaVars
  <1> QED
    BY <1>1, <1>2, <1>3, <1>4, <1>5, <1>6, <1>7, <1>8, <1>9, <1>10, <1>11,
       <1>12, <1>13, <1>14, <1>15, <1>16, <1>17, <1>18, <1>19, <1>20, <1>21,
       <1>22, <1>23, <1>24
    DEF Next, Proceed, Transition, Stop, Open

\* The lock makes one start wait for one new session, when the old one is
\* stopped.
LEMMA AliveStep ==
  ASSUME IInv, [Next]_vars
  PROVE  AliveSound'
  <1> USE DEF IInv, TypeOK, ManagerType, TasksType, PlacesSound, LockSound,
            StopSound, TransitionSound, AliveSound, Unpublished, LiveSessions,
            Locked, InTransition, Starters, Transitioners, Coroutines, Nobody,
            NoSession, Sessions
  <1>1. ASSUME NEW s \in Sessions, Lose(s)
       PROVE  AliveSound'
    BY <1>1 DEF Lose, NotifyDown, Event, schemaVars
  <1>2. CASE TerminatedByStop
    BY <1>2 DEF TerminatedByStop, Usable, NotifyDown, schemaVars
  <1>3. CASE GatewayStops
    BY <1>3 DEF GatewayStops, managerVars, schemaVars
  <1>4. CASE OpenBegins
    BY <1>4 DEF OpenBegins, Event, Goto, managerVars, schemaVars
  <1>5. CASE ScheduleReconnect
    BY <1>5 DEF ScheduleReconnect, NotPosted, Goto, managerVars, schemaVars
  <1>6. ASSUME NEW p \in Transitioners, TransitionBegins(p)
       PROVE  AliveSound'
    <2>1. CASE session = NoSession
      <3>1. StartNative(p, native) /\ lock = Nobody /\ orphan' = orphan
        BY <1>6, <2>1 DEF TransitionBegins, Enters
      <3> QED
        BY <1>6, <2>1, <3>1, StartNativeSound DEF TransitionBegins
    <2>2. CASE session # NoSession
      BY <1>6, <2>2 DEF TransitionBegins, Enters, Runs, Goto, schemaVars
    <2> QED
      BY <2>1, <2>2
  <1>7. ASSUME NEW p \in Transitioners, OldSessionStopped(p)
       PROVE  AliveSound'
    <2> DEFINE known == [native EXCEPT ![busy[p]] = "STOPPED"]
    <2>1. known \in [Sessions -> NativeStates]
      BY DEF NativeStates
    <2>2. StartNative(p, known) /\ orphan' = orphan /\ pc[p] = "STOP_OLD"
      BY <1>7 DEF OldSessionStopped
    <2>3. lock = p
      BY <2>2
    <2>4. Unpublished => busy[p] = session
      BY <2>2
    <2> HIDE DEF known
    <2> QED
      BY <2>1, <2>2, <2>3, <2>4, StartNativeSound DEF known
  <1>8. ASSUME NEW p \in Transitioners, OldSessionUnstopped(p)
       PROVE  AliveSound'
    <2> DEFINE known == Unstopped(busy[p])
    <2>1. known \in [Sessions -> NativeStates]
      BY DEF Unstopped, NativeStates
    <2>2. StartNative(p, known) /\ orphan' = orphan /\ pc[p] = "STOP_OLD"
      BY <1>8 DEF OldSessionUnstopped
    <2>3. lock = p
      BY <2>2
    <2>4. Unpublished => busy[p] = session
      BY <2>2
    <2> HIDE DEF known
    <2> QED
      BY <2>1, <2>2, <2>3, <2>4, StartNativeSound DEF known, Unstopped
  <1>9. ASSUME NEW p \in Transitioners, NativeStarts(p)
       PROVE  AliveSound'
    BY <1>9 DEF NativeStarts, Goto, schemaVars
  <1>10. ASSUME NEW p \in Transitioners, NativeStartFails(p)
       PROVE  AliveSound'
    BY <1>10 DEF NativeStartFails, Runs, Event, Raised, managerVars, schemaVars
  <1>11. ASSUME NEW p \in Transitioners, GenerationBegins(p)
       PROVE  AliveSound'
    BY <1>11 DEF GenerationBegins, Runs, Connected, Task, NoEntry, Goto
  <1>12. ASSUME NEW p \in Transitioners, ServiceOpens(p)
       PROVE  AliveSound'
    BY <1>12 DEF ServiceOpens, Runs, Connected, Task, NoEntry, Goto
  <1>13. ASSUME NEW p \in Transitioners, ServiceFailsToOpen(p)
       PROVE  AliveSound'
    BY <1>13 DEF ServiceFailsToOpen, OpeningRaises, Runs, Event, Raised,
           Connected, Task, NoEntry, Goto
  <1>14. ASSUME NEW p \in Transitioners, BackoffEnds(p)
       PROVE  AliveSound'
    BY <1>14 DEF BackoffEnds, Runs, Goto, managerVars, schemaVars
  <1>15. CASE StopBegins
    BY <1>15 DEF StopBegins, ReconnectCancelled, NoEntry
  <1>16. CASE StopReturns
    BY <1>16 DEF StopReturns, Stopped, Goto, NoEntry
  <1>17. CASE StopRaises
    BY <1>17 DEF StopRaises, Unstopped, Stopped, Event, Goto, NoEntry
  <1>18. CASE OrphanStarts
    BY <1>18 DEF OrphanStarts, taskVars, schemaVars
  <1>19. CASE OrphanFails
    BY <1>19 DEF OrphanFails, Event, managerVars, schemaVars
  <1>20. CASE OpenProceeds
    BY <1>20 DEF OpenProceeds, Goto, managerVars, schemaVars
  <1>21. CASE OpenReturns
    BY <1>21 DEF OpenReturns, OpenerLeaves, Goto, Marked, Task
  <1>22. CASE OpenRaises
    BY <1>22 DEF OpenRaises, OpeningRaises, OpenerLeaves, Event, Goto,
           schemaVars
  <1>23. ASSUME NEW g \in Generations, Refresh(g)
       PROVE  AliveSound'
    <2>1. UNCHANGED <<managerVars, taskVars, native, missed>>
      BY <1>23 DEF Refresh, RefreshBegins, ServiceFound, ServiceNotFound,
         OperationsStored, ConversionFails, ListenerTold, Event
    <2> QED
      BY <2>1 DEF managerVars, taskVars
  <1>24. CASE UNCHANGED vars
    BY <1>24 DEF vars, managerVars, taskVars, schemaVars
  <1> QED
    BY <1>1, <1>2, <1>3, <1>4, <1>5, <1>6, <1>7, <1>8, <1>9, <1>10, <1>11,
       <1>12, <1>13, <1>14, <1>15, <1>16, <1>17, <1>18, <1>19, <1>20, <1>21,
       <1>22, <1>23, <1>24
    DEF Next, Proceed, Transition, Stop, Open

\* The generation changes while CONNECTED is not shown, and the list is emptied
\* when it is shown again.
LEMMA EntryStep ==
  ASSUME IInv, [Next]_vars
  PROVE  EntryOfThisGeneration'
  <1> USE DEF IInv, TypeOK, ManagerType, SchemasType, PlacesSound, LockSound,
            StopSound, TransitionSound, EntryOfThisGeneration, EntryType,
            Locked, InTransition, Starters, Transitioners, Coroutines, Nobody,
            NoSession, Sessions
  <1>1. ASSUME NEW s \in Sessions, Lose(s)
       PROVE  EntryOfThisGeneration'
    BY <1>1 DEF Lose, NotifyDown, Event, schemaVars
  <1>2. CASE TerminatedByStop
    BY <1>2 DEF TerminatedByStop, Usable, NotifyDown, schemaVars
  <1>3. CASE GatewayStops
    BY <1>3 DEF GatewayStops, managerVars, schemaVars
  <1>4. CASE OpenBegins
    BY <1>4 DEF OpenBegins, Event, Goto, managerVars, schemaVars
  <1>5. CASE ScheduleReconnect
    BY <1>5 DEF ScheduleReconnect, NotPosted, Goto, managerVars, schemaVars
  <1>6. ASSUME NEW p \in Transitioners, TransitionBegins(p)
       PROVE  EntryOfThisGeneration'
    BY <1>6 DEF TransitionBegins, Enters, Runs, StartNative, IsFresh, Free,
           Goto, schemaVars
  <1>7. ASSUME NEW p \in Transitioners, OldSessionStopped(p)
       PROVE  EntryOfThisGeneration'
    BY <1>7 DEF OldSessionStopped, Runs, StartNative, IsFresh, Free, Goto,
           schemaVars
  <1>8. ASSUME NEW p \in Transitioners, OldSessionUnstopped(p)
       PROVE  EntryOfThisGeneration'
    BY <1>8 DEF OldSessionUnstopped, Unstopped, Event, Runs, StartNative,
           IsFresh, Free, Goto, schemaVars
  <1>9. ASSUME NEW p \in Transitioners, NativeStarts(p)
       PROVE  EntryOfThisGeneration'
    BY <1>9 DEF NativeStarts, Goto, schemaVars
  <1>10. ASSUME NEW p \in Transitioners, NativeStartFails(p)
       PROVE  EntryOfThisGeneration'
    BY <1>10 DEF NativeStartFails, Runs, Event, Raised, managerVars, schemaVars
  <1>11. ASSUME NEW p \in Transitioners, GenerationBegins(p)
       PROVE  EntryOfThisGeneration'
    BY <1>11 DEF GenerationBegins, Runs, Connected, Task, NoEntry, Goto
  <1>12. ASSUME NEW p \in Transitioners, ServiceOpens(p)
       PROVE  EntryOfThisGeneration'
    BY <1>12 DEF ServiceOpens, Runs, Connected, Task, NoEntry, Goto
  <1>13. ASSUME NEW p \in Transitioners, ServiceFailsToOpen(p)
       PROVE  EntryOfThisGeneration'
    BY <1>13 DEF ServiceFailsToOpen, OpeningRaises, Runs, Event, Raised,
           Connected, Task, NoEntry, Goto
  <1>14. ASSUME NEW p \in Transitioners, BackoffEnds(p)
       PROVE  EntryOfThisGeneration'
    BY <1>14 DEF BackoffEnds, Runs, Goto, managerVars, schemaVars
  <1>15. CASE StopBegins
    BY <1>15 DEF StopBegins, ReconnectCancelled, NoEntry
  <1>16. CASE StopReturns
    BY <1>16 DEF StopReturns, Stopped, Goto, NoEntry
  <1>17. CASE StopRaises
    BY <1>17 DEF StopRaises, Stopped, Event, Goto, NoEntry
  <1>18. CASE OrphanStarts
    BY <1>18 DEF OrphanStarts, taskVars, schemaVars
  <1>19. CASE OrphanFails
    BY <1>19 DEF OrphanFails, Event, managerVars, schemaVars
  <1>20. CASE OpenProceeds
    BY <1>20 DEF OpenProceeds, Goto, managerVars, schemaVars
  <1>21. CASE OpenReturns
    BY <1>21 DEF OpenReturns, OpenerLeaves, Goto, Marked, Task
  <1>22. CASE OpenRaises
    BY <1>22 DEF OpenRaises, OpeningRaises, OpenerLeaves, Event, Goto,
           schemaVars
  <1>23. ASSUME NEW g \in Generations, RefreshBegins(g)
       PROVE  EntryOfThisGeneration'
    BY <1>23 DEF RefreshBegins, Marked, managerVars, taskVars
  <1>24. ASSUME NEW g \in Generations, ServiceFound(g)
       PROVE  EntryOfThisGeneration'
    BY <1>24 DEF ServiceFound, Task, managerVars, taskVars
  <1>25. ASSUME NEW g \in Generations, ServiceNotFound(g)
       PROVE  EntryOfThisGeneration'
    BY <1>25 DEF ServiceNotFound, Event, AfterSchema, Task, managerVars,
           taskVars
  <1>26. ASSUME NEW g \in Generations, OperationsStored(g)
       PROVE  EntryOfThisGeneration'
    BY <1>26 DEF OperationsStored, Stored, Task, managerVars, taskVars
  <1>27. ASSUME NEW g \in Generations, ConversionFails(g)
       PROVE  EntryOfThisGeneration'
    BY <1>27 DEF ConversionFails, Event, AfterSchema, Task, managerVars,
           taskVars
  <1>28. ASSUME NEW g \in Generations, ListenerTold(g)
       PROVE  EntryOfThisGeneration'
    BY <1>28 DEF ListenerTold, Told, NoTask, Task, managerVars, taskVars
  <1>29. CASE UNCHANGED vars
    BY <1>29 DEF vars, managerVars, taskVars, schemaVars
  <1> QED
    BY <1>1, <1>2, <1>3, <1>4, <1>5, <1>6, <1>7, <1>8, <1>9, <1>10, <1>11,
       <1>12, <1>13, <1>14, <1>15, <1>16, <1>17, <1>18, <1>19, <1>20, <1>21,
       <1>22, <1>23, <1>24, <1>25, <1>26, <1>27, <1>28, <1>29
    DEF Next, Proceed, Transition, Stop, Open, Refresh

\* The manager and the native sessions keep their types.
LEMMA ManagerTypeStep ==
  ASSUME IInv, [Next]_vars
  PROVE  ManagerType'
  <1> USE DEF IInv, TypeOK, ManagerType, TasksType, TransitionSound, States,
            NativeStates,
            Starters, Transitioners, Coroutines, Nobody, NoSession, Sessions
  <1>a. ASSUME Event
        PROVE  events' \in 0..MaxEvents
    BY <1>a, SessionAssumption DEF Event
  <1>1. ASSUME NEW s \in Sessions, Lose(s)
       PROVE  ManagerType'
    BY <1>1, <1>a DEF Lose, NotifyDown, schemaVars
  <1>2. CASE TerminatedByStop
    BY <1>2 DEF TerminatedByStop, Usable, NotifyDown, schemaVars
  <1>3. CASE GatewayStops
    BY <1>3 DEF GatewayStops, managerVars, schemaVars
  <1>4. CASE OpenBegins
    BY <1>4, <1>a DEF OpenBegins, Goto, managerVars, schemaVars
  <1>5. CASE ScheduleReconnect
    BY <1>5 DEF ScheduleReconnect, NotPosted, Goto, managerVars, schemaVars
  <1>6. ASSUME NEW p \in Transitioners, TransitionBegins(p)
       PROVE  ManagerType'
    <2>1. CASE session = NoSession
      <3>1. StartNative(p, native)
        BY <1>6, <2>1 DEF TransitionBegins
      <3>2. native' \in [Sessions -> NativeStates]
        BY <3>1, StartNativeAlive
      <3> QED
        BY <1>6, <3>1, <3>2 DEF TransitionBegins, StartNative
    <2>2. CASE session # NoSession
      BY <1>6, <2>2 DEF TransitionBegins
    <2> QED
      BY <2>1, <2>2
  <1>7. ASSUME NEW p \in Transitioners, OldSessionStopped(p)
       PROVE  ManagerType'
    <2>1. [native EXCEPT ![busy[p]] = "STOPPED"] \in [Sessions -> NativeStates]
      OBVIOUS
    <2>2. native' \in [Sessions -> NativeStates]
      BY <1>7, <2>1, StartNativeAlive DEF OldSessionStopped
    <2> QED
      BY <1>7, <2>2 DEF OldSessionStopped, StartNative
  <1>8. ASSUME NEW p \in Transitioners, OldSessionUnstopped(p)
       PROVE  ManagerType'
    <2>1. Unstopped(busy[p]) \in [Sessions -> NativeStates]
      BY DEF Unstopped
    <2>2. native' \in [Sessions -> NativeStates]
      BY <1>8, <2>1, StartNativeAlive DEF OldSessionUnstopped
    <2> QED
      BY <1>8, <1>a, <2>2 DEF OldSessionUnstopped, StartNative
  <1>9. ASSUME NEW p \in Transitioners, NativeStarts(p)
       PROVE  ManagerType'
    BY <1>9 DEF NativeStarts, Goto, schemaVars
  <1>10. ASSUME NEW p \in Transitioners, NativeStartFails(p)
       PROVE  ManagerType'
    BY <1>10, <1>a DEF NativeStartFails, Runs, Raised, managerVars, schemaVars
  <1>11. ASSUME NEW p \in Transitioners, GenerationBegins(p)
       PROVE  ManagerType'
    BY <1>11 DEF GenerationBegins, Runs, Connected, Task, NoEntry, Goto
  <1>12. ASSUME NEW p \in Transitioners, ServiceOpens(p)
       PROVE  ManagerType'
    BY <1>12 DEF ServiceOpens, Runs, Connected, Task, NoEntry, Goto
  <1>13. ASSUME NEW p \in Transitioners, ServiceFailsToOpen(p)
       PROVE  ManagerType'
    BY <1>13, <1>a DEF ServiceFailsToOpen, OpeningRaises, Runs, Raised,
           Connected, Task, NoEntry, Goto
  <1>14. ASSUME NEW p \in Transitioners, BackoffEnds(p)
       PROVE  ManagerType'
    BY <1>14 DEF BackoffEnds, Runs, Goto, managerVars, schemaVars
  <1>15. CASE StopBegins
    BY <1>15 DEF StopBegins, ReconnectCancelled, NoEntry
  <1>16. CASE StopReturns
    BY <1>16 DEF StopReturns, Stopped, Goto, NoEntry
  <1>17. CASE StopRaises
    BY <1>17, <1>a DEF StopRaises, Unstopped, Stopped, Goto, NoEntry
  <1>18. CASE OrphanStarts
    BY <1>18 DEF OrphanStarts, taskVars, schemaVars
  <1>19. CASE OrphanFails
    BY <1>19, <1>a DEF OrphanFails, managerVars, schemaVars
  <1>20. CASE OpenProceeds
    BY <1>20 DEF OpenProceeds, Goto, managerVars, schemaVars
  <1>21. CASE OpenReturns
    BY <1>21 DEF OpenReturns, OpenerLeaves, Goto, Marked, Task
  <1>22. CASE OpenRaises
    BY <1>22, <1>a DEF OpenRaises, OpeningRaises, OpenerLeaves, Goto,
           schemaVars
  <1>23. ASSUME NEW g \in Generations, Refresh(g)
       PROVE  ManagerType'
    <2>1. UNCHANGED <<managerVars, native, missed>>
      BY <1>23 DEF Refresh, RefreshBegins, ServiceFound, ServiceNotFound,
         OperationsStored, ConversionFails, ListenerTold
    <2>2. Event \/ UNCHANGED events
      BY <1>23 DEF Refresh, RefreshBegins, ServiceFound, ServiceNotFound,
         OperationsStored, ConversionFails, ListenerTold
    <2> QED
      BY <2>1, <2>2, <1>a DEF managerVars
  <1>24. CASE UNCHANGED vars
    BY <1>24 DEF vars, managerVars, taskVars, schemaVars
  <1> QED
    BY <1>1, <1>2, <1>3, <1>4, <1>5, <1>6, <1>7, <1>8, <1>9, <1>10, <1>11,
       <1>12, <1>13, <1>14, <1>15, <1>16, <1>17, <1>18, <1>19, <1>20, <1>21,
       <1>22, <1>23, <1>24
    DEF Next, Proceed, Transition, Stop, Open

\* The lock and the coroutines keep their types.
LEMMA TasksTypeStep ==
  ASSUME IInv, [Next]_vars
  PROVE  TasksType'
  <1> USE DEF IInv, TypeOK, ManagerType, TasksType, TransitionSound, Stages,
            InTransition, Starters, Transitioners, Coroutines, Nobody,
            NoSession, Sessions
  <1>1. ASSUME NEW s \in Sessions, Lose(s)
       PROVE  TasksType'
    <2>1. posted' \in [due : BOOLEAN, ahead : SUBSET Coroutines]
      BY <1>1, NotifyDownTyped DEF Lose
    <2> QED
      BY <1>1, <2>1 DEF Lose, schemaVars
  <1>2. CASE TerminatedByStop
    <2>1. posted' \in [due : BOOLEAN, ahead : SUBSET Coroutines]
      BY <1>2, NotifyDownTyped DEF TerminatedByStop
    <2> QED
      BY <1>2, <2>1 DEF TerminatedByStop, schemaVars
  <1>3. CASE GatewayStops
    BY <1>3 DEF GatewayStops, managerVars, schemaVars
  <1>4. CASE OpenBegins
    BY <1>4 DEF OpenBegins, Event, Goto, managerVars, schemaVars
  <1>5. CASE ScheduleReconnect
    BY <1>5 DEF ScheduleReconnect, NotPosted, Goto, managerVars, schemaVars
  <1>6. ASSUME NEW p \in Transitioners, TransitionBegins(p)
       PROVE  TasksType'
    BY <1>6 DEF TransitionBegins, Enters, Runs, StartNative, IsFresh, Free,
           Goto, schemaVars
  <1>7. ASSUME NEW p \in Transitioners, OldSessionStopped(p)
       PROVE  TasksType'
    BY <1>7 DEF OldSessionStopped, Runs, StartNative, IsFresh, Free, Goto,
           schemaVars
  <1>8. ASSUME NEW p \in Transitioners, OldSessionUnstopped(p)
       PROVE  TasksType'
    BY <1>8 DEF OldSessionUnstopped, Unstopped, Event, Runs, StartNative,
           IsFresh, Free, Goto, schemaVars
  <1>9. ASSUME NEW p \in Transitioners, NativeStarts(p)
       PROVE  TasksType'
    BY <1>9 DEF NativeStarts, Goto, schemaVars
  <1>10. ASSUME NEW p \in Transitioners, NativeStartFails(p)
       PROVE  TasksType'
    BY <1>10 DEF NativeStartFails, Runs, Event, Raised, managerVars, schemaVars
  <1>11. ASSUME NEW p \in Transitioners, GenerationBegins(p)
       PROVE  TasksType'
    BY <1>11 DEF GenerationBegins, Runs, Connected, Task, NoEntry, Goto
  <1>12. ASSUME NEW p \in Transitioners, ServiceOpens(p)
       PROVE  TasksType'
    BY <1>12 DEF ServiceOpens, Runs, Connected, Task, NoEntry, Goto
  <1>13. ASSUME NEW p \in Transitioners, ServiceFailsToOpen(p)
       PROVE  TasksType'
    BY <1>13 DEF ServiceFailsToOpen, OpeningRaises, Runs, Event, Raised,
           Connected, Task, NoEntry, Goto
  <1>14. ASSUME NEW p \in Transitioners, BackoffEnds(p)
       PROVE  TasksType'
    BY <1>14 DEF BackoffEnds, Runs, Goto, managerVars, schemaVars
  <1>15. CASE StopBegins
    BY <1>15 DEF StopBegins, ReconnectCancelled, NoEntry
  <1>16. CASE StopReturns
    BY <1>16 DEF StopReturns, Stopped, Goto, NoEntry
  <1>17. CASE StopRaises
    BY <1>17 DEF StopRaises, Stopped, Event, Goto, NoEntry
  <1>18. CASE OrphanStarts
    BY <1>18 DEF OrphanStarts, taskVars, schemaVars
  <1>19. CASE OrphanFails
    BY <1>19 DEF OrphanFails, Event, managerVars, schemaVars
  <1>20. CASE OpenProceeds
    BY <1>20 DEF OpenProceeds, Goto, managerVars, schemaVars
  <1>21. CASE OpenReturns
    BY <1>21 DEF OpenReturns, OpenerLeaves, Goto, Marked, Task
  <1>22. CASE OpenRaises
    BY <1>22 DEF OpenRaises, OpeningRaises, OpenerLeaves, Event, Goto,
           schemaVars
  <1>23. ASSUME NEW g \in Generations, Refresh(g)
       PROVE  TasksType'
    <2>1. UNCHANGED <<managerVars, taskVars, native, missed>>
      BY <1>23 DEF Refresh, RefreshBegins, ServiceFound, ServiceNotFound,
         OperationsStored, ConversionFails, ListenerTold, Event
    <2> QED
      BY <2>1 DEF managerVars, taskVars
  <1>24. CASE UNCHANGED vars
    BY <1>24 DEF vars, managerVars, taskVars, schemaVars
  <1> QED
    BY <1>1, <1>2, <1>3, <1>4, <1>5, <1>6, <1>7, <1>8, <1>9, <1>10, <1>11,
       <1>12, <1>13, <1>14, <1>15, <1>16, <1>17, <1>18, <1>19, <1>20, <1>21,
       <1>22, <1>23, <1>24
    DEF Next, Proceed, Transition, Stop, Open

\* The registry's entry and the tasks of the generations keep their types.
LEMMA SchemasTypeStep ==
  ASSUME IInv, [Next]_vars
  PROVE  SchemasType'
  <1> USE DEF IInv, TypeOK, ManagerType, SchemasType
  <1>a. NoEntry \in EntryType
    BY DEF NoEntry, EntryType, NoSession, Sessions
  <1>b. \A stage \in {"NONE", "DUE", "GET", "CONVERT", "NOTIFY"},
           s \in Sessions \cup {NoSession} : Task(stage, s) \in TaskType
    BY DEF Task, TaskType
  <1>c. Task("DUE", NoSession) \in TaskType
    BY <1>b
  <1>d. Task("GET", NoSession) \in TaskType
    BY <1>b
  <1>e. Marked \in EntryType
    BY DEF Marked, EntryType
  <1>f. \A g \in Generations : AfterSchema(g) \in TaskType
    BY <1>b DEF AfterSchema
  <1>1. ASSUME NEW s \in Sessions, Lose(s)
       PROVE  SchemasType'
    BY <1>1 DEF Lose, NotifyDown, Event, schemaVars
  <1>2. CASE TerminatedByStop
    BY <1>2 DEF TerminatedByStop, Usable, NotifyDown, schemaVars
  <1>3. CASE GatewayStops
    BY <1>3 DEF GatewayStops, managerVars, schemaVars
  <1>4. CASE OpenBegins
    BY <1>4 DEF OpenBegins, Event, Goto, managerVars, schemaVars
  <1>5. CASE ScheduleReconnect
    BY <1>5 DEF ScheduleReconnect, NotPosted, Goto, managerVars, schemaVars
  <1>6. ASSUME NEW p \in Transitioners, TransitionBegins(p)
       PROVE  SchemasType'
    BY <1>6 DEF TransitionBegins, Enters, Runs, StartNative, IsFresh, Free,
           Goto, schemaVars
  <1>7. ASSUME NEW p \in Transitioners, OldSessionStopped(p)
       PROVE  SchemasType'
    BY <1>7 DEF OldSessionStopped, Runs, StartNative, IsFresh, Free, Goto,
           schemaVars
  <1>8. ASSUME NEW p \in Transitioners, OldSessionUnstopped(p)
       PROVE  SchemasType'
    BY <1>8 DEF OldSessionUnstopped, Unstopped, Event, Runs, StartNative,
           IsFresh, Free, Goto, schemaVars
  <1>9. ASSUME NEW p \in Transitioners, NativeStarts(p)
       PROVE  SchemasType'
    BY <1>9 DEF NativeStarts, Goto, schemaVars
  <1>10. ASSUME NEW p \in Transitioners, NativeStartFails(p)
       PROVE  SchemasType'
    BY <1>10 DEF NativeStartFails, Runs, Event, Raised, managerVars, schemaVars
  <1>11. ASSUME NEW p \in Transitioners, GenerationBegins(p)
       PROVE  SchemasType'
    BY <1>11, <1>a, <1>c DEF GenerationBegins, Connected
  <1>12. ASSUME NEW p \in Transitioners, ServiceOpens(p)
       PROVE  SchemasType'
    BY <1>12, <1>a, <1>c DEF ServiceOpens, Connected
  <1>13. ASSUME NEW p \in Transitioners, ServiceFailsToOpen(p)
       PROVE  SchemasType'
    BY <1>13, <1>a, <1>c DEF ServiceFailsToOpen, Connected
  <1>14. ASSUME NEW p \in Transitioners, BackoffEnds(p)
       PROVE  SchemasType'
    BY <1>14 DEF BackoffEnds, Runs, Goto, managerVars, schemaVars
  <1>15. CASE StopBegins
    BY <1>15, <1>a, <1>c DEF StopBegins
  <1>16. CASE StopReturns
    BY <1>16, <1>a, <1>c DEF StopReturns, Stopped
  <1>17. CASE StopRaises
    BY <1>17, <1>a, <1>c DEF StopRaises, Stopped
  <1>18. CASE OrphanStarts
    BY <1>18 DEF OrphanStarts, taskVars, schemaVars
  <1>19. CASE OrphanFails
    BY <1>19 DEF OrphanFails, Event, managerVars, schemaVars
  <1>20. CASE OpenProceeds
    BY <1>20 DEF OpenProceeds, Goto, managerVars, schemaVars
  <1>21. CASE OpenReturns
    BY <1>21, <1>d, <1>e DEF OpenReturns
  <1>22. CASE OpenRaises
    BY <1>22 DEF OpenRaises, OpeningRaises, OpenerLeaves, Event, Goto,
           schemaVars
  <1>23. ASSUME NEW g \in Generations, RefreshBegins(g)
       PROVE  SchemasType'
    BY <1>23, <1>e DEF RefreshBegins, TaskType, managerVars
  <1>24. ASSUME NEW g \in Generations, ServiceFound(g)
       PROVE  SchemasType'
    BY <1>24, <1>b DEF ServiceFound, managerVars, Generations
  <1>25. ASSUME NEW g \in Generations, ServiceNotFound(g)
       PROVE  SchemasType'
    BY <1>25, <1>f DEF ServiceNotFound, managerVars
  <1>26. ASSUME NEW g \in Generations, OperationsStored(g)
       PROVE  SchemasType'
    BY <1>26, <1>f DEF OperationsStored, Stored, EntryType, TaskType,
           NoSession, Sessions, managerVars
  <1>27. ASSUME NEW g \in Generations, ConversionFails(g)
       PROVE  SchemasType'
    BY <1>27, <1>f DEF ConversionFails, managerVars
  <1>28. ASSUME NEW g \in Generations, ListenerTold(g)
       PROVE  SchemasType'
    BY <1>28, <1>b DEF ListenerTold, Told, NoTask, NoSession, managerVars
  <1>29. CASE UNCHANGED vars
    BY <1>29 DEF vars, managerVars, taskVars, schemaVars
  <1> QED
    BY <1>1, <1>2, <1>3, <1>4, <1>5, <1>6, <1>7, <1>8, <1>9, <1>10, <1>11,
       <1>12, <1>13, <1>14, <1>15, <1>16, <1>17, <1>18, <1>19, <1>20, <1>21,
       <1>22, <1>23, <1>24, <1>25, <1>26, <1>27, <1>28, <1>29
    DEF Next, Proceed, Transition, Stop, Open, Refresh

-----------------------------------------------------------------------------
(* The theorems.                                                           *)

\* Nothing is connected, and nobody holds the lock, when the gateway starts.
LEMMA InitIInv == Init => IInv
  <1> SUFFICES ASSUME Init PROVE IInv
    OBVIOUS
  <1>1. NoEntry \in EntryType /\ NoTask \in TaskType
    BY DEF NoEntry, NoTask, Task, EntryType, TaskType, NoSession
  <1>2. ManagerType
    <2>1. state \in States /\ stopping \in BOOLEAN /\ opened \in BOOLEAN
      BY DEF Init, States
    <2>2. generation \in Nat /\ session \in Sessions \cup {NoSession}
      BY DEF Init
    <2>3. native \in [Sessions -> NativeStates]
      BY DEF Init, NativeStates
    <2>4. events \in 0..MaxEvents
      <3>1. MaxEvents \in Nat
        BY SessionAssumption
      <3> QED
        BY <3>1 DEF Init
    <2>5. missed \in BOOLEAN
      BY DEF Init
    <2> QED
      BY <2>1, <2>2, <2>3, <2>4, <2>5 DEF ManagerType
  <1>3. TasksType
    BY DEF Init, TasksType, NotPosted, Stages, InTransition, Coroutines,
           Transitioners, Starters
  <1>4. SchemasType
    BY <1>1 DEF Init, SchemasType
  <1>5. PlacesSound /\ LockSound /\ StopSound /\ TransitionSound
    BY DEF Init, PlacesSound, LockSound, StopSound, TransitionSound, Locked,
           InTransition, Coroutines, Transitioners, Starters, Nobody
  <1>6. ConnectedHasSession /\ AliveSound /\ EntryOfThisGeneration
    BY DEF Init, ConnectedHasSession, AliveSound, LiveSessions, NoEntry,
           EntryOfThisGeneration, Coroutines
  <1> QED
    BY <1>2, <1>3, <1>4, <1>5, <1>6 DEF IInv, TypeOK

\* Every step keeps every part of the invariant.
LEMMA StepIInv == IInv /\ [Next]_vars => IInv'
  <1> SUFFICES ASSUME IInv, [Next]_vars PROVE IInv'
    OBVIOUS
  <1>1. TypeOK'
    BY ManagerTypeStep, TasksTypeStep, SchemasTypeStep DEF TypeOK
  <1>2. PlacesSound' /\ LockSound' /\ StopSound' /\ TransitionSound'
    BY PlacesStep, LockStep, StopStep, TransitionStep
  <1>3. ConnectedHasSession' /\ AliveSound' /\ EntryOfThisGeneration'
    BY ConnectedStep, AliveStep, EntryStep
  <1> QED
    BY <1>1, <1>2, <1>3 DEF IInv

\* The invariant holds in every state that the session can reach.
THEOREM IInvHolds == Spec => []IInv
  BY InitIInv, StepIInv, PTL DEF Spec

\* Type correctness of the manager, the coroutines and the schemas, for every
\* number of failures.
THEOREM SessionTyped == Spec => []TypeOK
  <1>1. IInv => TypeOK
    BY DEF IInv
  <1> QED
    BY <1>1, IInvHolds, PTL

\* CONNECTED is never shown without a session, although losses, failed starts,
\* the stop and its cancellations come between any two awaits.
THEOREM ConnectedIsReal == Spec => []ConnectedHasSession
  <1>1. IInv => ConnectedHasSession
    BY DEF IInv
  <1> QED
    BY <1>1, IInvHolds, PTL

\* The service list that is shown with CONNECTED is of this generation: no
\* refresh that was begun in an older one marks it late.
THEOREM EntriesAreCurrent == Spec => []EntryOfThisGeneration
  <1>1. IInv => EntryOfThisGeneration
    BY DEF IInv
  <1> QED
    BY <1>1, IInvHolds, PTL

\* If the stop has left no start behind, the gateway has one native session at
\* most: the published one, or the one whose start the holder of the lock waits
\* for; and neither when it has stopped.
LEMMA OneIsAlive ==
  ASSUME IInv
  PROVE  OneLiveSession
  <1> SUFFICES ASSUME orphan = NoSession
               PROVE  Cardinality(LiveSessions)
                        <= IF pc["STOPPER"] = "DONE" THEN 0 ELSE 1
    BY DEF OneLiveSession
  <1>1. \A s, t \in LiveSessions : s = t
    BY DEF IInv, AliveSound, Unpublished, LockSound, Locked, InTransition,
           LiveSessions, Sessions, NoSession, Coroutines
  <1>2. pc["STOPPER"] = "DONE" => LiveSessions = {}
    BY DEF IInv, AliveSound, Unpublished, StopSound, LiveSessions, Sessions,
           NoSession, Transitioners, Starters
  <1>3. CASE LiveSessions = {}
    BY <1>3, FS_EmptySet
  <1>4. ASSUME NEW s \in LiveSessions
        PROVE  Cardinality(LiveSessions)
                 <= IF pc["STOPPER"] = "DONE" THEN 0 ELSE 1
    <2>1. LiveSessions = {s}
      BY <1>1, <1>4
    <2>2. pc["STOPPER"] # "DONE"
      BY <1>2, <1>4
    <2> QED
      BY <2>1, <2>2, FS_Singleton
  <1> QED
    BY <1>3, <1>4

\* SPEC.md's single consumer session, as far as the code keeps it: the first
\* start, its retry, the reconnect task and the stop never hold two between
\* them that none of them has tried to stop, and the stop leaves none, unless it
\* has cancelled the retry inside its native start.
THEOREM OneSessionAtATime == Spec => []OneLiveSession
  BY OneIsAlive, IInvHolds, PTL

\* A gateway that has stopped stays stopped: no start, retry or reconnect task
\* is left that could connect again.
THEOREM StoppedStaysQuiet == Spec => []QuietAfterStop
  <1>1. IInv => QuietAfterStop
    BY DEF IInv, StopSound, QuietAfterStop, Transitioners, Starters
  <1> QED
    BY <1>1, IInvHolds, PTL
=============================================================================

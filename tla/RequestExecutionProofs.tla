----------------------- MODULE RequestExecutionProofs -----------------------
(***************************************************************************)
(* Proofs about RequestExecution, for every set of requests and keys and   *)
(* every value of the limits: its invariants, and that it implements       *)
(* RequestContract.                                                        *)
(***************************************************************************)
EXTENDS RequestExecution, FiniteSetTheorems, WellFoundedInduction, TLAPS

-----------------------------------------------------------------------------
(* Type correctness.                                                       *)

LEMMA InitTypeOK == Init => TypeOK
  BY ConstantsAssumption
  DEF Init, TypeOK, Statuses, InFlightStatuses, TerminalStatuses, Holding,
      ErrorCodes, StreamErrors, Items

LEMMA TailTyped ==
  ASSUME NEW s \in Seq(Items), s # << >>
  PROVE  Tail(s) \in Seq(Items)
  OBVIOUS

LEMMA EmptyTyped == << >> \in Seq(Items)
  OBVIOUS

LEMMA NextTypeOK == TypeOK /\ [Next]_vars => TypeOK'
  <1> SUFFICES ASSUME TypeOK, [Next]_vars PROVE TypeOK'
    OBVIOUS
  <1> USE ConstantsAssumption
      DEF TypeOK, Statuses, InFlightStatuses, TerminalStatuses, Holding,
          ErrorCodes, callVars, recordVars, registryVars, semaphoreVars,
          nativeVars
  <1>1. ASSUME NEW r \in Requests, NEW k \in Keys \cup {NoKey},
               SubmitReplay(r, k)
        PROVE  TypeOK'
    BY <1>1 DEF SubmitReplay, ReplayTarget
  <1>2. ASSUME NEW r \in Requests, NEW k \in Keys \cup {NoKey},
               SubmitRefused(r, k)
        PROVE  TypeOK'
    BY <1>2 DEF SubmitRefused
  <1>3. ASSUME NEW r \in Requests, NEW k \in Keys \cup {NoKey},
               SubmitDenied(r, k)
        PROVE  TypeOK'
    BY <1>3 DEF SubmitDenied, AfterInsert
  <1>4. ASSUME NEW r \in Requests, NEW k \in Keys \cup {NoKey},
               SubmitRegister(r, k)
        PROVE  TypeOK'
    BY <1>4 DEF SubmitRegister, AfterInsert
  <1>5. ASSUME NEW r \in Requests, AdmissionReturns(r) PROVE TypeOK'
    <2>1. waiters' \in Seq(Requests)
      BY <1>5 DEF AdmissionReturns
    <2>2. dedup' \in [Keys -> Requests \cup {NoRequest}]
      BY <1>5 DEF AdmissionReturns
    <2> QED
      BY <1>5, <2>1, <2>2 DEF AdmissionReturns
  <1>6. ASSUME NEW r \in Requests, WaitElapses(r) PROVE TypeOK'
    BY <1>6 DEF WaitElapses
  <1>7. ASSUME NEW r \in Requests, AnswerDone(r) PROVE TypeOK'
    BY <1>7 DEF AnswerDone
  <1>8. ASSUME NEW r \in Requests, Disconnect(r) PROVE TypeOK'
    BY <1>8 DEF Disconnect
  <1>9. ASSUME NEW r \in Requests, AcquireCancelled(r) PROVE TypeOK'
    BY <1>9 DEF AcquireCancelled, IsNext
  <1>10. ASSUME NEW r \in Requests, AcquireAndSubmit(r) PROVE TypeOK'
    BY <1>10 DEF AcquireAndSubmit, IsNext
  <1>11. ASSUME NEW r \in Requests,
                BackendRefuses(r) \/ BuildRefused(r) \/ BackendFails(r)
         PROVE  TypeOK'
    <2>1. /\ \E code \in ErrorCodes : SubmissionFails(r, code)
          /\ leases' \subseteq leases
      BY <1>11
      DEF BackendRefuses, BuildRefused, BackendFails, ErrorCodes, StreamErrors
    <2> QED
      BY <2>1 DEF SubmissionFails
  <1>12a. ASSUME NEW r \in Requests, LeaseTaken(r) PROVE TypeOK'
    BY <1>12a DEF LeaseTaken
  <1>12. ASSUME NEW r \in Requests, BackendAccepts(r) PROVE TypeOK'
    BY <1>12 DEF BackendAccepts, LoopTop
  <1>13. ASSUME NEW r \in Requests, ConsumePartial(r) PROVE TypeOK'
    <2>1. inbox' \in [Requests -> Seq(Items)]
      BY <1>13, TailTyped DEF ConsumePartial, NextItem
    <2>2. received' \in [Requests -> Nat]
      BY <1>13 DEF ConsumePartial
    <2> QED
      BY <1>13, <2>1, <2>2 DEF ConsumePartial, LoopTop
  <1>14. ASSUME NEW r \in Requests, ConsumeOversize(r) PROVE TypeOK'
    <2>1. inbox' \in [Requests -> Seq(Items)]
      BY <1>14, TailTyped DEF ConsumeOversize, NextItem
    <2> QED
      BY <1>14, <2>1 DEF ConsumeOversize, WithinBudget
  <1>15. ASSUME NEW r \in Requests, ConsumeError(r) PROVE TypeOK'
    <2>1. inbox' \in [Requests -> Seq(Items)]
      BY <1>15, EmptyTyped DEF ConsumeError, Finish
    <2>2. status' \in [Requests -> Statuses \cup {"NONE"}]
      BY <1>15 DEF ConsumeError, Statuses, InFlightStatuses, TerminalStatuses
    <2>3. error' \in [Requests -> ErrorCodes \cup {"NONE"}]
      BY <1>15 DEF ConsumeError, ErrorCodes, StreamErrors
    <2>4. authFailures' \in 0 .. CircuitThreshold
      <3>1. CountAuthFailure \/ UNCHANGED authFailures
        BY <1>15 DEF ConsumeError
      <3> QED
        BY <3>1 DEF CountAuthFailure, CircuitOpen
    <2>5. /\ Finish(r)
          /\ UNCHANGED <<callVars, final, received, registryVars, waiters,
                         cancelSent, expired, acked>>
      BY <1>15 DEF ConsumeError
    <2> QED
      BY <2>1, <2>2, <2>3, <2>4, <2>5 DEF Finish
  <1>16. ASSUME NEW r \in Requests, ConsumeResponse(r) PROVE TypeOK'
    <2>1. inbox' \in [Requests -> Seq(Items)]
      BY <1>16, EmptyTyped DEF ConsumeResponse, Finish
    <2>2. PICK content \in {"DATA", "ARTIFACT", "ERROR", "NONE"} :
            /\ final' = [final EXCEPT ![r] = content]
            /\ status' = [status EXCEPT ![r] =
                 IF content \in {"DATA", "ARTIFACT"}
                 THEN "COMPLETED" ELSE "FAILED"]
            /\ error' = [error EXCEPT ![r] =
                 CASE content = "ERROR" -> "NO_NORMALIZER"
                   [] content = "NONE" -> "INTERNAL"
                   [] OTHER -> @]
      BY <1>16 DEF ConsumeResponse
    <2>3. status' \in [Requests -> Statuses \cup {"NONE"}]
      BY <2>2 DEF Statuses, TerminalStatuses
    <2>4. error' \in [Requests -> ErrorCodes \cup {"NONE"}]
      BY <2>2 DEF ErrorCodes
    <2>5. authFailures' \in 0 .. CircuitThreshold
      BY <1>16 DEF ConsumeResponse, CountAuthFailure, CircuitOpen
    <2>6. received' \in [Requests -> Nat]
      BY <1>16 DEF ConsumeResponse, WithinBudget
    <2>7. /\ Finish(r)
          /\ UNCHANGED <<callVars, registryVars, waiters, cancelSent, expired,
                         acked>>
      BY <1>16 DEF ConsumeResponse
    <2>8. final' \in [Requests -> {"NONE", "DATA", "ARTIFACT", "ERROR"}]
      BY <2>2
    <2>9. /\ runner' \in [Requests -> {"NONE", "WAITING", "DONE"} \cup Holding]
          /\ permits' \in Nat /\ tokens' \subseteq Requests
          /\ leases' \subseteq Requests
      BY <2>7 DEF Finish
    <2> QED
      BY <2>1, <2>3, <2>4, <2>5, <2>6, <2>7, <2>8, <2>9
  <1>17. ASSUME NEW r \in Requests, DeadlineReached(r) PROVE TypeOK'
    BY <1>17 DEF DeadlineReached, LoopTop
  <1>18. ASSUME NEW r \in Requests, AbortReturns(r) PROVE TypeOK'
    <2>1. inbox' \in [Requests -> Seq(Items)]
      BY <1>18, EmptyTyped DEF AbortReturns, Finish
    <2>2. error' \in [Requests -> ErrorCodes \cup {"NONE"}]
      BY <1>18 DEF AbortReturns, StreamErrors
    <2> QED
      BY <1>18, <2>1, <2>2 DEF AbortReturns, Finish
  <1>19. ASSUME NEW r \in Requests, ReaderPosts(r) PROVE TypeOK'
    <2>1. inbox' \in [Requests -> Seq(Items)]
      BY <1>19 DEF ReaderPosts
    <2> QED
      BY <1>19, <2>1 DEF ReaderPosts
  <1>20. ASSUME NEW r \in Requests, Cancel(r) PROVE TypeOK'
    BY <1>20 DEF Cancel
  <1>21. ASSUME NEW r \in Requests, DeadlinePasses(r) PROVE TypeOK'
    BY <1>21 DEF DeadlinePasses
  <1>22. ASSUME NEW r \in Requests, SweepRecord(r) PROVE TypeOK'
    BY <1>22 DEF SweepRecord
  <1>23. ASSUME NEW k \in Keys, DedupExpires(k) PROVE TypeOK'
    BY <1>23 DEF DedupExpires
  <1>24. CASE UNCHANGED vars
    BY <1>24 DEF vars
  <1> QED
    BY <1>1, <1>2, <1>3, <1>4, <1>5, <1>6, <1>7, <1>8, <1>9, <1>10, <1>11,
       <1>12a, <1>12, <1>13, <1>14, <1>15, <1>16, <1>17, <1>18, <1>19, <1>20,
       <1>21,
       <1>22, <1>23, <1>24
    DEF Next, Submit, Call, Task

\* The state of the executor, the registry and the backend keeps its type.
THEOREM TypeCorrect == Spec => []TypeOK
  <1>1. Init => TypeOK
    BY InitTypeOK
  <1>2. TypeOK /\ [Next]_vars => TypeOK'
    BY NextTypeOK
  <1> QED
    BY <1>1, <1>2, PTL DEF Spec

-----------------------------------------------------------------------------
(* Where a call, its task and its record are, relative to each other.      *)

\* A call that was not admitted (yet) has no task; it has a record status as
\* soon as, and only if, it was registered.
Lockstep ==
  /\ \A r \in Requests :
       handler[r] \in {"IDLE", "REPLAYED", "REFUSED"} <=> status[r] = "NONE"
  /\ \A r \in Requests :
       handler[r] \in {"IDLE", "ADMITTING", "REPLAYED", "REFUSED"} =>
         runner[r] = "NONE"
  /\ \A r \in registered : status[r] # "NONE"

\* The waiting line holds each waiting task once, and nobody else.
LineInv ==
  /\ \A i \in 1 .. Len(waiters) : runner[waiters[i]] = "WAITING"
  /\ \A i, j \in 1 .. Len(waiters) : waiters[i] = waiters[j] => i = j
  /\ \A r \in Requests : runner[r] = "WAITING" =>
       \E i \in 1 .. Len(waiters) : waiters[i] = r

LEMMA InitLockstep == Init => Lockstep
  BY DEF Init, Lockstep

LEMMA NextLockstep == TypeOK /\ Lockstep /\ LineInv /\ [Next]_vars => Lockstep'
  <1> SUFFICES ASSUME TypeOK, Lockstep, LineInv, [Next]_vars PROVE Lockstep'
    OBVIOUS
  <1> USE ConstantsAssumption
      DEF Lockstep, callVars, recordVars, registryVars, semaphoreVars,
          nativeVars
  <1>t. /\ handler \in [Requests -> {"IDLE", "ADMITTING", "WAITING", "ANSWERED",
                               "REPLAYED", "REFUSED", "GONE"}]
        /\ runner \in [Requests -> {"NONE", "WAITING", "DONE"} \cup Holding]
        /\ status \in [Requests -> Statuses \cup {"NONE"}]
        /\ registered \subseteq Requests
        /\ waiters \in Seq(Requests)
    BY DEF TypeOK
  <1>1. ASSUME NEW r \in Requests, NEW k \in Keys \cup {NoKey},
               SubmitReplay(r, k) \/ SubmitRefused(r, k)
        PROVE  Lockstep'
    BY <1>1, <1>t DEF SubmitReplay, SubmitRefused
  <1>2. ASSUME NEW r \in Requests, NEW k \in Keys \cup {NoKey},
               SubmitDenied(r, k)
        PROVE  Lockstep'
    BY <1>2, <1>t DEF SubmitDenied, AfterInsert
  <1>3. ASSUME NEW r \in Requests, NEW k \in Keys \cup {NoKey},
               SubmitRegister(r, k)
        PROVE  Lockstep'
    BY <1>3, <1>t DEF SubmitRegister, AfterInsert
  <1>4. ASSUME NEW r \in Requests,
               AdmissionReturns(r) \/ WaitElapses(r) \/ AnswerDone(r)
                 \/ Disconnect(r)
        PROVE  Lockstep'
    BY <1>4, <1>t DEF AdmissionReturns, WaitElapses, AnswerDone, Disconnect
  <1>5. ASSUME NEW r \in Requests, AcquireCancelled(r) \/ AcquireAndSubmit(r)
        PROVE  Lockstep'
    <2>1. runner[r] = "WAITING"
      BY <1>5, <1>t DEF AcquireCancelled, AcquireAndSubmit, IsNext, LineInv
    <2> QED
      BY <1>5, <1>t, <2>1 DEF AcquireCancelled, AcquireAndSubmit
  <1>6. ASSUME NEW r \in Requests,
               BackendRefuses(r) \/ BuildRefused(r) \/ BackendFails(r)
                 \/ LeaseTaken(r) \/ BackendAccepts(r) \/ DeadlineReached(r)
        PROVE  Lockstep'
    BY <1>6, <1>t
    DEF BackendRefuses, BuildRefused, BackendFails, SubmissionFails,
        LeaseTaken, BackendAccepts, DeadlineReached, LoopTop
  <1>7. ASSUME NEW r \in Requests, ConsumePartial(r) \/ ConsumeOversize(r)
        PROVE  Lockstep'
    BY <1>7, <1>t DEF ConsumePartial, ConsumeOversize, NextItem, LoopTop
  <1>8. ASSUME NEW r \in Requests,
               ConsumeError(r) \/ ConsumeResponse(r) \/ AbortReturns(r)
        PROVE  Lockstep'
    <2>1. /\ runner[r] \in Holding
          /\ runner' = [runner EXCEPT ![r] = "DONE"]
          /\ UNCHANGED <<handler, registered>>
      BY <1>8, <1>t
      DEF ConsumeError, ConsumeResponse, AbortReturns, NextItem, Finish, Holding
    <2>2. \E s \in TerminalStatuses : status' = [status EXCEPT ![r] = s]
      BY <1>8
      DEF ConsumeError, ConsumeResponse, AbortReturns, TerminalStatuses
    <2> QED
      BY <1>t, <2>1, <2>2 DEF Holding, TerminalStatuses
  <1>9. ASSUME NEW r \in Requests, ReaderPosts(r) PROVE Lockstep'
    BY <1>9 DEF ReaderPosts
  <1>10. ASSUME NEW r \in Requests, Cancel(r) PROVE Lockstep'
    BY <1>10, <1>t DEF Cancel
  <1>11. ASSUME NEW r \in Requests, DeadlinePasses(r) \/ SweepRecord(r)
         PROVE  Lockstep'
    BY <1>11 DEF DeadlinePasses, SweepRecord
  <1>12. ASSUME NEW k \in Keys, DedupExpires(k) PROVE Lockstep'
    BY <1>12 DEF DedupExpires
  <1>13. CASE UNCHANGED vars
    BY <1>13 DEF vars
  <1> QED
    BY <1>1, <1>2, <1>3, <1>4, <1>5, <1>6, <1>7, <1>8, <1>9, <1>10, <1>11,
       <1>12, <1>13
    DEF Next, Submit, Call, Task

LEMMA InitLine == Init => LineInv
  BY DEF Init, LineInv

LEMMA NextLine == TypeOK /\ Lockstep /\ LineInv /\ [Next]_vars => LineInv'
  <1> SUFFICES ASSUME TypeOK, Lockstep, LineInv, [Next]_vars PROVE LineInv'
    OBVIOUS
  <1> USE ConstantsAssumption
      DEF LineInv, callVars, recordVars, registryVars, semaphoreVars,
          nativeVars
  <1>t. /\ handler \in [Requests -> {"IDLE", "ADMITTING", "WAITING", "ANSWERED",
                               "REPLAYED", "REFUSED", "GONE"}]
        /\ runner \in [Requests -> {"NONE", "WAITING", "DONE"} \cup Holding]
        /\ waiters \in Seq(Requests)
    BY DEF TypeOK
  <1>u. ASSUME UNCHANGED <<runner, waiters>> PROVE LineInv'
    BY <1>u
  <1>h. ASSUME NEW r \in Requests, UNCHANGED waiters, runner[r] \in Holding,
               NEW where \in Holding \cup {"DONE"},
               runner' = [runner EXCEPT ![r] = where]
        PROVE  LineInv'
    BY <1>h, <1>t DEF Holding
  <1>1. ASSUME NEW r \in Requests, NEW k \in Keys \cup {NoKey},
               SubmitReplay(r, k) \/ SubmitRefused(r, k) \/ SubmitDenied(r, k)
                 \/ SubmitRegister(r, k)
        PROVE  LineInv'
    BY <1>1, <1>u
    DEF SubmitReplay, SubmitRefused, SubmitDenied, SubmitRegister
  <1>2. ASSUME NEW r \in Requests, AdmissionReturns(r) PROVE LineInv'
    <2>1. /\ runner[r] = "NONE"
          /\ runner' = [runner EXCEPT ![r] = "WAITING"]
          /\ waiters' = Append(waiters, r)
      BY <1>2 DEF AdmissionReturns, Lockstep
    <2> QED
      BY <1>t, <2>1
  <1>3. ASSUME NEW r \in Requests,
               WaitElapses(r) \/ AnswerDone(r) \/ Disconnect(r)
        PROVE  LineInv'
    BY <1>3, <1>u DEF WaitElapses, AnswerDone, Disconnect
  <1>4. ASSUME NEW r \in Requests, AcquireCancelled(r) \/ AcquireAndSubmit(r)
        PROVE  LineInv'
    <2>1. PICK where \in {"DONE", "SUBMITTING"} :
            /\ waiters # << >>
            /\ r = Head(waiters)
            /\ waiters' = Tail(waiters)
            /\ runner' = [runner EXCEPT ![r] = where]
      BY <1>4 DEF AcquireCancelled, AcquireAndSubmit, IsNext
    <2>2. /\ Len(waiters') = Len(waiters) - 1
          /\ \A i \in 1 .. Len(waiters') : waiters'[i] = waiters[i + 1]
      BY <1>t, <2>1
    <2>3. \A i \in 1 .. Len(waiters') : waiters'[i] # r /\ waiters'[i] \in Requests
      BY <1>t, <2>1, <2>2
    <2>4. \A i \in 1 .. Len(waiters') : runner'[waiters'[i]] = "WAITING"
      BY <1>t, <2>1, <2>2, <2>3
    <2>5. \A i, j \in 1 .. Len(waiters') : waiters'[i] = waiters'[j] => i = j
      BY <1>t, <2>1, <2>2
    <2>6. ASSUME NEW q \in Requests, runner'[q] = "WAITING"
          PROVE  \E i \in 1 .. Len(waiters') : waiters'[i] = q
      <3>1. q # r /\ runner[q] = "WAITING"
        BY <1>t, <2>1, <2>6
      <3>2. PICK j \in 1 .. Len(waiters) : waiters[j] = q
        BY <3>1
      <3>3. j # 1
        BY <1>t, <2>1, <3>1, <3>2
      <3>4. j - 1 \in 1 .. Len(waiters') /\ waiters'[j - 1] = q
        BY <1>t, <2>2, <3>2, <3>3
      <3> QED
        BY <3>4
    <2> QED
      BY <2>4, <2>5, <2>6
  <1>5. ASSUME NEW r \in Requests,
               BackendRefuses(r) \/ BuildRefused(r) \/ BackendFails(r)
                 \/ LeaseTaken(r)
        PROVE  LineInv'
    BY <1>5, <1>h
    DEF BackendRefuses, BuildRefused, BackendFails, SubmissionFails,
        LeaseTaken, Holding
  <1>6. ASSUME NEW r \in Requests,
               BackendAccepts(r) \/ DeadlineReached(r) \/ ConsumePartial(r)
        PROVE  LineInv'
    <2>1. /\ UNCHANGED waiters
          /\ runner[r] \in Holding
          /\ LoopTop(r)
      BY <1>6
      DEF BackendAccepts, DeadlineReached, ConsumePartial, NextItem, Holding
    <2>2. \E where \in Holding : runner' = [runner EXCEPT ![r] = where]
      BY <2>1 DEF LoopTop, Holding
    <2> QED
      BY <2>1, <2>2, <1>h
  <1>7. ASSUME NEW r \in Requests, ConsumeOversize(r) PROVE LineInv'
    <2>1. /\ UNCHANGED waiters
          /\ runner[r] \in Holding
          /\ runner' = [runner EXCEPT ![r] = "OVERSIZE"]
      BY <1>7 DEF ConsumeOversize, NextItem, Holding
    <2> QED
      BY <2>1, <1>h DEF Holding
  <1>8. ASSUME NEW r \in Requests,
               ConsumeError(r) \/ ConsumeResponse(r) \/ AbortReturns(r)
        PROVE  LineInv'
    <2>1. /\ UNCHANGED waiters
          /\ runner[r] \in Holding
          /\ runner' = [runner EXCEPT ![r] = "DONE"]
      BY <1>8
      DEF ConsumeError, ConsumeResponse, AbortReturns, NextItem, Finish, Holding
    <2> QED
      BY <2>1, <1>h
  <1>9. ASSUME NEW r \in Requests,
               ReaderPosts(r) \/ Cancel(r) \/ DeadlinePasses(r) \/ SweepRecord(r)
        PROVE  LineInv'
    BY <1>9, <1>u DEF ReaderPosts, Cancel, DeadlinePasses, SweepRecord
  <1>10. ASSUME NEW k \in Keys, DedupExpires(k) PROVE LineInv'
    BY <1>10, <1>u DEF DedupExpires
  <1>11. CASE UNCHANGED vars
    BY <1>11, <1>u DEF vars
  <1> QED
    BY <1>1, <1>2, <1>3, <1>4, <1>5, <1>6, <1>7, <1>8, <1>9, <1>10, <1>11
    DEF Next, Submit, Call, Task

\* Both facts hold of every reachable state.
THEOREM AlwaysLined == Spec => [](TypeOK /\ Lockstep /\ LineInv)
  <1>1. Init => TypeOK /\ Lockstep /\ LineInv
    BY InitTypeOK, InitLockstep, InitLine
  <1>2. TypeOK /\ Lockstep /\ LineInv /\ [Next]_vars
          => (TypeOK /\ Lockstep /\ LineInv)'
    BY NextTypeOK, NextLockstep, NextLine
  <1> QED
    BY <1>1, <1>2, PTL DEF Spec

-----------------------------------------------------------------------------
(* Permits.                                                                *)

\* What a step of the task r that holds a permit does to the permit.
KeepsPermit(r) ==
  /\ runner[r] \in Holding
  /\ \E where \in Holding : runner' = [runner EXCEPT ![r] = where]
  /\ UNCHANGED <<permits, waiters, handler, registered, final>>

ReturnsPermit(r) ==
  /\ runner[r] \in Holding
  /\ runner' = [runner EXCEPT ![r] = "DONE"]
  /\ permits' = permits + 1
  /\ UNCHANGED <<waiters, handler, registered>>

LEMMA HolderSteps ==
  ASSUME NEW r \in Requests
  PROVE  /\ LeaseTaken(r) \/ BackendAccepts(r) \/ ConsumePartial(r)
              \/ ConsumeOversize(r) \/ DeadlineReached(r)
            => KeepsPermit(r)
         /\ BackendRefuses(r) \/ BuildRefused(r) \/ BackendFails(r)
              \/ ConsumeError(r) \/ ConsumeResponse(r) \/ AbortReturns(r)
            => ReturnsPermit(r)
  <1> USE DEF callVars, recordVars, registryVars, semaphoreVars, nativeVars
  <1>1. ASSUME LoopTop(r)
        PROVE  \E where \in Holding : runner' = [runner EXCEPT ![r] = where]
    BY <1>1 DEF LoopTop, Holding
  <1>2. LeaseTaken(r) \/ BackendAccepts(r) => KeepsPermit(r)
    BY <1>1 DEF LeaseTaken, BackendAccepts, KeepsPermit, Holding
  <1>3. ConsumePartial(r) => KeepsPermit(r)
    BY <1>1 DEF ConsumePartial, NextItem, KeepsPermit, Holding
  <1>4. ConsumeOversize(r) => KeepsPermit(r)
    BY DEF ConsumeOversize, NextItem, KeepsPermit, Holding
  <1>5. DeadlineReached(r) => KeepsPermit(r)
    BY <1>1 DEF DeadlineReached, KeepsPermit, Holding
  <1>6. BackendRefuses(r) \/ BuildRefused(r) \/ BackendFails(r) => ReturnsPermit(r)
    BY DEF BackendRefuses, BuildRefused, BackendFails, SubmissionFails,
           ReturnsPermit, Holding
  <1>7. ConsumeError(r) => ReturnsPermit(r)
    BY DEF ConsumeError, NextItem, Finish, ReturnsPermit, Holding
  <1>8. ConsumeResponse(r) => ReturnsPermit(r)
    BY DEF ConsumeResponse, NextItem, Finish, ReturnsPermit, Holding
  <1>9. AbortReturns(r) => ReturnsPermit(r)
    BY DEF AbortReturns, Finish, ReturnsPermit, Holding
  <1> QED
    BY <1>2, <1>3, <1>4, <1>5, <1>6, <1>7, <1>8, <1>9

\* Every step of the system, by what it does to tasks and permits.
LEMMA StepKinds ==
  ASSUME [Next]_vars
  PROVE  \/ UNCHANGED <<runner, permits, waiters>>
         \/ \E r \in Requests : AdmissionReturns(r)
         \/ \E r \in Requests : AcquireCancelled(r)
         \/ \E r \in Requests : AcquireAndSubmit(r)
         \/ \E r \in Requests : KeepsPermit(r)
         \/ \E r \in Requests : ReturnsPermit(r)
  <1> USE DEF callVars, recordVars, registryVars, semaphoreVars, nativeVars
  <1>1. ASSUME NEW r \in Requests, Submit(r)
        PROVE  UNCHANGED <<runner, permits, waiters>>
    BY <1>1
    DEF Submit, SubmitReplay, SubmitRefused, SubmitDenied, SubmitRegister
  <1>2. ASSUME NEW r \in Requests, Call(r)
        PROVE  UNCHANGED <<runner, permits, waiters>> \/ AdmissionReturns(r)
    BY <1>2 DEF Call, WaitElapses, AnswerDone
  <1>3. ASSUME NEW r \in Requests,
               Disconnect(r) \/ ReaderPosts(r) \/ Cancel(r) \/ DeadlinePasses(r)
                 \/ SweepRecord(r)
        PROVE  UNCHANGED <<runner, permits, waiters>>
    BY <1>3
    DEF Disconnect, ReaderPosts, Cancel, DeadlinePasses, SweepRecord
  <1>4. ASSUME NEW r \in Requests, Task(r)
        PROVE  \/ AcquireCancelled(r)
               \/ AcquireAndSubmit(r)
               \/ KeepsPermit(r)
               \/ ReturnsPermit(r)
    BY <1>4, HolderSteps DEF Task
  <1>5. ASSUME NEW k \in Keys, DedupExpires(k)
        PROVE  UNCHANGED <<runner, permits, waiters>>
    BY <1>5 DEF DedupExpires
  <1>6. CASE UNCHANGED vars
    BY <1>6 DEF vars
  <1> QED
    BY <1>1, <1>2, <1>3, <1>4, <1>5, <1>6 DEF Next

LEMMA RunningFinite == IsFiniteSet(Running) /\ Cardinality(Running) \in Nat
  BY ConstantsAssumption, FS_Subset, FS_CardinalityType DEF Running

LEMMA InitPermits == Init => PermitsAccounted
  <1> SUFFICES ASSUME Init PROVE PermitsAccounted
    OBVIOUS
  <1>1. Running = {}
    BY DEF Init, Running, Holding
  <1> QED
    BY <1>1, FS_EmptySet, ConstantsAssumption DEF Init, PermitsAccounted

LEMMA NextPermits ==
  TypeOK /\ Lockstep /\ LineInv /\ PermitsAccounted /\ [Next]_vars
    => PermitsAccounted'
  <1> SUFFICES ASSUME TypeOK, Lockstep, LineInv, PermitsAccounted, [Next]_vars
               PROVE  PermitsAccounted'
    OBVIOUS
  <1>t. /\ runner \in [Requests -> {"NONE", "WAITING", "DONE"} \cup Holding]
        /\ waiters \in Seq(Requests)
        /\ permits \in Nat
        /\ MaxConcurrent \in Nat
        /\ permits + Cardinality(Running) = MaxConcurrent
    BY ConstantsAssumption DEF TypeOK, PermitsAccounted
  <1>1. CASE UNCHANGED <<runner, permits, waiters>>
    <2>1. Running' = Running
      BY <1>1 DEF Running
    <2> QED
      BY <1>1, <1>t, <2>1 DEF PermitsAccounted
  <1>2. ASSUME NEW r \in Requests, AdmissionReturns(r)
        PROVE  PermitsAccounted'
    <2>1. /\ runner[r] = "NONE"
          /\ runner' = [runner EXCEPT ![r] = "WAITING"]
          /\ permits' = permits
      BY <1>2 DEF AdmissionReturns, Lockstep
    <2>2. Running' = Running
      BY <1>t, <2>1 DEF Running, Holding
    <2> QED
      BY <1>t, <2>1, <2>2 DEF PermitsAccounted
  <1>3. ASSUME NEW r \in Requests, AcquireCancelled(r)
        PROVE  PermitsAccounted'
    <2>1. /\ runner[r] = "WAITING"
          /\ runner' = [runner EXCEPT ![r] = "DONE"]
          /\ permits' = permits
      BY <1>3, <1>t DEF AcquireCancelled, IsNext, LineInv
    <2>2. Running' = Running
      BY <1>t, <2>1 DEF Running, Holding
    <2> QED
      BY <1>t, <2>1, <2>2 DEF PermitsAccounted
  <1>4. ASSUME NEW r \in Requests, AcquireAndSubmit(r)
        PROVE  PermitsAccounted'
    <2>1. /\ runner[r] = "WAITING"
          /\ runner' = [runner EXCEPT ![r] = "SUBMITTING"]
          /\ permits > 0
          /\ permits' = permits - 1
      BY <1>4, <1>t DEF AcquireAndSubmit, IsNext, LineInv
    <2>2. Running' = Running \cup {r} /\ r \notin Running
      BY <1>t, <2>1 DEF Running, Holding
    <2>3. Cardinality(Running \cup {r}) = Cardinality(Running) + 1
      BY <2>2, RunningFinite, FS_AddElement
    <2> QED
      BY <1>t, <2>1, <2>2, <2>3, RunningFinite DEF PermitsAccounted
  <1>5. ASSUME NEW r \in Requests, KeepsPermit(r)
        PROVE  PermitsAccounted'
    <2>1. Running' = Running /\ permits' = permits
      BY <1>5, <1>t DEF KeepsPermit, Running
    <2> QED
      BY <1>t, <2>1 DEF PermitsAccounted
  <1>6. ASSUME NEW r \in Requests, ReturnsPermit(r)
        PROVE  PermitsAccounted'
    <2>1. /\ r \in Running
          /\ Running' = Running \ {r}
          /\ permits' = permits + 1
      BY <1>6, <1>t DEF ReturnsPermit, Running, Holding
    <2>2. Cardinality(Running \ {r}) = Cardinality(Running) - 1
      BY <2>1, RunningFinite, FS_RemoveElement
    <2> QED
      BY <1>t, <2>1, <2>2, RunningFinite DEF PermitsAccounted
  <1> QED
    BY <1>1, <1>2, <1>3, <1>4, <1>5, <1>6, StepKinds

\* However a task ends, it gives back exactly the permit it took.
THEOREM PermitsSafe == Spec => []PermitsAccounted
  <1>1. Init => PermitsAccounted
    BY InitPermits
  <1>2. TypeOK /\ Lockstep /\ LineInv /\ PermitsAccounted /\ [Next]_vars
          => PermitsAccounted'
    BY NextPermits
  <1> QED
    BY <1>1, <1>2, AlwaysLined, PTL DEF Spec

-----------------------------------------------------------------------------
(* Outcomes.                                                               *)

\* What a step may do to the record of r: nothing, a change between
\* unfinished statuses, or the end of its task with a matching outcome.
KeepsRecords == UNCHANGED <<runner, status, error, final>>

MovesOn(r) ==
  /\ runner[r] # "DONE" /\ runner'[r] # "DONE"
  /\ status'[r] \notin TerminalStatuses
  /\ \A q \in Requests \ {r} :
       status'[q] = status[q] /\ (runner'[q] = "DONE" <=> runner[q] = "DONE")
  /\ UNCHANGED <<error, final>>

Ends(r) ==
  /\ runner[r] # "DONE" /\ runner' = [runner EXCEPT ![r] = "DONE"]
  /\ \E s \in TerminalStatuses, e \in ErrorCodes \cup {"NONE"},
        f \in {"NONE", "DATA", "ARTIFACT", "ERROR"} :
       /\ status' = [status EXCEPT ![r] = s]
       /\ error' = [error EXCEPT ![r] = e]
       /\ final' = [final EXCEPT ![r] = f]
       /\ s = "COMPLETED" <=> f \in {"DATA", "ARTIFACT"}
       /\ e = "NONE" => s \notin {"FAILED", "TIMED_OUT"}
       /\ s = "TIMED_OUT" <=> e = "TIMEOUT"
       /\ e = "CANCELLED" => s = "CANCELLED"

LEMMA TaskEnds ==
  ASSUME TypeOK, Lockstep, LineInv, OutcomeConsistent, NEW r \in Requests,
         AcquireCancelled(r) \/ BackendRefuses(r) \/ BuildRefused(r) \/ BackendFails(r)
           \/ ConsumeError(r) \/ ConsumeResponse(r) \/ AbortReturns(r)
  PROVE  Ends(r)
  <1> USE DEF callVars, recordVars, registryVars, semaphoreVars, nativeVars
  <1>t. /\ runner \in [Requests -> {"NONE", "WAITING", "DONE"} \cup Holding]
        /\ status \in [Requests -> Statuses \cup {"NONE"}]
        /\ error \in [Requests -> ErrorCodes \cup {"NONE"}]
        /\ final \in [Requests -> {"NONE", "DATA", "ARTIFACT", "ERROR"}]
        /\ waiters \in Seq(Requests)
    BY DEF TypeOK
  <1>h. runner[r] # "DONE" /\ runner' = [runner EXCEPT ![r] = "DONE"]
    <2>1. CASE AcquireCancelled(r)
      BY <2>1, <1>t DEF AcquireCancelled, IsNext, LineInv
    <2>2. CASE BackendRefuses(r) \/ BuildRefused(r) \/ BackendFails(r)
                 \/ ConsumeError(r) \/ ConsumeResponse(r) \/ AbortReturns(r)
      BY <2>2, HolderSteps DEF ReturnsPermit, Holding
    <2> QED
      BY <2>1, <2>2
  \* Before it ends, a task has neither a result nor a final error.
  <1>n. /\ final[r] \notin {"DATA", "ARTIFACT"}
        /\ error[r] \notin {"TIMEOUT", "CANCELLED"}
    BY <1>h DEF OutcomeConsistent, TerminalStatuses
  \* Ending without a result, for a reason that fits the status.
  <1>e. ASSUME NEW s \in {"FAILED", "TIMED_OUT"},
               NEW e \in ErrorCodes,
               status' = [status EXCEPT ![r] = s],
               error' = [error EXCEPT ![r] = e],
               UNCHANGED final,
               s = "TIMED_OUT" <=> e = "TIMEOUT",
               e # "CANCELLED"
        PROVE  Ends(r)
    <2>1. final' = [final EXCEPT ![r] = final[r]]
      BY <1>t, <1>e
    <2>2. /\ s \in TerminalStatuses /\ s # "COMPLETED"
          /\ e \in ErrorCodes \cup {"NONE"}
          /\ e # "NONE"
          /\ final[r] \in {"NONE", "DATA", "ARTIFACT", "ERROR"}
      BY <1>t DEF TerminalStatuses, ErrorCodes, StreamErrors
    <2> QED
      BY <1>e, <1>h, <1>n, <2>1, <2>2 DEF Ends
  <1>1. CASE AcquireCancelled(r)
    BY <1>1, <1>t, <1>h, <1>n DEF AcquireCancelled, Ends, TerminalStatuses
  <1>2. CASE BackendRefuses(r) \/ BuildRefused(r) \/ BackendFails(r)
    <2>1. /\ status' = [status EXCEPT ![r] = "FAILED"]
          /\ \E e \in {"REQUEST_FAILED", "MALFORMED"} :
               error' = [error EXCEPT ![r] = e]
          /\ UNCHANGED final
      BY <1>2 DEF BackendRefuses, BuildRefused, BackendFails, SubmissionFails
    <2> QED
      BY <2>1, <1>e DEF ErrorCodes, StreamErrors
  <1>3. CASE ConsumeError(r)
    <2>1. final' = [final EXCEPT ![r] = final[r]]
      BY <1>3, <1>t DEF ConsumeError
    <2>2. PICK item \in StreamErrors :
            LET code == IF status[r] = "CANCELLING" THEN "CANCELLED" ELSE item
            IN  /\ error' = [error EXCEPT ![r] = code]
                /\ status' = [status EXCEPT ![r] =
                                CASE code = "TIMEOUT" -> "TIMED_OUT"
                                  [] code = "CANCELLED" -> "CANCELLED"
                                  [] OTHER -> "FAILED"]
      BY <1>3 DEF ConsumeError
    <2> DEFINE code == IF status[r] = "CANCELLING" THEN "CANCELLED" ELSE item
               end == CASE code = "TIMEOUT" -> "TIMED_OUT"
                        [] code = "CANCELLED" -> "CANCELLED"
                        [] OTHER -> "FAILED"
    <2>3. /\ code \in ErrorCodes \cup {"NONE"}
          /\ code # "NONE"
          /\ end \in TerminalStatuses
          /\ end # "COMPLETED"
          /\ end = "TIMED_OUT" <=> code = "TIMEOUT"
          /\ code = "CANCELLED" => end = "CANCELLED"
      BY DEF ErrorCodes, StreamErrors, TerminalStatuses
    <2>4. error' = [error EXCEPT ![r] = code] /\ status' = [status EXCEPT ![r] = end]
      BY <2>2
    <2> HIDE DEF code, end
    <2> QED
      BY <2>1, <2>3, <2>4, <1>t, <1>h, <1>n DEF Ends
  <1>4. CASE ConsumeResponse(r)
    <2>1. PICK content \in {"DATA", "ARTIFACT", "ERROR", "NONE"} :
            /\ final' = [final EXCEPT ![r] = content]
            /\ status' = [status EXCEPT ![r] =
                 IF content \in {"DATA", "ARTIFACT"}
                 THEN "COMPLETED" ELSE "FAILED"]
            /\ error' = [error EXCEPT ![r] =
                 CASE content = "ERROR" -> "NO_NORMALIZER"
                   [] content = "NONE" -> "INTERNAL"
                   [] OTHER -> @]
      BY <1>4 DEF ConsumeResponse
    <2> DEFINE end == IF content \in {"DATA", "ARTIFACT"}
                      THEN "COMPLETED" ELSE "FAILED"
               code == CASE content = "ERROR" -> "NO_NORMALIZER"
                         [] content = "NONE" -> "INTERNAL"
                         [] OTHER -> error[r]
    <2>2. /\ end \in TerminalStatuses
          /\ end = "COMPLETED" <=> content \in {"DATA", "ARTIFACT"}
          /\ end # "TIMED_OUT"
          /\ code \in ErrorCodes \cup {"NONE"}
          /\ code \notin {"TIMEOUT", "CANCELLED"}
          /\ code = "NONE" => end # "FAILED"
      BY <1>t, <1>n DEF ErrorCodes, TerminalStatuses
    <2>3. /\ status' = [status EXCEPT ![r] = end]
          /\ error' = [error EXCEPT ![r] = code]
      BY <2>1, <1>t
    <2> HIDE DEF code, end
    <2> QED
      BY <2>1, <2>2, <2>3, <1>h DEF Ends
  <1>5. CASE AbortReturns(r)
    <2>1. UNCHANGED final
      BY <1>5 DEF AbortReturns
    <2>2. \/ /\ status' = [status EXCEPT ![r] = "TIMED_OUT"]
             /\ error' = [error EXCEPT ![r] = "TIMEOUT"]
          \/ /\ status' = [status EXCEPT ![r] = "FAILED"]
             /\ error' = [error EXCEPT ![r] = "TOO_LARGE"]
      BY <1>5 DEF AbortReturns
    <2> QED
      BY <2>1, <2>2, <1>e DEF ErrorCodes, StreamErrors
  <1> QED
    BY <1>1, <1>2, <1>3, <1>4, <1>5

LEMMA RecordSteps ==
  ASSUME TypeOK, Lockstep, LineInv, OutcomeConsistent, [Next]_vars
  PROVE  \/ KeepsRecords
         \/ \E r \in Requests : MovesOn(r)
         \/ \E r \in Requests : Ends(r)
  <1> USE DEF callVars, recordVars, registryVars, semaphoreVars, nativeVars
  <1>t. /\ runner \in [Requests -> {"NONE", "WAITING", "DONE"} \cup Holding]
        /\ status \in [Requests -> Statuses \cup {"NONE"}]
        /\ waiters \in Seq(Requests)
    BY DEF TypeOK
  <1>1. ASSUME NEW r \in Requests, Submit(r)
        PROVE  KeepsRecords \/ MovesOn(r)
    BY <1>1, <1>t
    DEF Submit, SubmitReplay, SubmitRefused, SubmitDenied, SubmitRegister,
        KeepsRecords, MovesOn, Lockstep, TerminalStatuses
  <1>2. ASSUME NEW r \in Requests, Call(r)
        PROVE  KeepsRecords \/ MovesOn(r)
    BY <1>2, <1>t
    DEF Call, AdmissionReturns, WaitElapses, AnswerDone, KeepsRecords, MovesOn,
        Lockstep, TerminalStatuses
  <1>3. ASSUME NEW r \in Requests,
               Disconnect(r) \/ ReaderPosts(r) \/ DeadlinePasses(r)
                 \/ SweepRecord(r)
        PROVE  KeepsRecords
    BY <1>3
    DEF Disconnect, ReaderPosts, DeadlinePasses, SweepRecord, KeepsRecords
  <1>4. ASSUME NEW r \in Requests, Cancel(r)
        PROVE  MovesOn(r)
    BY <1>4, <1>t DEF Cancel, MovesOn, OutcomeConsistent, TerminalStatuses
  <1>5. ASSUME NEW r \in Requests, AcquireAndSubmit(r)
        PROVE  MovesOn(r)
    <2>1. runner[r] = "WAITING"
      BY <1>5, <1>t DEF AcquireAndSubmit, IsNext, LineInv
    <2> QED
      BY <1>5, <1>t, <2>1 DEF AcquireAndSubmit, MovesOn, OutcomeConsistent
  <1>6. ASSUME NEW r \in Requests,
               LeaseTaken(r) \/ BackendAccepts(r) \/ ConsumePartial(r)
                 \/ ConsumeOversize(r) \/ DeadlineReached(r)
        PROVE  MovesOn(r)
    <2>1. /\ runner[r] # "DONE" /\ runner'[r] # "DONE"
          /\ \A q \in Requests \ {r} : runner'[q] = runner[q]
      BY <1>6, <1>t, HolderSteps DEF KeepsPermit, Holding
    <2>2. \/ UNCHANGED status
          \/ \E s \in {"SENT", "PARTIAL"} : status' = [status EXCEPT ![r] = s]
      BY <1>6
      DEF LeaseTaken, BackendAccepts, ConsumePartial, ConsumeOversize,
          DeadlineReached
    <2>3. UNCHANGED <<error, final>>
      BY <1>6
      DEF LeaseTaken, BackendAccepts, ConsumePartial, ConsumeOversize,
          DeadlineReached
    <2> QED
      BY <1>t, <2>1, <2>2, <2>3
      DEF MovesOn, OutcomeConsistent, TerminalStatuses
  <1>7. ASSUME NEW k \in Keys, DedupExpires(k) PROVE KeepsRecords
    BY <1>7 DEF DedupExpires, KeepsRecords
  <1>8. CASE UNCHANGED vars
    BY <1>8 DEF vars, KeepsRecords
  <1> QED
    BY <1>1, <1>2, <1>3, <1>4, <1>5, <1>6, <1>7, <1>8, TaskEnds
    DEF Next, Task

LEMMA InitOutcome == Init => OutcomeConsistent
  BY DEF Init, OutcomeConsistent, TerminalStatuses

LEMMA NextOutcome ==
  TypeOK /\ Lockstep /\ LineInv /\ OutcomeConsistent /\ [Next]_vars
    => OutcomeConsistent'
  <1> SUFFICES ASSUME TypeOK, Lockstep, LineInv, OutcomeConsistent, [Next]_vars
               PROVE  OutcomeConsistent'
    OBVIOUS
  <1>t. /\ runner \in [Requests -> {"NONE", "WAITING", "DONE"} \cup Holding]
        /\ status \in [Requests -> Statuses \cup {"NONE"}]
        /\ error \in [Requests -> ErrorCodes \cup {"NONE"}]
        /\ final \in [Requests -> {"NONE", "DATA", "ARTIFACT", "ERROR"}]
    BY DEF TypeOK
  <1>1. CASE KeepsRecords
    BY <1>1 DEF KeepsRecords, OutcomeConsistent
  <1>2. ASSUME NEW r \in Requests, MovesOn(r) PROVE OutcomeConsistent'
    BY <1>2 DEF MovesOn, OutcomeConsistent, TerminalStatuses
  <1>3. ASSUME NEW r \in Requests, Ends(r) PROVE OutcomeConsistent'
    BY <1>3, <1>t DEF Ends, OutcomeConsistent
  <1> QED
    BY <1>1, <1>2, <1>3, RecordSteps

\* A finished task leaves a record that tells one story.
THEOREM OutcomesConsistent == Spec => []OutcomeConsistent
  <1>1. Init => OutcomeConsistent
    BY InitOutcome
  <1>2. TypeOK /\ Lockstep /\ LineInv /\ OutcomeConsistent /\ [Next]_vars
          => OutcomeConsistent'
    BY NextOutcome
  <1> QED
    BY <1>1, <1>2, AlwaysLined, PTL DEF Spec

\* No step rewrites a final record, whatever arrives late.
THEOREM FinalFrozen == Spec => FinalRecordsFrozen
  <1> DEFINE Frozen ==
        \A r \in Requests :
          status[r] \in TerminalStatuses =>
            <<status[r], error[r], final[r]>>' = <<status[r], error[r], final[r]>>
  <1>1. ASSUME TypeOK, Lockstep, LineInv, OutcomeConsistent, [Next]_vars
        PROVE  Frozen
    <2>t. /\ runner \in [Requests -> {"NONE", "WAITING", "DONE"} \cup Holding]
          /\ status \in [Requests -> Statuses \cup {"NONE"}]
          /\ error \in [Requests -> ErrorCodes \cup {"NONE"}]
          /\ final \in [Requests -> {"NONE", "DATA", "ARTIFACT", "ERROR"}]
      BY <1>1 DEF TypeOK
    <2>1. CASE KeepsRecords
      BY <2>1 DEF KeepsRecords
    <2>2. ASSUME NEW r \in Requests, MovesOn(r) PROVE Frozen
      BY <1>1, <2>2 DEF MovesOn, OutcomeConsistent
    <2>3. ASSUME NEW r \in Requests, Ends(r) PROVE Frozen
      BY <1>1, <2>t, <2>3 DEF Ends, OutcomeConsistent
    <2> QED
      BY <1>1, <2>1, <2>2, <2>3, RecordSteps
  <1>2. Spec => [](TypeOK /\ Lockstep /\ LineInv /\ OutcomeConsistent)
    BY AlwaysLined, OutcomesConsistent, PTL
  <1> HIDE DEF Frozen
  <1>3. TypeOK /\ Lockstep /\ LineInv /\ OutcomeConsistent /\ [Next]_vars
          => [Frozen]_vars
    BY <1>1
  <1>4. Spec => [][Frozen]_vars
    BY <1>2, <1>3, PTL DEF Spec
  <1> QED
    BY <1>4 DEF Frozen, FinalRecordsFrozen

-----------------------------------------------------------------------------
(* The deduplication index.                                                *)

LEMMA InitDedup == Init => DedupPointsToAdmitted
  BY DEF Init, DedupPointsToAdmitted

LEMMA NextDedup ==
  TypeOK /\ Lockstep /\ LineInv /\ DedupPointsToAdmitted /\ [Next]_vars
    => DedupPointsToAdmitted'
  <1> SUFFICES ASSUME TypeOK, Lockstep, LineInv, DedupPointsToAdmitted,
                      [Next]_vars
               PROVE  DedupPointsToAdmitted'
    OBVIOUS
  <1> USE DEF callVars, recordVars, registryVars, semaphoreVars, nativeVars
  <1>t. /\ runner \in [Requests -> {"NONE", "WAITING", "DONE"} \cup Holding]
        /\ key \in [Requests -> Keys \cup {NoKey}]
        /\ dedup \in [Keys -> Requests \cup {NoRequest}]
        /\ waiters \in Seq(Requests)
        /\ NoRequest \notin Requests
    BY ConstantsAssumption DEF TypeOK
  <1>1. ASSUME NEW r \in Requests, Submit(r)
        PROVE  DedupPointsToAdmitted'
    <2>1. /\ runner[r] = "NONE"
          /\ \E k \in Keys \cup {NoKey} : key' = [key EXCEPT ![r] = k]
          /\ UNCHANGED <<runner, dedup>>
      BY <1>1
      DEF Submit, SubmitReplay, SubmitRefused, SubmitDenied, SubmitRegister,
          Lockstep
    <2> QED
      BY <1>t, <2>1 DEF DedupPointsToAdmitted
  <1>2. ASSUME NEW r \in Requests, AdmissionReturns(r)
        PROVE  DedupPointsToAdmitted'
    <2>1. /\ dedup' = IF key[r] \in Keys
                      THEN [dedup EXCEPT ![key[r]] = r] ELSE dedup
          /\ runner' = [runner EXCEPT ![r] = "WAITING"]
          /\ UNCHANGED key
      BY <1>2 DEF AdmissionReturns
    <2> QED
      BY <1>t, <2>1 DEF DedupPointsToAdmitted
  <1>3. ASSUME UNCHANGED <<key, dedup>>,
               \A r \in Requests : runner[r] # "NONE" => runner'[r] # "NONE"
        PROVE  DedupPointsToAdmitted'
    BY <1>3, <1>t DEF DedupPointsToAdmitted
  <1>4. ASSUME NEW r \in Requests, Task(r)
        PROVE  DedupPointsToAdmitted'
    <2>1. UNCHANGED <<key, dedup>>
      BY <1>4
      DEF Task, AcquireCancelled, AcquireAndSubmit, LeaseTaken,
          BackendRefuses, BuildRefused, BackendFails, SubmissionFails,
          BackendAccepts, ConsumePartial, ConsumeOversize, ConsumeError,
          ConsumeResponse, DeadlineReached, AbortReturns
    <2>2. ASSUME AcquireCancelled(r) \/ AcquireAndSubmit(r)
          PROVE  \A q \in Requests : runner[q] # "NONE" => runner'[q] # "NONE"
      BY <2>2, <1>t DEF AcquireCancelled, AcquireAndSubmit
    <2>3. ASSUME KeepsPermit(r) \/ ReturnsPermit(r)
          PROVE  \A q \in Requests : runner[q] # "NONE" => runner'[q] # "NONE"
      BY <2>3, <1>t DEF KeepsPermit, ReturnsPermit, Holding
    <2> QED
      BY <1>3, <1>4, <2>1, <2>2, <2>3, HolderSteps DEF Task
  <1>5. ASSUME NEW r \in Requests,
               WaitElapses(r) \/ AnswerDone(r) \/ Disconnect(r)
                 \/ ReaderPosts(r) \/ Cancel(r) \/ DeadlinePasses(r)
                 \/ SweepRecord(r)
        PROVE  DedupPointsToAdmitted'
    BY <1>3, <1>5
    DEF WaitElapses, AnswerDone, Disconnect, ReaderPosts, Cancel,
        DeadlinePasses, SweepRecord
  <1>6. ASSUME NEW k \in Keys, DedupExpires(k)
        PROVE  DedupPointsToAdmitted'
    BY <1>6, <1>t DEF DedupExpires, DedupPointsToAdmitted
  <1>7. CASE UNCHANGED vars
    BY <1>3, <1>7 DEF vars
  <1> QED
    BY <1>1, <1>2, <1>4, <1>5, <1>6, <1>7 DEF Next, Call

\* A replay never returns a request that was not admitted with that key.
THEOREM DedupSafe == Spec => []DedupPointsToAdmitted
  <1>1. Init => DedupPointsToAdmitted
    BY InitDedup
  <1>2. TypeOK /\ Lockstep /\ LineInv /\ DedupPointsToAdmitted /\ [Next]_vars
          => DedupPointsToAdmitted'
    BY NextDedup
  <1> QED
    BY <1>1, <1>2, AlwaysLined, PTL DEF Spec

-----------------------------------------------------------------------------
(* Leases.                                                                 *)

\* A task that has not ended has no error yet.
ErrorInv == \A r \in Requests : runner[r] # "DONE" => error[r] = "NONE"

LeaseInv == LeasesReleased /\ ErrorInv

LEMMA InitLeases == Init => LeaseInv
  BY DEF Init, LeaseInv, ErrorInv, LeasesReleased, Streaming, Forgotten

LEMMA NextLeases ==
  TypeOK /\ Lockstep /\ LineInv /\ LeaseInv /\ [Next]_vars => LeaseInv'
  <1> SUFFICES ASSUME TypeOK, Lockstep, LineInv, LeaseInv, [Next]_vars
               PROVE  LeaseInv'
    OBVIOUS
  <1> USE DEF callVars, recordVars, registryVars, semaphoreVars, nativeVars
  <1>t. /\ runner \in [Requests -> {"NONE", "WAITING", "DONE"} \cup Holding]
        /\ error \in [Requests -> ErrorCodes \cup {"NONE"}]
        /\ tokens \subseteq Requests
        /\ waiters \in Seq(Requests)
    BY DEF TypeOK
  <1>i. /\ tokens = {q \in Requests : runner[q] \in Streaming}
        /\ leases = tokens \cup {q \in Requests : runner[q] = "BUILDING"}
                      \cup Forgotten
        /\ ErrorInv
    BY DEF LeaseInv, LeasesReleased
  <1>u. ASSUME UNCHANGED <<runner, error, tokens, leases>>
        PROVE  LeaseInv'
    BY <1>u DEF LeaseInv, LeasesReleased, ErrorInv, Forgotten
  \* A step of an unfinished task to where, with the error code it then has.
  <1>s. ASSUME NEW r \in Requests, runner[r] # "DONE",
               NEW where, NEW code,
               runner' = [runner EXCEPT ![r] = where],
               error' = [error EXCEPT ![r] = code],
               where # "DONE" => code = "NONE",
               tokens' = IF where \in Streaming
                         THEN tokens \cup {r} ELSE tokens \ {r},
               leases' = IF \/ where \in Streaming \cup {"BUILDING"}
                            \/ where = "DONE" /\ code = "MALFORMED"
                         THEN leases \cup {r} ELSE leases \ {r}
        PROVE  LeaseInv'
    <2>1. \A q \in Requests \ {r} : runner'[q] = runner[q] /\ error'[q] = error[q]
      BY <1>s, <1>t
    <2>2. runner'[r] = where /\ error'[r] = code
      BY <1>s, <1>t
    <2>3. ErrorInv'
      BY <1>i, <1>s, <2>1, <2>2 DEF ErrorInv
    <2>4. tokens' = {q \in Requests : runner'[q] \in Streaming}
      BY <1>i, <1>s, <2>1, <2>2
    <2>5. r \in Forgotten' <=> where = "DONE" /\ code = "MALFORMED"
      BY <2>2 DEF Forgotten
    <2>6. r \notin Forgotten /\ Forgotten' \ {r} = Forgotten
      BY <1>s, <2>1 DEF Forgotten
    <2>7. leases' = tokens' \cup {q \in Requests : runner'[q] = "BUILDING"}
                     \cup Forgotten'
      BY <1>i, <1>s, <2>1, <2>2, <2>4, <2>5, <2>6 DEF Streaming
    <2> QED
      BY <2>3, <2>4, <2>7 DEF LeaseInv, LeasesReleased
  \* What the error, the token and the lease of an unfinished task are.
  <1>e. ASSUME NEW r \in Requests, runner[r] # "DONE"
        PROVE  /\ error' = error => error' = [error EXCEPT ![r] = "NONE"]
               /\ r \in tokens <=> runner[r] \in Streaming
               /\ r \in leases <=> runner[r] \in Streaming \cup {"BUILDING"}
    BY <1>e, <1>i, <1>t DEF ErrorInv, Forgotten
  \* A step between two places that hold the same, without an error.
  <1>m. ASSUME NEW r \in Requests, runner[r] # "DONE",
               NEW where, where # "DONE",
               runner' = [runner EXCEPT ![r] = where],
               where \in Streaming <=> runner[r] \in Streaming,
               where = "BUILDING" <=> runner[r] = "BUILDING",
               UNCHANGED <<error, tokens, leases>>
        PROVE  LeaseInv'
    <2>1. /\ error' = [error EXCEPT ![r] = "NONE"]
          /\ tokens' = IF where \in Streaming
                       THEN tokens \cup {r} ELSE tokens \ {r}
          /\ leases' = IF \/ where \in Streaming \cup {"BUILDING"}
                          \/ where = "DONE" /\ "NONE" = "MALFORMED"
                       THEN leases \cup {r} ELSE leases \ {r}
      BY <1>m, <1>e
    <2> HIDE DEF LeaseInv
    <2> QED
      BY <1>m, <1>s, <2>1
  <1>f. ASSUME NEW r \in Requests, runner[r] \in Streaming, Finish(r),
               NEW code, error' = [error EXCEPT ![r] = code],
               code # "MALFORMED"
        PROVE  LeaseInv'
    BY <1>e, <1>f, <1>s DEF Finish, Streaming
  <1>l. ASSUME NEW r \in Requests, LoopTop(r)
        PROVE  \E where \in Streaming : runner' = [runner EXCEPT ![r] = where]
    BY <1>l DEF LoopTop, Streaming
  <1>1. ASSUME NEW r \in Requests, Submit(r) PROVE LeaseInv'
    BY <1>1, <1>u
    DEF Submit, SubmitReplay, SubmitRefused, SubmitDenied, SubmitRegister
  <1>2. ASSUME NEW r \in Requests, Call(r) PROVE LeaseInv'
    <2>1. CASE AdmissionReturns(r)
      BY <2>1, <1>m DEF AdmissionReturns, Lockstep, Streaming
    <2>2. CASE WaitElapses(r) \/ AnswerDone(r)
      BY <2>2, <1>u DEF WaitElapses, AnswerDone
    <2> QED
      BY <1>2, <2>1, <2>2 DEF Call
  <1>3. ASSUME NEW r \in Requests,
               Disconnect(r) \/ ReaderPosts(r) \/ Cancel(r) \/ DeadlinePasses(r)
                 \/ SweepRecord(r)
        PROVE  LeaseInv'
    BY <1>3, <1>u
    DEF Disconnect, ReaderPosts, Cancel, DeadlinePasses, SweepRecord
  <1>4. ASSUME NEW r \in Requests, AcquireCancelled(r) \/ AcquireAndSubmit(r)
        PROVE  LeaseInv'
    <2>1. runner[r] = "WAITING" /\ UNCHANGED <<error, tokens, leases>>
      BY <1>4, <1>t DEF AcquireCancelled, AcquireAndSubmit, IsNext, LineInv
    <2>2. PICK where \in {"DONE", "SUBMITTING"} :
            runner' = [runner EXCEPT ![r] = where]
      BY <1>4 DEF AcquireCancelled, AcquireAndSubmit
    <2>3. /\ tokens' = tokens \ {r}
          /\ leases' = leases \ {r}
          /\ error' = [error EXCEPT ![r] = "NONE"]
      BY <2>1, <1>e DEF Streaming
    <2> QED
      BY <2>1, <2>2, <2>3, <1>s DEF Streaming
  <1>5. ASSUME NEW r \in Requests, LeaseTaken(r) PROVE LeaseInv'
    <2>1. /\ runner[r] = "SUBMITTING"
          /\ runner' = [runner EXCEPT ![r] = "BUILDING"]
          /\ leases' = leases \cup {r}
          /\ UNCHANGED <<error, tokens>>
      BY <1>5 DEF LeaseTaken
    <2>2. /\ tokens' = tokens \ {r}
          /\ error' = [error EXCEPT ![r] = "NONE"]
      BY <1>e, <2>1 DEF Streaming
    <2> QED
      BY <1>s, <2>1, <2>2 DEF Streaming
  <1>6. ASSUME NEW r \in Requests,
               BackendRefuses(r) \/ BuildRefused(r) \/ BackendFails(r)
        PROVE  LeaseInv'
    <2>1. /\ runner[r] \in {"SUBMITTING", "BUILDING"}
          /\ runner' = [runner EXCEPT ![r] = "DONE"]
          /\ tokens' = tokens
      BY <1>6 DEF BackendRefuses, BuildRefused, BackendFails, SubmissionFails
    <2>2. tokens' = tokens \ {r}
      BY <2>1, <1>e DEF Streaming
    <2>3. CASE BuildRefused(r)
      <3>1. /\ error' = [error EXCEPT ![r] = "MALFORMED"]
            /\ leases' = leases \cup {r}
        BY <2>3, <1>e DEF BuildRefused, SubmissionFails
      <3> QED
        BY <2>1, <2>2, <3>1, <1>s DEF Streaming
    <2>4. CASE BackendRefuses(r) \/ BackendFails(r)
      <3>1. /\ error' = [error EXCEPT ![r] = "REQUEST_FAILED"]
            /\ leases' = leases \ {r}
        BY <2>4, <1>e
        DEF BackendRefuses, BackendFails, SubmissionFails, Streaming
      <3> QED
        BY <2>1, <2>2, <3>1, <1>s DEF Streaming
    <2> QED
      BY <1>6, <2>3, <2>4
  <1>7. ASSUME NEW r \in Requests, BackendAccepts(r) PROVE LeaseInv'
    <2>1. /\ runner[r] = "BUILDING"
          /\ tokens' = tokens \cup {r}
          /\ UNCHANGED <<error, leases>>
          /\ LoopTop(r)
      BY <1>7 DEF BackendAccepts
    <2>2. PICK where \in Streaming : runner' = [runner EXCEPT ![r] = where]
      BY <1>l, <2>1
    <2>3. /\ leases' = leases \cup {r}
          /\ error' = [error EXCEPT ![r] = "NONE"]
      BY <1>e, <2>1
    <2> QED
      BY <1>s, <2>1, <2>2, <2>3 DEF Streaming
  <1>8. ASSUME NEW r \in Requests,
               ConsumePartial(r) \/ DeadlineReached(r) \/ ConsumeOversize(r)
        PROVE  LeaseInv'
    <2>1. /\ runner[r] \in Streaming
          /\ UNCHANGED <<error, tokens, leases>>
      BY <1>8
      DEF ConsumePartial, DeadlineReached, ConsumeOversize, NextItem, Streaming
    <2>2. PICK where \in Streaming : runner' = [runner EXCEPT ![r] = where]
      BY <1>8, <1>l
      DEF ConsumePartial, DeadlineReached, ConsumeOversize, Streaming
    <2> QED
      BY <1>m, <2>1, <2>2 DEF Streaming
  <1>9. ASSUME NEW r \in Requests,
               ConsumeError(r) \/ ConsumeResponse(r) \/ AbortReturns(r)
        PROVE  LeaseInv'
    <2>1. runner[r] \in Streaming /\ Finish(r)
      BY <1>9
      DEF ConsumeError, ConsumeResponse, AbortReturns, NextItem, Streaming
    <2>2. error[r] # "MALFORMED"
      BY <1>i, <2>1 DEF ErrorInv, Streaming
    <2>3. \E code : error' = [error EXCEPT ![r] = code] /\ code # "MALFORMED"
      <3>1. CASE ConsumeError(r)
        BY <3>1 DEF ConsumeError, StreamErrors
      <3>2. CASE ConsumeResponse(r)
        BY <3>2, <2>2, <1>t DEF ConsumeResponse
      <3>3. CASE AbortReturns(r)
        <4>1. \/ error' = [error EXCEPT ![r] = "TIMEOUT"]
              \/ error' = [error EXCEPT ![r] = "TOO_LARGE"]
          BY <3>3 DEF AbortReturns
        <4> QED
          BY <4>1
      <3> QED
        BY <1>9, <3>1, <3>2, <3>3
    <2> QED
      BY <1>f, <2>1, <2>3
  <1>10. ASSUME NEW k \in Keys, DedupExpires(k) PROVE LeaseInv'
    BY <1>10, <1>u DEF DedupExpires
  <1>11. CASE UNCHANGED vars
    BY <1>11, <1>u DEF vars
  <1> QED
    BY <1>1, <1>2, <1>3, <1>4, <1>5, <1>6, <1>7, <1>8, <1>9, <1>10, <1>11
    DEF Next, Task

\* Whatever step a submission or a stream ends at, the only correlation ids that
\* outlive their task are those of requests their builder refused: a failed
\* native call, an answer, an error, a deadline and a full budget release it.
THEOREM LeasesSafe == Spec => []LeasesReleased
  <1>1. Init => LeaseInv
    BY InitLeases
  <1>2. TypeOK /\ Lockstep /\ LineInv /\ LeaseInv /\ [Next]_vars => LeaseInv'
    BY NextLeases
  <1>3. LeaseInv => LeasesReleased
    BY DEF LeaseInv
  <1> QED
    BY <1>1, <1>2, <1>3, AlwaysLined, PTL DEF Spec

-----------------------------------------------------------------------------
(* The admission bound.                                                    *)

LEMMA InFlightFinite == 
  TypeOK => IsFiniteSet(InFlight) /\ Cardinality(InFlight) \in Nat
  BY ConstantsAssumption, FS_Subset, FS_CardinalityType DEF TypeOK, InFlight

LEMMA InitBound == Init => AdmissionBound
  <1> SUFFICES ASSUME Init PROVE AdmissionBound
    OBVIOUS
  <1>1. InFlight = {}
    BY DEF Init, InFlight
  <1> QED
    BY <1>1, FS_EmptySet, ConstantsAssumption
    DEF Init, AdmissionBound, Capacity

\* Only a registration adds an unfinished record.
LEMMA InFlightSteps ==
  ASSUME TypeOK, Lockstep, LineInv, OutcomeConsistent, [Next]_vars
  PROVE  \/ InFlight' \subseteq InFlight
         \/ \E r \in Requests :
              InFlight' \subseteq InFlight \cup {r} /\ MayRegister
  <1> USE DEF callVars, recordVars, registryVars, semaphoreVars, nativeVars
  <1>t. /\ runner \in [Requests -> {"NONE", "WAITING", "DONE"} \cup Holding]
        /\ status \in [Requests -> Statuses \cup {"NONE"}]
        /\ registered \subseteq Requests
        /\ waiters \in Seq(Requests)
    BY DEF TypeOK
  \* A record that stays registered was in flight if it is not final.
  <1>o. \A q \in registered :
          status[q] \notin TerminalStatuses => q \in InFlight
    BY <1>t DEF Lockstep, InFlight, Statuses
  <1>k. ASSUME registered' \subseteq registered,
               NEW r \in Requests,
               \A q \in Requests \ {r} : status'[q] = status[q],
               status[r] \notin TerminalStatuses
        PROVE  InFlight' \subseteq InFlight
    BY <1>k, <1>o, <1>t DEF InFlight
  <1>u. ASSUME registered' \subseteq registered, UNCHANGED status
        PROVE  InFlight' \subseteq InFlight
    BY <1>u DEF InFlight
  <1>1. ASSUME NEW r \in Requests, NEW k \in Keys \cup {NoKey},
               SubmitReplay(r, k) \/ SubmitRefused(r, k)
        PROVE  InFlight' \subseteq InFlight
    BY <1>1, <1>u DEF SubmitReplay, SubmitRefused
  <1>2. ASSUME NEW r \in Requests, NEW k \in Keys \cup {NoKey},
               SubmitDenied(r, k)
        PROVE  InFlight' \subseteq InFlight
    <2>1. registered' \subseteq registered /\ UNCHANGED status
      BY <1>2 DEF SubmitDenied, AfterInsert
    <2> QED
      BY <1>u, <2>1
  <1>3. ASSUME NEW r \in Requests, NEW k \in Keys \cup {NoKey},
               SubmitRegister(r, k)
        PROVE  InFlight' \subseteq InFlight \cup {r} /\ MayRegister
    <2>1. /\ registered' \subseteq registered \cup {r}
          /\ status' = [status EXCEPT ![r] = "RECEIVED"]
          /\ MayRegister
      BY <1>3 DEF SubmitRegister, AfterInsert
    <2> QED
      BY <1>t, <2>1 DEF InFlight
  <1>4. ASSUME NEW r \in Requests, AdmissionReturns(r)
        PROVE  InFlight' \subseteq InFlight
    <2>1. /\ runner[r] = "NONE"
          /\ registered' = registered
          /\ status' = [status EXCEPT ![r] = "QUEUED"]
      BY <1>4 DEF AdmissionReturns, Lockstep
    <2> QED
      BY <1>k, <1>t, <2>1 DEF OutcomeConsistent
  <1>5. ASSUME NEW r \in Requests,
               WaitElapses(r) \/ AnswerDone(r) \/ Disconnect(r)
                 \/ ReaderPosts(r) \/ DeadlinePasses(r) \/ SweepRecord(r)
        PROVE  InFlight' \subseteq InFlight
    BY <1>5, <1>u
    DEF WaitElapses, AnswerDone, Disconnect, ReaderPosts, DeadlinePasses,
        SweepRecord
  <1>6. ASSUME NEW r \in Requests, Cancel(r)
        PROVE  InFlight' \subseteq InFlight
    BY <1>6, <1>k, <1>t DEF Cancel
  <1>7. ASSUME NEW r \in Requests, Task(r)
        PROVE  InFlight' \subseteq InFlight
    <2>1. registered' = registered
      BY <1>7, HolderSteps
      DEF Task, AcquireCancelled, AcquireAndSubmit, KeepsPermit, ReturnsPermit
    <2>2. runner[r] # "DONE"
      <3>1. ASSUME AcquireCancelled(r) \/ AcquireAndSubmit(r)
            PROVE  runner[r] = "WAITING"
        BY <3>1, <1>t DEF AcquireCancelled, AcquireAndSubmit, IsNext, LineInv
      <3> QED
        BY <1>7, <3>1, HolderSteps DEF Task, KeepsPermit, ReturnsPermit, Holding
    <2>3. \A q \in Requests \ {r} : status'[q] = status[q]
      <3>1. \/ UNCHANGED status
            \/ \E s : status' = [status EXCEPT ![r] = s]
        BY <1>7
        DEF Task, AcquireCancelled, AcquireAndSubmit, LeaseTaken,
            BackendRefuses, BuildRefused, BackendFails, SubmissionFails,
            BackendAccepts, ConsumePartial, ConsumeOversize, ConsumeError,
            ConsumeResponse, DeadlineReached, AbortReturns
      <3> QED
        BY <3>1, <1>t
    <2> QED
      BY <1>k, <2>1, <2>2, <2>3 DEF OutcomeConsistent
  <1>8. ASSUME NEW k \in Keys, DedupExpires(k)
        PROVE  InFlight' \subseteq InFlight
    BY <1>8, <1>u DEF DedupExpires
  <1>9. CASE UNCHANGED vars
    BY <1>9, <1>u DEF vars
  <1> QED
    BY <1>1, <1>2, <1>3, <1>4, <1>5, <1>6, <1>7, <1>8, <1>9
    DEF Next, Submit, Call

\* No interleaving admits more than max_concurrent + max_queued.
THEOREM AdmissionSafe == Spec => []AdmissionBound
  <1>1. Init => AdmissionBound
    BY InitBound
  <1>2. ASSUME TypeOK, Lockstep, LineInv, OutcomeConsistent, AdmissionBound,
               [Next]_vars
        PROVE  AdmissionBound'
    <2>1. /\ IsFiniteSet(InFlight) /\ Cardinality(InFlight) \in Nat
          /\ Capacity \in Nat
      BY <1>2, InFlightFinite, ConstantsAssumption DEF Capacity
    <2>2. CASE InFlight' \subseteq InFlight
      <3>1. Cardinality(InFlight') <= Cardinality(InFlight)
        BY <2>1, <2>2, FS_Subset
      <3>2. Cardinality(InFlight') \in Nat
        BY <2>1, <2>2, FS_Subset, FS_CardinalityType
      <3> QED
        BY <1>2, <2>1, <3>1, <3>2 DEF AdmissionBound, Capacity
    <2>3. ASSUME NEW r \in Requests, InFlight' \subseteq InFlight \cup {r},
                 MayRegister
          PROVE  AdmissionBound'
      <3>1. /\ IsFiniteSet(InFlight \cup {r})
            /\ \/ Cardinality(InFlight \cup {r}) = Cardinality(InFlight) + 1
               \/ Cardinality(InFlight \cup {r}) = Cardinality(InFlight)
        BY <2>1, FS_AddElement
      <3>2. /\ Cardinality(InFlight') <= Cardinality(InFlight \cup {r})
            /\ Cardinality(InFlight') \in Nat
        BY <2>3, <3>1, FS_Subset, FS_CardinalityType
      <3>3. Cardinality(InFlight \cup {r}) \in Nat
        BY <3>1, FS_CardinalityType
      <3>4. Cardinality(InFlight) < Capacity
        BY <2>3 DEF MayRegister
      <3> QED
        BY <2>1, <3>1, <3>2, <3>3, <3>4 DEF AdmissionBound, Capacity
    <2> QED
      BY <1>2, <2>2, <2>3, InFlightSteps
  <1>3. Spec => [](TypeOK /\ Lockstep /\ LineInv /\ OutcomeConsistent)
    BY AlwaysLined, OutcomesConsistent, PTL
  <1> QED
    BY <1>1, <1>2, <1>3, PTL DEF Spec

-----------------------------------------------------------------------------
(* The byte budget.                                                        *)

\* A task that may still receive messages is within the budget.
BudgetInv ==
  \A r \in Requests :
    /\ received[r] <= MaxMessages + 1
    /\ runner[r] \notin {"OVERSIZE", "DONE"} => received[r] <= MaxMessages
    /\ status[r] = "COMPLETED" => received[r] <= MaxMessages

LEMMA NextBudget ==
  ASSUME TypeOK, Lockstep, LineInv, OutcomeConsistent, BudgetInv, [Next]_vars
  PROVE  BudgetInv'
  <1> USE DEF callVars, recordVars, registryVars, semaphoreVars, nativeVars
  <1>t. /\ runner \in [Requests -> {"NONE", "WAITING", "DONE"} \cup Holding]
        /\ status \in [Requests -> Statuses \cup {"NONE"}]
        /\ received \in [Requests -> Nat]
        /\ waiters \in Seq(Requests)
        /\ MaxMessages \in Nat
    BY ConstantsAssumption DEF TypeOK
  \* Steps of r that receive nothing and do not complete it.
  <1>k. ASSUME NEW r \in Requests, UNCHANGED received,
               NEW where, NEW s,
               \/ where = runner[r]
               \/ where \in {"OVERSIZE", "DONE"}
               \/ runner[r] \notin {"OVERSIZE", "DONE"},
               runner' = [runner EXCEPT ![r] = where],
               status' = [status EXCEPT ![r] = s],
               s # "COMPLETED" \/ s = status[r]
        PROVE  BudgetInv'
    BY <1>k, <1>t DEF BudgetInv
  <1>u. ASSUME UNCHANGED <<received, runner, status>> PROVE BudgetInv'
    BY <1>u DEF BudgetInv
  <1>1. ASSUME NEW r \in Requests, Submit(r) PROVE BudgetInv'
    <2>1. \/ UNCHANGED <<received, runner, status>>
          \/ /\ UNCHANGED <<received, runner>>
             /\ status' = [status EXCEPT ![r] = "RECEIVED"]
      BY <1>1
      DEF Submit, SubmitReplay, SubmitRefused, SubmitDenied, SubmitRegister
    <2> QED
      BY <2>1, <1>u, <1>t DEF BudgetInv
  <1>2. ASSUME NEW r \in Requests, AdmissionReturns(r) PROVE BudgetInv'
    <2>1. runner[r] = "NONE"
      BY <1>2 DEF AdmissionReturns, Lockstep
    <2> QED
      BY <1>2, <2>1, <1>k DEF AdmissionReturns
  <1>3. ASSUME NEW r \in Requests,
               WaitElapses(r) \/ AnswerDone(r) \/ Disconnect(r)
                 \/ ReaderPosts(r) \/ DeadlinePasses(r) \/ SweepRecord(r)
        PROVE  BudgetInv'
    BY <1>3, <1>u
    DEF WaitElapses, AnswerDone, Disconnect, ReaderPosts, DeadlinePasses,
        SweepRecord
  <1>4. ASSUME NEW r \in Requests, Cancel(r) PROVE BudgetInv'
    BY <1>4, <1>t DEF Cancel, BudgetInv
  <1>5. ASSUME NEW r \in Requests, AcquireCancelled(r) PROVE BudgetInv'
    BY <1>5, <1>k DEF AcquireCancelled
  <1>6. ASSUME NEW r \in Requests, AcquireAndSubmit(r) PROVE BudgetInv'
    <2>1. runner[r] = "WAITING"
      BY <1>6, <1>t DEF AcquireAndSubmit, IsNext, LineInv
    <2> QED
      BY <1>6, <2>1, <1>t DEF AcquireAndSubmit, BudgetInv
  <1>7. ASSUME NEW r \in Requests,
               BackendRefuses(r) \/ BuildRefused(r) \/ BackendFails(r)
        PROVE  BudgetInv'
    BY <1>7, <1>k DEF BackendRefuses, BuildRefused, BackendFails, SubmissionFails
  <1>8. ASSUME NEW r \in Requests, LeaseTaken(r) \/ BackendAccepts(r)
        PROVE  BudgetInv'
    <2>1. CASE LeaseTaken(r)
      BY <2>1, <1>t DEF LeaseTaken, BudgetInv
    <2>2. CASE BackendAccepts(r)
      BY <2>2, <1>k DEF BackendAccepts, LoopTop
    <2> QED
      BY <1>8, <2>1, <2>2
  <1>9. ASSUME NEW r \in Requests, ConsumePartial(r) PROVE BudgetInv'
    <2>1. /\ runner[r] = "CONSUMING"
          /\ received[r] + 1 <= MaxMessages
          /\ received' = [received EXCEPT ![r] = @ + 1]
          /\ status' = [status EXCEPT ![r] = "PARTIAL"]
      BY <1>9, <1>t DEF ConsumePartial, NextItem, WithinBudget
    <2>2. PICK where : runner' = [runner EXCEPT ![r] = where]
      BY <1>9 DEF ConsumePartial, LoopTop
    <2>3. received'[r] <= MaxMessages /\ status'[r] # "COMPLETED"
      BY <2>1, <1>t
    <2>4. \A q \in Requests \ {r} :
            /\ received'[q] = received[q]
            /\ status'[q] = status[q]
            /\ runner'[q] = runner[q]
      BY <2>1, <2>2, <1>t
    <2>5. received'[r] <= MaxMessages + 1
      BY <2>1, <2>3, <1>t
    <2> QED
      BY <2>3, <2>4, <2>5 DEF BudgetInv
  <1>10. ASSUME NEW r \in Requests, ConsumeOversize(r) PROVE BudgetInv'
    <2>1. /\ runner[r] = "CONSUMING"
          /\ received' = [received EXCEPT ![r] = @ + 1]
          /\ runner' = [runner EXCEPT ![r] = "OVERSIZE"]
          /\ \/ UNCHANGED status
             \/ status' = [status EXCEPT ![r] = "PARTIAL"]
      BY <1>10 DEF ConsumeOversize, NextItem
    <2>2. received[r] <= MaxMessages
      BY <2>1 DEF BudgetInv
    <2>3. status[r] # "COMPLETED"
      BY <2>1 DEF OutcomeConsistent, TerminalStatuses
    <2> QED
      BY <2>1, <2>2, <2>3, <1>t DEF BudgetInv
  <1>11. ASSUME NEW r \in Requests, ConsumeError(r) PROVE BudgetInv'
    <2>1. \E s \in {"TIMED_OUT", "CANCELLED", "FAILED"} :
            status' = [status EXCEPT ![r] = s]
      BY <1>11 DEF ConsumeError
    <2>2. UNCHANGED received /\ runner' = [runner EXCEPT ![r] = "DONE"]
      BY <1>11 DEF ConsumeError, Finish
    <2> QED
      BY <2>1, <2>2, <1>k
  <1>12. ASSUME NEW r \in Requests, ConsumeResponse(r) PROVE BudgetInv'
    <2>1. /\ received[r] + 1 <= MaxMessages
          /\ received' = [received EXCEPT ![r] = @ + 1]
          /\ runner' = [runner EXCEPT ![r] = "DONE"]
      BY <1>12, <1>t DEF ConsumeResponse, WithinBudget, Finish
    <2>2. \E s : status' = [status EXCEPT ![r] = s]
      BY <1>12 DEF ConsumeResponse
    <2> QED
      BY <2>1, <2>2, <1>t DEF BudgetInv
  <1>13. ASSUME NEW r \in Requests, DeadlineReached(r) PROVE BudgetInv'
    <2>1. UNCHANGED <<received, status>> /\ runner[r] = "CONSUMING"
      BY <1>13 DEF DeadlineReached
    <2>2. \E where : runner' = [runner EXCEPT ![r] = where]
      BY <1>13 DEF DeadlineReached, LoopTop
    <2> QED
      BY <2>1, <2>2, <1>t DEF BudgetInv
  <1>14. ASSUME NEW r \in Requests, AbortReturns(r) PROVE BudgetInv'
    <2>1. \E s \in {"TIMED_OUT", "FAILED"} : status' = [status EXCEPT ![r] = s]
      BY <1>14 DEF AbortReturns
    <2>2. UNCHANGED received /\ runner' = [runner EXCEPT ![r] = "DONE"]
      BY <1>14 DEF AbortReturns, Finish
    <2> QED
      BY <2>1, <2>2, <1>k
  <1>15. ASSUME NEW k \in Keys, DedupExpires(k) PROVE BudgetInv'
    BY <1>15, <1>u DEF DedupExpires
  <1>16. CASE UNCHANGED vars
    BY <1>16, <1>u DEF vars
  <1> QED
    BY <1>1, <1>2, <1>3, <1>4, <1>5, <1>6, <1>7, <1>8, <1>9, <1>10, <1>11,
       <1>12, <1>13, <1>14, <1>15, <1>16
    DEF Next, Call, Task

\* A completed result never exceeds the budget, whatever came in which order.
THEOREM BudgetSafe == Spec => []BudgetRespected
  <1>1. Init => BudgetInv
    BY ConstantsAssumption DEF Init, BudgetInv
  <1>2. TypeOK /\ Lockstep /\ LineInv /\ OutcomeConsistent /\ BudgetInv
          /\ [Next]_vars => BudgetInv'
    BY NextBudget
  <1>3. BudgetInv => BudgetRespected
    BY DEF BudgetInv, BudgetRespected
  <1>4. Spec => [](TypeOK /\ Lockstep /\ LineInv /\ OutcomeConsistent)
    BY AlwaysLined, OutcomesConsistent, PTL
  <1> QED
    BY <1>1, <1>2, <1>3, <1>4, PTL DEF Spec

-----------------------------------------------------------------------------
(* Eviction.                                                               *)

\* A finite, non-empty set of records has an oldest one.
LEMMA OldestExists ==
  ASSUME NEW S, IsFiniteSet(S), S # {}, NEW age \in [S -> Nat]
  PROVE  \E x \in S : \A y \in S : age[x] <= age[y]
  <1> DEFINE Upto(x) == {y \in S : age[y] <= age[x]}
             Family == {Upto(x) : x \in S}
  <1>1. Family \subseteq FiniteSubsetsOf(S) /\ Family # {}
    <2>1. \A x \in S : Upto(x) \in SUBSET S
      OBVIOUS
    <2>2. FiniteSubsetsOf(S) = SUBSET S
      BY FS_FiniteSubsetsOfFinite
    <2>3. Family \subseteq SUBSET S
      BY <2>1
    <2>4. PICK x \in S : Upto(x) \in Family
      OBVIOUS
    <2> QED
      BY <2>2, <2>3, <2>4
  <1>2. PICK U \in Family :
          \A V \in Family : ~(<<V, U>> \in StrictSubsetOrdering(S))
    BY <1>1, FS_StrictSubsetOrderingWellFounded, WFMin
  <1>3. PICK x \in S : U = Upto(x)
    BY <1>2
  <1>4. ASSUME NEW y \in S, ~(age[x] <= age[y])
        PROVE  FALSE
    <2>1. Upto(y) \subseteq Upto(x) /\ x \in Upto(x) /\ x \notin Upto(y)
      BY <1>4
    <2>2. Upto(y) \in SUBSET S /\ Upto(x) \in SUBSET S
      OBVIOUS
    <2> HIDE DEF Upto
    <2>3. <<Upto(y), Upto(x)>> \in StrictSubsetOrdering(S)
      BY <2>1, <2>2 DEF StrictSubsetOrdering
    <2>4. Upto(y) \in Family
      OBVIOUS
    <2> QED
      BY <1>2, <1>3, <2>3, <2>4
  <1> QED
    BY <1>4

\* What eviction removes is not running at Bloomberg.
LEMMA EvictionSpares ==
  ASSUME TypeOK, NEW r \in Requests, status[r] = "NONE"
  PROVE  \A x \in registered \ AfterInsert(r) : status[x] \notin NeverEvicted
  <1> DEFINE all == registered \cup {r}
             candidates == {x \in all : x = r \/ status[x] \notin NeverEvicted}
             age == [x \in candidates |-> CreatedAt(x, r)]
  <1>1. candidates # {} /\ IsFiniteSet(candidates)
    <2>1. candidates \in SUBSET Requests /\ r \in candidates
      BY DEF TypeOK
    <2> QED
      BY <2>1, ConstantsAssumption, FS_Subset
  <1>2. age \in [candidates -> Nat]
    BY DEF TypeOK, CreatedAt
  <1>3. \E x \in candidates : \A y \in candidates : age[x] <= age[y]
    <2> HIDE DEF candidates, age
    <2> QED
      BY <1>1, <1>2, OldestExists
  <1>4. \E x \in candidates :
          \A y \in candidates : CreatedAt(x, r) <= CreatedAt(y, r)
    BY <1>3
  <1> DEFINE oldest == CHOOSE x \in candidates :
                \A y \in candidates : CreatedAt(x, r) <= CreatedAt(y, r)
  <1>5. oldest \in candidates
    BY <1>4
  <1>6. AfterInsert(r) =
          IF Cardinality(all) > MaxRecords THEN all \ {oldest} ELSE all
    BY DEF AfterInsert
  <1>7. ASSUME NEW x \in registered, x \notin AfterInsert(r)
        PROVE  x = oldest
    <2> HIDE DEF oldest
    <2> QED
      BY <1>6, <1>7
  <1>8. status[oldest] \notin NeverEvicted
    BY <1>5 DEF NeverEvicted
  <1> QED
    BY <1>7, <1>8

\* No registration, sweep or denial takes away a record that is SENT, PARTIAL or
\* CANCELLING.
THEOREM ActiveRecordsSafe == Spec => ActiveRecordsStay
  <1> DEFINE Spared ==
        \A r \in registered \ registered' : status[r] \notin NeverEvicted
  <1>1. ASSUME TypeOK, Lockstep, LineInv, [Next]_vars
        PROVE  Spared
    <2> USE DEF callVars, recordVars, registryVars, semaphoreVars, nativeVars
    <2>1. ASSUME NEW r \in Requests, Submit(r)
          PROVE  Spared
      <3>1. CASE UNCHANGED registered
        BY <3>1
      <3>2. ASSUME AfterInsert(r) \ {r} \subseteq registered', handler[r] = "IDLE"
            PROVE  Spared
        <4>1. status[r] = "NONE"
          BY <1>1, <3>2 DEF Lockstep
        <4>2. \A x \in registered \ AfterInsert(r) : status[x] \notin NeverEvicted
          BY <1>1, <4>1, EvictionSpares
        <4> QED
          BY <3>2, <4>1, <4>2 DEF NeverEvicted
      <3> QED
        BY <2>1, <3>1, <3>2
        DEF Submit, SubmitReplay, SubmitRefused, SubmitDenied, SubmitRegister
    <2>2. ASSUME NEW r \in Requests, SweepRecord(r)
          PROVE  Spared
      BY <2>2 DEF SweepRecord, NeverEvicted, TerminalStatuses
    <2>3. ASSUME NEW r \in Requests, Call(r) PROVE Spared
      BY <2>3 DEF Call, AdmissionReturns, WaitElapses, AnswerDone
    <2>4. ASSUME NEW r \in Requests, Task(r) PROVE Spared
      <3>1. UNCHANGED registered
        BY <2>4, HolderSteps
        DEF Task, AcquireCancelled, AcquireAndSubmit, KeepsPermit,
            ReturnsPermit
      <3> QED
        BY <3>1
    <2>5. ASSUME NEW r \in Requests,
                 Disconnect(r) \/ ReaderPosts(r) \/ Cancel(r)
                   \/ DeadlinePasses(r)
          PROVE  Spared
      BY <2>5 DEF Disconnect, ReaderPosts, Cancel, DeadlinePasses
    <2>6. ASSUME NEW k \in Keys, DedupExpires(k) PROVE Spared
      BY <2>6 DEF DedupExpires
    <2>7. CASE UNCHANGED vars
      BY <2>7 DEF vars
    <2> QED
      BY <1>1, <2>1, <2>2, <2>3, <2>4, <2>5, <2>6, <2>7 DEF Next
  <1> HIDE DEF Spared
  <1>2. TypeOK /\ Lockstep /\ LineInv /\ [Next]_vars => [Spared]_vars
    BY <1>1
  <1>3. Spec => [][Spared]_vars
    BY <1>2, AlwaysLined, PTL DEF Spec
  <1> QED
    BY <1>3 DEF Spared, ActiveRecordsStay

-----------------------------------------------------------------------------
(* RequestExecution implements RequestContract.  The mapping is Contract.  *)
(* Waiting for and leaving the semaphore are Join, Start and Drop; every   *)
(* way a task that holds a permit ends is End; accepting a cancellation in *)
(* the line is Withdraw; everything else (admission, events, deadlines,    *)
(* sweeps) is a stutter.  Here: the mapped state, named.                   *)

Withdrawn == {r \in Requests :
                runner[r] = "WAITING" /\ status[r] = "CANCELLING"}

Outcome == [r \in Requests |->
              IF runner[r] = "DONE" THEN status[r] ELSE "NONE"]

\* A call that has not answered has reported nothing.
ReplyInv ==
  \A r \in Requests : handler[r] # "ANSWERED" => reply[r] = "NONE"

LEMMA NextReply == TypeOK /\ ReplyInv /\ [Next]_vars => ReplyInv'
  <1> SUFFICES ASSUME TypeOK, ReplyInv, [Next]_vars PROVE ReplyInv'
    OBVIOUS
  <1> USE DEF callVars, recordVars, registryVars, semaphoreVars, nativeVars
  <1>t. /\ handler \in [Requests -> {"IDLE", "ADMITTING", "WAITING", "ANSWERED",
                               "REPLAYED", "REFUSED", "GONE"}]
        /\ reply \in [Requests -> Statuses \cup {"NONE"}]
    BY DEF TypeOK
  <1>1. ASSUME NEW r \in Requests, NEW where,
               handler[r] # "ANSWERED",
               handler' = [handler EXCEPT ![r] = where],
               UNCHANGED reply
        PROVE  ReplyInv'
    BY <1>1, <1>t DEF ReplyInv
  <1>2. ASSUME NEW r \in Requests, Submit(r) \/ Disconnect(r)
        PROVE  ReplyInv'
    BY <1>1, <1>2
    DEF Submit, SubmitReplay, SubmitRefused, SubmitDenied, SubmitRegister,
        Disconnect
  <1>3. ASSUME NEW r \in Requests, Call(r) PROVE ReplyInv'
    <2>1. CASE AdmissionReturns(r) \/ WaitElapses(r)
      BY <1>1, <2>1 DEF AdmissionReturns, WaitElapses
    <2>2. CASE AnswerDone(r)
      BY <2>2, <1>t DEF AnswerDone, ReplyInv
    <2> QED
      BY <1>3, <2>1, <2>2 DEF Call
  <1>4. ASSUME UNCHANGED <<handler, reply>> PROVE ReplyInv'
    BY <1>4 DEF ReplyInv
  <1>5. ASSUME NEW r \in Requests, Task(r) PROVE ReplyInv'
    BY <1>4, <1>5
    DEF Task, AcquireCancelled, AcquireAndSubmit, LeaseTaken,
        BackendRefuses, BuildRefused, BackendFails, SubmissionFails,
        BackendAccepts, ConsumePartial, ConsumeOversize, ConsumeError, ConsumeResponse,
        DeadlineReached, AbortReturns
  <1>6. ASSUME NEW r \in Requests,
               ReaderPosts(r) \/ Cancel(r) \/ DeadlinePasses(r) \/ SweepRecord(r)
        PROVE  ReplyInv'
    BY <1>4, <1>6 DEF ReaderPosts, Cancel, DeadlinePasses, SweepRecord
  <1>7. ASSUME NEW k \in Keys, DedupExpires(k) PROVE ReplyInv'
    BY <1>4, <1>7 DEF DedupExpires
  <1>8. CASE UNCHANGED vars
    BY <1>4, <1>8 DEF vars
  <1> QED
    BY <1>2, <1>3, <1>5, <1>6, <1>7, <1>8 DEF Next

-----------------------------------------------------------------------------
(* The simulation.                                                         *)

ExecutionInv ==
  /\ TypeOK
  /\ Lockstep
  /\ LineInv
  /\ OutcomeConsistent
  /\ PermitsAccounted
  /\ ReplyInv

THEOREM InitContract == Init => Contract!Init
  BY DEF Init, Contract!Init, Running, Holding

\* Nothing the contract speaks of changes.
LEMMA Stutter ==
  ASSUME UNCHANGED <<waiters, reply>>,
         Withdrawn' = Withdrawn, Running' = Running, Outcome' = Outcome
  PROVE  UNCHANGED Contract!contractVars
  BY DEF Contract!contractVars, Withdrawn, Outcome

LEMMA QuietSteps ==
  ASSUME UNCHANGED <<waiters, reply, runner, status>>
  PROVE  UNCHANGED Contract!contractVars
  <1>1. Withdrawn' = Withdrawn /\ Running' = Running /\ Outcome' = Outcome
    BY DEF Withdrawn, Running, Outcome
  <1> QED
    BY <1>1, Stutter

LEMMA StepContract ==
  ASSUME ExecutionInv, [Next]_vars
  PROVE  [Contract!Next]_(Contract!contractVars)
  <1> USE DEF callVars, recordVars, registryVars, semaphoreVars, nativeVars
  <1>t. /\ runner \in [Requests -> {"NONE", "WAITING", "DONE"} \cup Holding]
        /\ status \in [Requests -> Statuses \cup {"NONE"}]
        /\ handler \in [Requests -> {"IDLE", "ADMITTING", "WAITING", "ANSWERED",
                               "REPLAYED", "REFUSED", "GONE"}]
        /\ reply \in [Requests -> Statuses \cup {"NONE"}]
        /\ waiters \in Seq(Requests)
    BY DEF ExecutionInv, TypeOK
  <1>i. Lockstep /\ LineInv /\ OutcomeConsistent
    BY DEF ExecutionInv
  <1>1. ASSUME NEW r \in Requests, Submit(r)
        PROVE  UNCHANGED Contract!contractVars
    <2>1. CASE UNCHANGED status
      BY <1>1, <2>1, QuietSteps
      DEF Submit, SubmitReplay, SubmitRefused, SubmitDenied, SubmitRegister
    <2>2. ASSUME NEW k \in Keys \cup {NoKey}, SubmitRegister(r, k)
          PROVE  UNCHANGED Contract!contractVars
      <3>1. /\ runner[r] = "NONE"
            /\ status' = [status EXCEPT ![r] = "RECEIVED"]
            /\ UNCHANGED <<runner, waiters, reply>>
        BY <2>2, <1>i DEF SubmitRegister, Lockstep
      <3>2. Withdrawn' = Withdrawn /\ Running' = Running /\ Outcome' = Outcome
        BY <3>1, <1>t DEF Withdrawn, Running, Outcome
      <3> QED
        BY <3>1, <3>2, Stutter
    <2> QED
      BY <1>1, <2>1, <2>2
      DEF Submit, SubmitReplay, SubmitRefused, SubmitDenied
  <1>2. ASSUME NEW r \in Requests, AdmissionReturns(r)
        PROVE  Contract!Join(r)
    <2>1. /\ runner[r] = "NONE"
          /\ runner' = [runner EXCEPT ![r] = "WAITING"]
          /\ status' = [status EXCEPT ![r] = "QUEUED"]
          /\ waiters' = Append(waiters, r)
          /\ UNCHANGED reply
      BY <1>2, <1>i DEF AdmissionReturns, Lockstep
    <2>2. ~Contract!InLine(r)
      BY <2>1, <1>i, <1>t DEF Contract!InLine, LineInv
    <2>3. r \notin Running /\ Outcome[r] = "NONE"
      BY <2>1 DEF Running, Holding, Outcome
    <2>4. Withdrawn' = Withdrawn /\ Running' = Running /\ Outcome' = Outcome
      BY <2>1, <1>t DEF Withdrawn, Running, Holding, Outcome
    <2> QED
      BY <2>1, <2>2, <2>3, <2>4 DEF Contract!Join, Withdrawn, Outcome
  <1>3. ASSUME NEW r \in Requests, WaitElapses(r) \/ Disconnect(r)
        PROVE  UNCHANGED Contract!contractVars
    BY <1>3, QuietSteps DEF WaitElapses, Disconnect
  <1>4. ASSUME NEW r \in Requests, AnswerDone(r)
        PROVE  Contract!Answer(r)
    <2>1. /\ runner[r] = "DONE"
          /\ reply' = [reply EXCEPT ![r] = status[r]]
          /\ UNCHANGED <<waiters, runner, status>>
          /\ reply[r] = "NONE"
      BY <1>4 DEF AnswerDone, ExecutionInv, ReplyInv
    <2>2. Outcome[r] = status[r] /\ status[r] # "NONE"
      BY <2>1, <1>i DEF Outcome, OutcomeConsistent, TerminalStatuses
    <2>3. Withdrawn' = Withdrawn /\ Running' = Running /\ Outcome' = Outcome
      BY <2>1 DEF Withdrawn, Running, Outcome
    <2> QED
      BY <2>1, <2>2, <2>3 DEF Contract!Answer, Withdrawn, Outcome
  <1>5. ASSUME NEW r \in Requests, Cancel(r)
        PROVE  Contract!Withdraw(r) \/ UNCHANGED Contract!contractVars
    <2>1. /\ status' = [status EXCEPT ![r] = "CANCELLING"]
          /\ status[r] \notin TerminalStatuses
          /\ UNCHANGED <<waiters, runner, reply>>
      BY <1>5 DEF Cancel
    <2>2. Running' = Running /\ Outcome' = Outcome
      BY <2>1, <1>t, <1>i DEF Running, Outcome, OutcomeConsistent
    <2>3. CASE runner[r] = "WAITING"
      <3>1. Withdrawn' = Withdrawn \cup {r}
        BY <2>1, <2>3, <1>t DEF Withdrawn
      <3>2. Contract!InLine(r)
        BY <2>3, <1>i, <1>t DEF Contract!InLine, LineInv
      <3> QED
        BY <2>1, <2>2, <3>1, <3>2 DEF Contract!Withdraw, Withdrawn, Outcome
    <2>4. CASE runner[r] # "WAITING"
      <3>1. Withdrawn' = Withdrawn
        BY <2>1, <2>4, <1>t DEF Withdrawn
      <3> QED
        BY <2>1, <2>2, <3>1, Stutter
    <2> QED
      BY <2>3, <2>4
  <1>6. ASSUME NEW r \in Requests, AcquireCancelled(r)
        PROVE  Contract!Drop(r)
    <2>1. /\ waiters # << >>
          /\ r = Head(waiters)
          /\ waiters' = Tail(waiters)
          /\ runner[r] = "WAITING"
          /\ status[r] = "CANCELLING"
          /\ runner' = [runner EXCEPT ![r] = "DONE"]
          /\ status' = [status EXCEPT ![r] = "CANCELLED"]
          /\ UNCHANGED reply
      BY <1>6, <1>t, <1>i DEF AcquireCancelled, IsNext, LineInv
    <2>2. r \in Withdrawn /\ Withdrawn' = Withdrawn \ {r}
      BY <2>1, <1>t DEF Withdrawn
    <2>3. Running' = Running /\ Outcome' = [Outcome EXCEPT ![r] = "CANCELLED"]
      BY <2>1, <1>t DEF Running, Holding, Outcome
    <2> QED
      BY <2>1, <2>2, <2>3 DEF Contract!Drop, Withdrawn, Outcome
  <1>7. ASSUME NEW r \in Requests, AcquireAndSubmit(r)
        PROVE  Contract!Start(r)
    <2>1. /\ waiters # << >>
          /\ r = Head(waiters)
          /\ permits > 0
          /\ waiters' = Tail(waiters)
          /\ runner[r] = "WAITING"
          /\ status[r] # "CANCELLING"
          /\ runner' = [runner EXCEPT ![r] = "SUBMITTING"]
          /\ UNCHANGED <<status, reply>>
      BY <1>7, <1>t, <1>i DEF AcquireAndSubmit, IsNext, LineInv
    <2>2. r \notin Withdrawn /\ Withdrawn' = Withdrawn
      BY <2>1, <1>t DEF Withdrawn
    <2>3. Running' = Running \cup {r} /\ Outcome' = Outcome
      BY <2>1, <1>t DEF Running, Holding, Outcome
    <2>4. Cardinality(Running) < MaxConcurrent
      BY <2>1, RunningFinite, ConstantsAssumption
      DEF ExecutionInv, TypeOK, PermitsAccounted
    <2>5. Contract!Cardinality(Running) = Cardinality(Running)
      BY DEF Contract!Cardinality, Cardinality
    <2> QED
      BY <2>1, <2>2, <2>3, <2>4, <2>5 DEF Contract!Start, Withdrawn, Outcome
  <1>8. ASSUME NEW r \in Requests,
               LeaseTaken(r) \/ BackendAccepts(r) \/ ConsumePartial(r)
                 \/ ConsumeOversize(r) \/ DeadlineReached(r)
        PROVE  UNCHANGED Contract!contractVars
    <2>1. KeepsPermit(r)
      BY <1>8, HolderSteps
    <2>2. /\ UNCHANGED reply
          /\ \A q \in Requests \ {r} : status'[q] = status[q]
      BY <1>8, <1>t
      DEF LeaseTaken, BackendAccepts, ConsumePartial, ConsumeOversize,
          DeadlineReached
    <2>3. /\ runner[r] \in Holding /\ runner'[r] \in Holding
          /\ \A q \in Requests \ {r} : runner'[q] = runner[q]
          /\ UNCHANGED waiters
      BY <2>1, <1>t DEF KeepsPermit
    <2>4. Withdrawn' = Withdrawn /\ Running' = Running /\ Outcome' = Outcome
      BY <2>2, <2>3 DEF Withdrawn, Running, Outcome, Holding
    <2> QED
      BY <2>2, <2>3, <2>4, Stutter
  <1>9. ASSUME NEW r \in Requests,
               BackendRefuses(r) \/ BuildRefused(r) \/ BackendFails(r)
                 \/ ConsumeError(r) \/ ConsumeResponse(r) \/ AbortReturns(r)
        PROVE  Contract!End(r)
    <2>1. ReturnsPermit(r) /\ Ends(r)
      BY <1>9, HolderSteps, TaskEnds DEF ExecutionInv
    <2>2. /\ r \in Running
          /\ UNCHANGED waiters
          /\ runner' = [runner EXCEPT ![r] = "DONE"]
      BY <2>1 DEF ReturnsPermit, Running
    <2>3. PICK s \in TerminalStatuses : status' = [status EXCEPT ![r] = s]
      BY <2>1 DEF Ends
    <2>4. UNCHANGED reply
      BY <1>9
      DEF BackendRefuses, BuildRefused, BackendFails, SubmissionFails,
          ConsumeError, ConsumeResponse, AbortReturns
    <2>5. /\ Withdrawn' = Withdrawn
          /\ Running' = Running \ {r}
          /\ Outcome' = [Outcome EXCEPT ![r] = s]
      BY <2>2, <2>3, <1>t DEF Withdrawn, Running, Holding, Outcome
    <2>6. s \in Contract!Outcomes
      BY DEF TerminalStatuses, Contract!Outcomes
    <2> QED
      BY <2>2, <2>4, <2>5, <2>6 DEF Contract!End, Withdrawn, Outcome
  <1>10. ASSUME NEW r \in Requests,
                ReaderPosts(r) \/ DeadlinePasses(r) \/ SweepRecord(r)
         PROVE  UNCHANGED Contract!contractVars
    BY <1>10, QuietSteps DEF ReaderPosts, DeadlinePasses, SweepRecord
  <1>11. ASSUME NEW k \in Keys, DedupExpires(k)
         PROVE  UNCHANGED Contract!contractVars
    BY <1>11, QuietSteps DEF DedupExpires
  <1>12. CASE UNCHANGED vars
    BY <1>12, QuietSteps DEF vars
  <1> QED
    BY <1>1, <1>2, <1>3, <1>4, <1>5, <1>6, <1>7, <1>8, <1>9, <1>10, <1>11,
       <1>12
    DEF Next, Call, Task, Contract!Next

\* The executor implements the contract: one line, a bounded number executing,
\* one outcome each, and the reply of submit is that outcome.
THEOREM ContractImplemented == Spec => ImplementsContract
  <1>1. Init => ReplyInv
    BY DEF Init, ReplyInv
  <1>2. TypeOK /\ ReplyInv /\ [Next]_vars => ReplyInv'
    BY NextReply
  <1>3. Spec => []ExecutionInv
    BY <1>1, <1>2, AlwaysLined, OutcomesConsistent, PermitsSafe, PTL
    DEF Spec, ExecutionInv
  <1>4. ExecutionInv /\ [Next]_vars => [Contract!Next]_(Contract!contractVars)
    BY StepContract
  <1> QED
    BY <1>3, <1>4, InitContract, PTL DEF Spec, ImplementsContract, Contract!Spec
=============================================================================

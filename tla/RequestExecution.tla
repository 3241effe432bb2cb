-------------------------- MODULE RequestExecution --------------------------
(***************************************************************************)
(* The life of a Bloomberg request inside the gateway: the submit call of  *)
(* a client (RequestExecutor.submit), the task it starts (_run, _consume,  *)
(* _finalize), the request registry with its admission bound, eviction and *)
(* deduplication index, and the native lease (correlation id) behind it.   *)
(*                                                                         *)
(* The gateway runs on one asyncio event loop, so the code between two     *)
(* awaits is one action here; whatever other coroutines, the sweeper, the  *)
(* reader thread and the clock may do while a coroutine is suspended is an *)
(* action of theirs that is enabled meanwhile.                             *)
(***************************************************************************)
EXTENDS Naturals, Sequences, FiniteSets

CONSTANTS
  Requests,          (* one element per call of submit                     *)
  Keys,              (* (principal, client_request_id) pairs               *)
  NoKey,             (* a submit without client_request_id                 *)
  NoRequest,
  MaxConcurrent,     (* config.max_concurrent, the semaphore               *)
  MaxQueued,         (* config.max_queued                                  *)
  MaxRecords,        (* MAX_RECORDS of the registry                        *)
  MaxMessages,       (* maximum_response_bytes, a message being one unit   *)
  CircuitThreshold,  (* entitlement_failure_circuit_threshold              *)
  SubmitFailures,    (* how a native submission may fail in this instance  *)
  Disconnects,       (* whether clients may abandon a submit call          *)
  InboxBound         (* bound of the model: items a reader is ahead by     *)

ASSUME ConstantsAssumption ==
  /\ IsFiniteSet(Requests)
  /\ NoRequest \notin Requests
  /\ NoKey \notin Keys
  /\ MaxConcurrent \in Nat \ {0}
  /\ MaxQueued \in Nat
  /\ MaxRecords \in Nat
  /\ MaxMessages \in Nat
  /\ CircuitThreshold \in Nat \ {0}
  /\ SubmitFailures \subseteq {"REFUSED", "MALFORMED", "TRANSPORT"}
  /\ Disconnects \in BOOLEAN
  /\ InboxBound \in Nat

VARIABLES
  handler,     (* handler[r]: where the client's submit call is            *)
  reply,       (* reply[r]: the final status submit returned, or "NONE"    *)
  replayOf,    (* replayOf[r]: the request an idempotent replay returned   *)
  runner,      (* runner[r]: where the background task of r is             *)
  key,         (* key[r]: the idempotency key r was submitted with         *)
  registered,  (* requests whose record the registry holds                 *)
  stamp,       (* created_at of each record, as its rank                   *)
  clock,       (* the next rank                                            *)
  status,      (* record.status                                            *)
  error,       (* the code of record.error, or "NONE"                      *)
  final,       (* the content of record.final_result, or "NONE"            *)
  received,    (* record.byte_count, in messages                           *)
  tokens,      (* requests whose record.native_token is not None           *)
  leases,      (* requests whose correlation id the backend still holds    *)
  inbox,       (* inbox[r]: the asyncio queue the reader thread feeds      *)
  permits,     (* value of the semaphore                                   *)
  waiters,     (* tasks queued for the semaphore, in FIFO order            *)
  expired,     (* requests whose deadline has passed                       *)
  acked,       (* requests a client was told are "cancelled": true         *)
  cancelSent,  (* requests for which session.cancel was called             *)
  dedup,       (* dedup[k]: the request the index maps k to                *)
  authFailures (* consecutive entitlement failures, up to the threshold    *)

callVars == <<handler, reply, replayOf, key>>
recordVars == <<status, error, final, received, tokens>>
registryVars == <<registered, stamp, clock, dedup>>
semaphoreVars == <<permits, waiters>>
nativeVars == <<leases, inbox, cancelSent>>
vars == <<callVars, runner, recordVars, registryVars, semaphoreVars,
          nativeVars, expired, acked, authFailures>>

-----------------------------------------------------------------------------
InFlightStatuses == {"RECEIVED", "QUEUED", "SENT", "PARTIAL", "CANCELLING"}
TerminalStatuses == {"COMPLETED", "FAILED", "TIMED_OUT", "CANCELLED"}
NeverEvicted == {"SENT", "PARTIAL", "CANCELLING"}
Statuses == InFlightStatuses \cup TerminalStatuses

\* Items a reader thread may post: messages and terminal GatewayErrors.
StreamErrors == {"TIMEOUT", "REQUEST_FAILED", "NOT_ENTITLED"}
Items == {"PARTIAL", "RESPONSE"} \cup StreamErrors
ErrorCodes ==
  StreamErrors \cup {"CANCELLED", "TOO_LARGE", "INTERNAL", "NO_NORMALIZER",
                    "MALFORMED"}

\* Runner states that hold a permit of the semaphore: suspended in
\* backend.submit_request before and after its correlation id is stored, in
\* queue.get, or in backend.cancel_request.
Holding == {"SUBMITTING", "BUILDING", "CONSUMING", "EXPIRING", "OVERSIZE"}
Streaming == {"CONSUMING", "EXPIRING", "OVERSIZE"}

Capacity == MaxConcurrent + MaxQueued
InFlight == {r \in registered : status[r] \in InFlightStatuses}
Running == {r \in Requests : runner[r] \in Holding}
CircuitOpen == authFailures = CircuitThreshold

\* The client has been given the request id, by its own call or by a replay.
Known(r) == handler[r] = "ANSWERED" \/ \E q \in Requests : replayOf[q] = r

Init ==
  /\ handler = [r \in Requests |-> "IDLE"]
  /\ reply = [r \in Requests |-> "NONE"]
  /\ replayOf = [r \in Requests |-> NoRequest]
  /\ runner = [r \in Requests |-> "NONE"]
  /\ key = [r \in Requests |-> NoKey]
  /\ registered = {}
  /\ stamp = [r \in Requests |-> 0]
  /\ clock = 1
  /\ status = [r \in Requests |-> "NONE"]
  /\ error = [r \in Requests |-> "NONE"]
  /\ final = [r \in Requests |-> "NONE"]
  /\ received = [r \in Requests |-> 0]
  /\ tokens = {}
  /\ leases = {}
  /\ inbox = [r \in Requests |-> << >>]
  /\ permits = MaxConcurrent
  /\ waiters = << >>
  /\ expired = {}
  /\ acked = {}
  /\ cancelSent = {}
  /\ dedup = [k \in Keys |-> NoRequest]
  /\ authFailures = 0

-----------------------------------------------------------------------------
(* Registry helpers.                                                       *)

\* dedupe_lookup followed by registry.get: the record a submit replays.
ReplayTarget(k) ==
  IF k \in Keys /\ dedup[k] \in registered THEN dedup[k] ELSE NoRequest

CreatedAt(x, r) == IF x = r THEN clock ELSE stamp[x]

\* Faulty variant: eviction that forgets which records are still running.
AfterInsertEvictingActive(r) ==
  LET all == registered \cup {r}
      oldest == CHOOSE x \in all :
                  \A y \in all : CreatedAt(x, r) <= CreatedAt(y, r)
  IN  IF Cardinality(all) > MaxRecords THEN all \ {oldest} ELSE all

\* The records left once r is inserted and _evict_locked has run: of those not
\* SENT, PARTIAL or CANCELLING, the oldest goes when the registry overflows.
AfterInsert(r) ==
  LET all == registered \cup {r}
      candidates == {x \in all : x = r \/ status[x] \notin NeverEvicted}
      oldest == CHOOSE x \in candidates :
                  \A y \in candidates : CreatedAt(x, r) <= CreatedAt(y, r)
  IN  IF Cardinality(all) > MaxRecords THEN all \ {oldest} ELSE all

\* Faulty variant: the bound is off by one.
MayRegisterOneMore == ~CircuitOpen /\ Cardinality(InFlight) <= Capacity

\* The checks submit makes before it registers anything.
MayRegister == ~CircuitOpen /\ Cardinality(InFlight) < Capacity

-----------------------------------------------------------------------------
(* submit: the client's call.                                              *)

\* The key is in the index and its record in the registry: a snapshot of that
\* request is returned and nothing is submitted.
SubmitReplay(r, k) ==
  /\ handler[r] = "IDLE"
  /\ ReplayTarget(k) # NoRequest
  /\ handler' = [handler EXCEPT ![r] = "REPLAYED"]
  /\ replayOf' = [replayOf EXCEPT ![r] = ReplayTarget(k)]
  /\ key' = [key EXCEPT ![r] = k]
  /\ UNCHANGED <<reply, runner, recordVars, registryVars, semaphoreVars,
                 nativeVars, expired, acked, authFailures>>

\* Open entitlement circuit or full registry: an error, and no record.
SubmitRefused(r, k) ==
  /\ handler[r] = "IDLE"
  /\ ReplayTarget(k) = NoRequest
  /\ ~MayRegister
  /\ handler' = [handler EXCEPT ![r] = "REFUSED"]
  /\ key' = [key EXCEPT ![r] = k]
  /\ UNCHANGED <<reply, replayOf, runner, recordVars, registryVars,
                 semaphoreVars, nativeVars, expired, acked, authFailures>>

\* The record is inserted, the quota engine denies the request before its
\* first await, and unregister removes the record (but not what it evicted).
SubmitDenied(r, k) ==
  /\ handler[r] = "IDLE"
  /\ ReplayTarget(k) = NoRequest
  /\ MayRegister
  /\ handler' = [handler EXCEPT ![r] = "REFUSED"]
  /\ key' = [key EXCEPT ![r] = k]
  /\ registered' = AfterInsert(r) \ {r}
  /\ UNCHANGED <<reply, replayOf, runner, recordVars, stamp, clock, dedup,
                 semaphoreVars, nativeVars, expired, acked, authFailures>>

\* Faulty variant: the key enters the index before the request is admitted.
SubmitRegisterKeyFirst(r, k) ==
  /\ handler[r] = "IDLE"
  /\ ReplayTarget(k) = NoRequest
  /\ MayRegister
  /\ handler' = [handler EXCEPT ![r] = "ADMITTING"]
  /\ key' = [key EXCEPT ![r] = k]
  /\ registered' = AfterInsert(r)
  /\ stamp' = [stamp EXCEPT ![r] = clock]
  /\ clock' = clock + 1
  /\ status' = [status EXCEPT ![r] = "RECEIVED"]
  /\ dedup' = IF k \in Keys THEN [dedup EXCEPT ![k] = r] ELSE dedup
  /\ UNCHANGED <<reply, replayOf, runner, error, final, received, tokens,
                 semaphoreVars, nativeVars, expired, acked, authFailures>>

\* The record is inserted and counted by the quota engine; the call is then
\* suspended while a worker thread writes the usage file.
SubmitRegister(r, k) ==
  /\ handler[r] = "IDLE"
  /\ ReplayTarget(k) = NoRequest
  /\ MayRegister
  /\ handler' = [handler EXCEPT ![r] = "ADMITTING"]
  /\ key' = [key EXCEPT ![r] = k]
  /\ registered' = AfterInsert(r)
  /\ stamp' = [stamp EXCEPT ![r] = clock]
  /\ clock' = clock + 1
  /\ status' = [status EXCEPT ![r] = "RECEIVED"]
  /\ UNCHANGED <<reply, replayOf, runner, error, final, received, tokens,
                 dedup, semaphoreVars, nativeVars, expired, acked,
                 authFailures>>

\* admit_request returns: the key is registered, the task is created and, as
\* its first step, marks the record QUEUED and asks for the semaphore.
AdmissionReturns(r) ==
  /\ handler[r] = "ADMITTING"
  /\ handler' = [handler EXCEPT ![r] = "WAITING"]
  /\ dedup' = IF key[r] \in Keys THEN [dedup EXCEPT ![key[r]] = r] ELSE dedup
  /\ runner' = [runner EXCEPT ![r] = "WAITING"]
  /\ status' = [status EXCEPT ![r] = "QUEUED"]
  /\ waiters' = Append(waiters, r)
  /\ UNCHANGED <<reply, replayOf, key, error, final, received, tokens,
                 registered, stamp, clock, permits, nativeVars, expired,
                 acked, authFailures>>

\* wait_seconds pass first: submit returns the request id and a snapshot.
WaitElapses(r) ==
  /\ handler[r] = "WAITING"
  /\ runner[r] # "DONE"
  /\ handler' = [handler EXCEPT ![r] = "ANSWERED"]
  /\ UNCHANGED <<reply, replayOf, key, runner, recordVars, registryVars,
                 semaphoreVars, nativeVars, expired, acked, authFailures>>

\* done is set: submit returns the completed result.
AnswerDone(r) ==
  /\ handler[r] = "WAITING"
  /\ runner[r] = "DONE"
  /\ handler' = [handler EXCEPT ![r] = "ANSWERED"]
  /\ reply' = [reply EXCEPT ![r] = status[r]]
  /\ UNCHANGED <<replayOf, key, runner, recordVars, registryVars,
                 semaphoreVars, nativeVars, expired, acked, authFailures>>

\* The MCP server cancels the handler: the suspended submit is abandoned, with
\* neither of its except clauses run. A task already started goes on.
Disconnect(r) ==
  /\ Disconnects
  /\ handler[r] \in {"ADMITTING", "WAITING"}
  /\ handler' = [handler EXCEPT ![r] = "GONE"]
  /\ UNCHANGED <<reply, replayOf, key, runner, recordVars, registryVars,
                 semaphoreVars, nativeVars, expired, acked, authFailures>>

-----------------------------------------------------------------------------
(* _run: the background task.                                              *)

\* The end of a task that holds a permit: the lease is released if the record
\* has a native token, the semaphore is released, done is set, and the queue
\* the reader thread feeds is dropped.
Finish(r) ==
  /\ runner' = [runner EXCEPT ![r] = "DONE"]
  /\ permits' = permits + 1
  /\ tokens' = tokens \ {r}
  /\ leases' = IF r \in tokens THEN leases \ {r} ELSE leases
  /\ inbox' = [inbox EXCEPT ![r] = << >>]

\* Faulty variant: a task does not wait for a permit.
IsNextAnyway(r) ==
  /\ waiters # << >>
  /\ r = Head(waiters)

\* The semaphore is handed out in FIFO order.
IsNext(r) ==
  /\ waiters # << >>
  /\ r = Head(waiters)
  /\ permits > 0

\* Faulty variants: the early return leaves the status, or keeps the permit.
AcquireCancelledKeepingStatus(r) ==
  /\ IsNext(r)
  /\ status[r] = "CANCELLING"
  /\ waiters' = Tail(waiters)
  /\ runner' = [runner EXCEPT ![r] = "DONE"]
  /\ UNCHANGED <<callVars, recordVars, registryVars, permits, nativeVars,
                 expired, acked, authFailures>>

AcquireCancelledKeepingPermit(r) ==
  /\ IsNext(r)
  /\ status[r] = "CANCELLING"
  /\ waiters' = Tail(waiters)
  /\ permits' = permits - 1
  /\ status' = [status EXCEPT ![r] = "CANCELLED"]
  /\ runner' = [runner EXCEPT ![r] = "DONE"]
  /\ UNCHANGED <<callVars, error, final, received, tokens, registryVars,
                 nativeVars, expired, acked, authFailures>>

\* A request cancelled while it was queued ends without being submitted.
AcquireCancelled(r) ==
  /\ IsNext(r)
  /\ status[r] = "CANCELLING"
  /\ waiters' = Tail(waiters)
  /\ status' = [status EXCEPT ![r] = "CANCELLED"]
  /\ runner' = [runner EXCEPT ![r] = "DONE"]
  /\ UNCHANGED <<callVars, error, final, received, tokens, registryVars,
                 permits, nativeVars, expired, acked, authFailures>>

\* Faulty variant: cancellation in the queue is not looked at.
AcquireIgnoringCancel(r) ==
  /\ IsNext(r)
  /\ waiters' = Tail(waiters)
  /\ permits' = permits - 1
  /\ runner' = [runner EXCEPT ![r] = "SUBMITTING"]
  /\ UNCHANGED <<callVars, recordVars, registryVars, nativeVars, expired,
                 acked, authFailures>>

AcquireAndSubmit(r) ==
  /\ IsNext(r)
  /\ status[r] # "CANCELLING"
  /\ waiters' = Tail(waiters)
  /\ permits' = permits - 1
  /\ runner' = [runner EXCEPT ![r] = "SUBMITTING"]
  /\ UNCHANGED <<callVars, recordVars, registryVars, nativeVars, expired,
                 acked, authFailures>>

\* _run's except clause for a GatewayError of backend.submit_request: the
\* record fails, and as it has no token nothing is released.
SubmissionFails(r, code) ==
  /\ status' = [status EXCEPT ![r] = "FAILED"]
  /\ error' = [error EXCEPT ![r] = code]
  /\ runner' = [runner EXCEPT ![r] = "DONE"]
  /\ permits' = permits + 1
  /\ UNCHANGED <<callVars, final, received, tokens, registryVars, waiters,
                 inbox, cancelSent, expired, acked, authFailures>>

\* No session, an unknown operation, schema drift or a service that is not
\* open: the submission is refused before it has a correlation id.
BackendRefuses(r) ==
  /\ runner[r] = "SUBMITTING"
  /\ "REFUSED" \in SubmitFailures
  /\ SubmissionFails(r, "REQUEST_FAILED")
  /\ UNCHANGED leases

\* The correlation id is stored; worker threads then create the native request,
\* populate it and send it.
LeaseTaken(r) ==
  /\ runner[r] = "SUBMITTING"
  /\ runner' = [runner EXCEPT ![r] = "BUILDING"]
  /\ leases' = leases \cup {r}
  /\ UNCHANGED <<callVars, recordVars, registryVars, semaphoreVars, inbox,
                 cancelSent, expired, acked, authFailures>>

\* A GatewayError of the builder (no request schema, or a parameter
\* populate_request refuses) is raised as it is: the correlation id stays.
BuildRefused(r) ==
  /\ runner[r] = "BUILDING"
  /\ "MALFORMED" \in SubmitFailures
  /\ SubmissionFails(r, "MALFORMED")
  /\ UNCHANGED leases

\* Faulty variant: the failed submission keeps its correlation id.
BackendFailsKeepingLease(r) ==
  /\ runner[r] = "BUILDING"
  /\ "TRANSPORT" \in SubmitFailures
  /\ SubmissionFails(r, "REQUEST_FAILED")
  /\ UNCHANGED leases

\* Any other exception of the native calls, or the session being gone when it
\* is to be used: the correlation id is popped.
BackendFails(r) ==
  /\ runner[r] = "BUILDING"
  /\ "TRANSPORT" \in SubmitFailures
  /\ SubmissionFails(r, "REQUEST_FAILED")
  /\ leases' = leases \ {r}

\* Faulty variant: the loop never looks at the deadline.
LoopTopForever(r) ==
  /\ runner' = [runner EXCEPT ![r] = "CONSUMING"]
  /\ UNCHANGED cancelSent

\* The top of _consume's loop: past the deadline the native request is
\* cancelled, otherwise the task waits for the next item.
LoopTop(r) ==
  /\ runner' = [runner EXCEPT ![r] =
                  IF r \in expired THEN "EXPIRING" ELSE "CONSUMING"]
  /\ cancelSent' = IF r \in expired THEN cancelSent \cup {r} ELSE cancelSent

\* backend.submit_request returns: the record is SENT, whatever it was.
BackendAccepts(r) ==
  /\ runner[r] = "BUILDING"
  /\ status' = [status EXCEPT ![r] = "SENT"]
  /\ tokens' = tokens \cup {r}
  /\ LoopTop(r)
  /\ UNCHANGED <<callVars, error, final, received, leases, registryVars,
                 semaphoreVars, inbox, expired, acked, authFailures>>

-----------------------------------------------------------------------------
(* The reader thread (read_event_queue): messages in any number, then one  *)
(* terminal item.                                                          *)

StreamOpen(r) == \A i \in DOMAIN inbox[r] : inbox[r][i] = "PARTIAL"

ReaderPosts(r) ==
  /\ runner[r] = "CONSUMING"
  /\ StreamOpen(r)
  /\ Len(inbox[r]) < InboxBound
  /\ \E item \in Items : inbox' = [inbox EXCEPT ![r] = Append(@, item)]
  /\ UNCHANGED <<callVars, runner, recordVars, registryVars, semaphoreVars,
                 leases, cancelSent, expired, acked, authFailures>>

-----------------------------------------------------------------------------
(* _consume: the body of its loop, one action per way an iteration ends.   *)

NextItem(r, item) ==
  /\ runner[r] = "CONSUMING"
  /\ inbox[r] # << >>
  /\ Head(inbox[r]) = item

\* Faulty variant: one message too many fits the budget.
WithinBudgetOffByOne(r) == received[r] <= MaxMessages

\* The size check that follows the bookkeeping of every message.
WithinBudget(r) == received[r] < MaxMessages

ConsumePartial(r) ==
  /\ NextItem(r, "PARTIAL")
  /\ WithinBudget(r)
  /\ status' = [status EXCEPT ![r] = "PARTIAL"]
  /\ received' = [received EXCEPT ![r] = @ + 1]
  /\ inbox' = [inbox EXCEPT ![r] = Tail(@)]
  /\ LoopTop(r)
  /\ UNCHANGED <<callVars, error, final, tokens, leases, registryVars,
                 semaphoreVars, expired, acked, authFailures>>

\* The byte budget is exceeded: session.cancel, then RESPONSE_TOO_LARGE.
ConsumeOversize(r) ==
  /\ \E item \in {"PARTIAL", "RESPONSE"} :
       /\ NextItem(r, item)
       /\ status' = IF item = "PARTIAL"
                    THEN [status EXCEPT ![r] = "PARTIAL"] ELSE status
  /\ ~WithinBudget(r)
  /\ received' = [received EXCEPT ![r] = @ + 1]
  /\ inbox' = [inbox EXCEPT ![r] = Tail(@)]
  /\ runner' = [runner EXCEPT ![r] = "OVERSIZE"]
  /\ cancelSent' = cancelSent \cup {r}
  /\ UNCHANGED <<callVars, error, final, tokens, leases, registryVars,
                 semaphoreVars, expired, acked, authFailures>>

\* The code counts on past the threshold; the count is only ever compared with
\* the threshold, so the model stops there.
CountAuthFailure ==
  authFailures' = IF CircuitOpen THEN authFailures ELSE authFailures + 1

\* A GatewayError ends the request; for a record still CANCELLING, whatever
\* the error was, it means the cancellation took effect.
ConsumeError(r) ==
  /\ \E item \in StreamErrors :
       LET code == IF status[r] = "CANCELLING" THEN "CANCELLED" ELSE item
       IN  /\ NextItem(r, item)
           /\ error' = [error EXCEPT ![r] = code]
           /\ status' = [status EXCEPT ![r] =
                           CASE code = "TIMEOUT" -> "TIMED_OUT"
                             [] code = "CANCELLED" -> "CANCELLED"
                             [] OTHER -> "FAILED"]
           /\ IF code = "NOT_ENTITLED"
              THEN CountAuthFailure ELSE UNCHANGED authFailures
  /\ Finish(r)
  /\ UNCHANGED <<callVars, final, received, registryVars, waiters,
                 cancelSent, expired, acked>>

\* The final response.  _finalize accounts for item-level entitlement errors,
\* then stores inline data or an artifact, or refuses a normalized result it
\* has no normalizer for; an exception (the result store is full) fails it.
ConsumeResponse(r) ==
  /\ NextItem(r, "RESPONSE")
  /\ WithinBudget(r)
  /\ received' = [received EXCEPT ![r] = @ + 1]
  /\ CountAuthFailure \/ authFailures' = 0
  /\ \E content \in {"DATA", "ARTIFACT", "ERROR", "NONE"} :
       /\ final' = [final EXCEPT ![r] = content]
       /\ status' = [status EXCEPT ![r] =
            IF content \in {"DATA", "ARTIFACT"} THEN "COMPLETED" ELSE "FAILED"]
       /\ error' = [error EXCEPT ![r] =
            CASE content = "ERROR" -> "NO_NORMALIZER"
              [] content = "NONE" -> "INTERNAL"
              [] OTHER -> @]
  /\ Finish(r)
  /\ UNCHANGED <<callVars, registryVars, waiters, cancelSent, expired, acked>>

\* queue.get timed out (at most one second) and the deadline has passed.
DeadlineReached(r) ==
  /\ runner[r] = "CONSUMING"
  /\ r \in expired
  /\ LoopTop(r)
  /\ UNCHANGED <<callVars, recordVars, registryVars, semaphoreVars, leases,
                 inbox, expired, acked, authFailures>>

\* The native cancel of an expired or oversized request returns.
AbortReturns(r) ==
  /\ runner[r] \in {"EXPIRING", "OVERSIZE"}
  /\ status' = [status EXCEPT ![r] =
                  IF runner[r] = "EXPIRING" THEN "TIMED_OUT" ELSE "FAILED"]
  /\ error' = [error EXCEPT ![r] =
                 IF runner[r] = "EXPIRING" THEN "TIMEOUT" ELSE "TOO_LARGE"]
  /\ Finish(r)
  /\ UNCHANGED <<callVars, final, received, registryVars, waiters,
                 cancelSent, expired, acked, authFailures>>

-----------------------------------------------------------------------------
(* cancel_request, the clock and the sweeper.                              *)

\* Faulty variant: a finished record can be cancelled.
CancelFinished(r) ==
  /\ Known(r)
  /\ r \in registered
  /\ status[r] # "CANCELLING"
  /\ status' = [status EXCEPT ![r] = "CANCELLING"]
  /\ acked' = acked \cup {r}
  /\ cancelSent' = IF r \in tokens THEN cancelSent \cup {r} ELSE cancelSent
  /\ UNCHANGED <<callVars, runner, error, final, received, tokens,
                 registryVars, semaphoreVars, leases, inbox, expired,
                 authFailures>>

\* A known, unfinished record becomes CANCELLING; the native request is
\* cancelled only if the record already carries its token.
Cancel(r) ==
  /\ Known(r)
  /\ r \in registered
  /\ status[r] \notin TerminalStatuses
  /\ status[r] # "CANCELLING"
  /\ status' = [status EXCEPT ![r] = "CANCELLING"]
  /\ acked' = acked \cup {r}
  /\ cancelSent' = IF r \in tokens THEN cancelSent \cup {r} ELSE cancelSent
  /\ UNCHANGED <<callVars, runner, error, final, received, tokens,
                 registryVars, semaphoreVars, leases, inbox, expired,
                 authFailures>>

DeadlinePasses(r) ==
  /\ runner[r] \notin {"NONE", "DONE"}
  /\ r \notin expired
  /\ expired' = expired \cup {r}
  /\ UNCHANGED <<callVars, runner, recordVars, registryVars, semaphoreVars,
                 nativeVars, acked, authFailures>>

\* sweep: the result TTL of a finished record has passed.
SweepRecord(r) ==
  /\ r \in registered
  /\ status[r] \in TerminalStatuses
  /\ registered' = registered \ {r}
  /\ UNCHANGED <<callVars, runner, recordVars, stamp, clock, dedup,
                 semaphoreVars, nativeVars, expired, acked, authFailures>>

\* The deduplication window of an entry has passed (sweep or dedupe_lookup).
DedupExpires(k) ==
  /\ dedup[k] # NoRequest
  /\ dedup' = [dedup EXCEPT ![k] = NoRequest]
  /\ UNCHANGED <<callVars, runner, recordVars, registered, stamp, clock,
                 semaphoreVars, nativeVars, expired, acked, authFailures>>

-----------------------------------------------------------------------------
Submit(r) ==
  \E k \in Keys \cup {NoKey} :
    \/ SubmitReplay(r, k)
    \/ SubmitRefused(r, k)
    \/ SubmitDenied(r, k)
    \/ SubmitRegister(r, k)

Call(r) ==
  AdmissionReturns(r) \/ WaitElapses(r) \/ AnswerDone(r)

Task(r) ==
  \/ AcquireCancelled(r)
  \/ AcquireAndSubmit(r)
  \/ BackendRefuses(r)
  \/ LeaseTaken(r)
  \/ BuildRefused(r)
  \/ BackendFails(r)
  \/ BackendAccepts(r)
  \/ ConsumePartial(r)
  \/ ConsumeOversize(r)
  \/ ConsumeError(r)
  \/ ConsumeResponse(r)
  \/ DeadlineReached(r)
  \/ AbortReturns(r)

Next ==
  \/ \E r \in Requests :
       \/ Submit(r)
       \/ Call(r)
       \/ Disconnect(r)
       \/ Task(r)
       \/ ReaderPosts(r)
       \/ Cancel(r)
       \/ DeadlinePasses(r)
       \/ SweepRecord(r)
  \/ \E k \in Keys : DedupExpires(k)

Spec == Init /\ [][Next]_vars

\* The event loop runs every ready coroutine, worker threads return, and time
\* passes.  Clients, Bloomberg and the sweeper owe nothing.
Fairness ==
  \A r \in Requests :
    /\ WF_vars(Call(r))
    /\ WF_vars(Task(r))
    /\ WF_vars(DeadlinePasses(r))

FairSpec == Spec /\ Fairness

-----------------------------------------------------------------------------
(* Properties.                                                             *)

\* Every variable has its type.
TypeOK ==
  /\ handler \in [Requests -> {"IDLE", "ADMITTING", "WAITING", "ANSWERED",
                               "REPLAYED", "REFUSED", "GONE"}]
  /\ reply \in [Requests -> Statuses \cup {"NONE"}]
  /\ replayOf \in [Requests -> Requests \cup {NoRequest}]
  /\ runner \in [Requests -> {"NONE", "WAITING", "DONE"} \cup Holding]
  /\ key \in [Requests -> Keys \cup {NoKey}]
  /\ registered \subseteq Requests
  /\ stamp \in [Requests -> Nat]
  /\ clock \in Nat
  /\ status \in [Requests -> Statuses \cup {"NONE"}]
  /\ error \in [Requests -> ErrorCodes \cup {"NONE"}]
  /\ final \in [Requests -> {"NONE", "DATA", "ARTIFACT", "ERROR"}]
  /\ received \in [Requests -> Nat]
  /\ tokens \subseteq Requests
  /\ leases \subseteq Requests
  /\ inbox \in [Requests -> Seq(Items)]
  /\ permits \in Nat
  /\ waiters \in Seq(Requests)
  /\ expired \subseteq Requests
  /\ acked \subseteq Requests
  /\ cancelSent \subseteq Requests
  /\ dedup \in [Keys -> Requests \cup {NoRequest}]
  /\ authFailures \in 0 .. CircuitThreshold

\* try_register counts and inserts under one lock, so no interleaving of
\* submits, cancellations and endings puts more unfinished records into the
\* registry than max_concurrent + max_queued.
AdmissionBound == Cardinality(InFlight) <= Capacity

\* Every way a task can end gives its permit back, and none gives it back
\* twice: permits and the tasks that hold one always add up.
PermitsAccounted == permits + Cardinality(Running) = MaxConcurrent

\* The one path on which the code forgets a lease: see EveryTerminalPathReleases.
Forgotten == {r \in Requests : runner[r] = "DONE" /\ error[r] = "MALFORMED"}

\* A lease is taken inside submit_request, two awaits before the record has the
\* token that release_request needs, and there are seven ways out.  The backend
\* holds correlation ids for the submissions being built, for the tasks reading
\* a stream and, of those that ended, for no other than those whose builder
\* refused them; and a record has a token exactly while its task reads.
LeasesReleased ==
  /\ tokens = {r \in Requests : runner[r] \in Streaming}
  /\ leases = tokens \cup {r \in Requests : runner[r] = "BUILDING"} \cup Forgotten

\* When done is set the record tells one story: its status is final, results
\* exist exactly for COMPLETED, and each failure carries the error that caused
\* it.  (A request cancelled in the queue has no error.)
OutcomeConsistent ==
  \A r \in Requests :
    /\ runner[r] = "DONE" <=> status[r] \in TerminalStatuses
    /\ status[r] = "COMPLETED" <=> final[r] \in {"DATA", "ARTIFACT"}
    /\ error[r] = "NONE" => status[r] \notin {"FAILED", "TIMED_OUT"}
    /\ status[r] = "TIMED_OUT" <=> error[r] = "TIMEOUT"
    /\ error[r] = "CANCELLED" => status[r] = "CANCELLED"

\* The byte budget holds whatever the order of messages: no completed request
\* exceeds it, and what an unfinished one retains exceeds it by one message.
BudgetRespected ==
  \A r \in Requests :
    /\ received[r] <= MaxMessages + 1
    /\ status[r] = "COMPLETED" => received[r] <= MaxMessages

\* The deduplication index only ever leads to a request that was admitted with
\* that key and has a task, so a replay never returns a record nobody runs.
DedupPointsToAdmitted ==
  \A k \in Keys :
    dedup[k] # NoRequest => key[dedup[k]] = k /\ runner[dedup[k]] # "NONE"

\* Once a record is final no later step changes its status, its error or its
\* result: neither a late cancellation nor a late event rewrites history.
FinalRecordsFrozen ==
  [][\A r \in Requests :
       status[r] \in TerminalStatuses =>
         <<status[r], error[r], final[r]>>' = <<status[r], error[r], final[r]>>]_vars

\* Eviction takes the records of finished, waiting or not yet admitted requests,
\* never one that is SENT, PARTIAL or CANCELLING: what runs at Bloomberg can
\* always be looked up and cancelled by its owner.
ActiveRecordsStay ==
  [][\A r \in registered \ registered' : status[r] \notin NeverEvicted]_vars

\* Whatever Bloomberg does or fails to do, an admitted request ends: the
\* deadline frees its permit even if no event ever arrives.
EveryTaskEnds ==
  \A r \in Requests : (runner[r] = "WAITING") ~> (runner[r] = "DONE")

Contract ==
  INSTANCE RequestContract WITH
    line <- waiters,
    withdrawn <- {r \in Requests :
                    runner[r] = "WAITING" /\ status[r] = "CANCELLING"},
    executing <- Running,
    outcome <- [r \in Requests |->
                  IF runner[r] = "DONE" THEN status[r] ELSE "NONE"],
    answer <- reply

\* The executor implements the contract: one FIFO line, at most MaxConcurrent
\* executing, one outcome each, withdrawn requests never executed, and the
\* reply of submit is the outcome.
ImplementsContract == Contract!Spec

-----------------------------------------------------------------------------
(* What the documents say and the code does not do.                        *)

\* SPEC.md 2.10: a key received again within the window is not submitted
\* again, so a live entry of the index is never replaced by another request.
NoResubmissionInWindow ==
  [][\A k \in Keys :
       dedup[k] # NoRequest => dedup'[k] \in {dedup[k], NoRequest}]_vars

\* backend.py, release_request: the lease is released on every terminal path.
\* A submission its builder refuses keeps its correlation id until the gateway
\* stops (native_backend.py:226, 238).
EveryTerminalPathReleases ==
  \A r \in Requests : runner[r] = "DONE" => r \notin leases

\* SPEC.md 3.5: cancellation is idempotent, so the call that was answered with
\* "cancelled": true has cancelled a request that is running at Bloomberg.
AcknowledgedCancelIsSent ==
  \A r \in acked :
    runner[r] \in Streaming => r \in cancelSent

\* requests.py: no zombie RECEIVED record stays behind; a RECEIVED record is
\* one whose submit call is still being admitted.
NoZombieRecords ==
  \A r \in registered : status[r] = "RECEIVED" => handler[r] = "ADMITTING"

\* requests_registry.py: completed records are evicted before RECEIVED and
\* QUEUED ones.
CompletedEvictedFirst ==
  [][\A r \in registered \ registered' :
       status[r] \in {"RECEIVED", "QUEUED"} =>
         \A x \in registered' : status[x] \notin TerminalStatuses]_vars
=============================================================================

# Verification of the Bloomberg MCP gateway

TLA+ models of the gateway in `src/src/bloomberg_mcp`, the TLC configurations
that check them on small instances, and theorems checked by TLAPS.  The source
is the reference: every definition listed in the map of `PROJECT.json` is a
translation of the lines named there, and the documents (`SPEC.md`,
`docs/*.md`, comments) only supply the claims the code is compared with.

## 1. The system

The gateway is one Python process with one asyncio event loop.  MCP tool calls
are coroutines of that loop; Bloomberg events arrive on threads (one reader
thread per request, one dispatcher thread for subscriptions), and are handed to
the loop with `call_soon_threadsafe`.  Blocking native calls and file writes run
in worker threads, and the coroutine that started one is suspended meanwhile.
Hence the rule all models follow: **the code between two suspension points is
one action**; everything else may happen at a suspension point.

| component | state | operations | interacts with |
|---|---|---|---|
| request execution (`registry/requests.py`) | one `RequestRecord` per request, one task per request, the semaphore | `submit`, `_run`, `_consume`, `_finalize`, `get_request`, `cancel_request` | registry, quota engine, native backend (calls); reader thread (queue); result store |
| request registry (`registry/requests_registry.py`) | records, deduplication index | `try_register`, `unregister`, `_evict_locked`, `dedupe_lookup`, `dedupe_register`, `sweep` | request execution, gateway sweeper |
| native backend (`blp/native_backend.py`) | correlation ids, token counter, sessions, schema cache | `submit_request`, `cancel_request`, `release_request`, `subscribe`, `unsubscribe`, `start`, `stop`, generation listener | session manager, readers, dispatcher, schema registry |
| request reader (`blp/request_executor.py`) | one thread and one native event queue per request | `read_event_queue` | puts messages and one terminal error into the request's asyncio queue |
| subscription registry (`registry/subscriptions.py`) | groups, items, token map, event buffers, waiting long polls | `create`, `handle_event`, `read`, `resubscribe`, `cancel`, `expire_due`, `retry_pending_unsubscribes`, `restore_after_reconnect` | native backend (calls), dispatcher (events), cursor store |
| cursor store (`registry/cursors.py`) | opaque cursors: offset, generation, expiry | `create`, `resolve`, `consume`, `invalidate_subscription`, eviction | subscription registry |
| subscription dispatcher (`blp/subscription_dispatcher.py`) | the thread of the subscription session | event dispatch, session events | subscription registry, session manager |
| session manager (`blp/session_manager.py`) | state, generation, opened services, reconnect task | `start`, `stop`, `open_service`, `notify_session_down`, `_reconnect_loop` | native backend (listener), gateway (retry loop) |
| gateway lifecycle (`gateway.py`, `main.py`, `instance_lock.py`) | start retry task, sweeper | `_retry_backend_start`, `_sweep_once` | everything with a TTL |
| quota engine (`policy/quota.py`) | budgets, rate windows, circuit breaker, usage file | `admit_request`, `admit_auth_attempt`, `record_auth_failure`, `record_entitlement_failure`, `record_entitlement_success`, `_load`, `_write_payload` | request execution, middleware |
| policy and cost (`policy/engine.py`, `policy/cost.py`) | none | `authorize`, cost estimation | tools |
| result storage (`storage/*.py`) | artifacts, manifests, byte accounting, memory fallback | `put`, `get`, `sweep_expired`, `_load_or_sweep` | request execution, resources |
| schema and service registries (`blp/schema_registry.py`, `service_registry.py`, `name_cache.py`) | descriptors by service, the generation they are marked with | `store_operations`, `mark_opened`, `invalidate_generation`, drift check | native backend |
| schema conversion and validation, request builder (`blp/schema_converter.py`, `request_builder.py`, `value_codec.py`) | none | `validate_parameters`, `descriptor_to_json_schema`, `populate_request` | tools, native backend |
| event decoder (`blp/event_decoder.py`) | none | sequential translation of native messages | readers, dispatcher |
| authentication (`auth/*.py`) | current and previous token, failure windows | `verify`, middleware | quota engine |
| MCP tools (`mcp/*.py`), normalization, observability | none that matters to control | argument checks, rendering, counters | everything |

### What is hard, and what makes each part correct

* **Request execution.**  A submit is suspended three times (admission,
  native submission, each wait of the stream), and a cancellation, a deadline,
  an abandoned call or an eviction may come in between.  Correct means: every
  permit comes back, every correlation id is released, the record tells one
  outcome and never changes it afterwards, an admitted request always ends,
  the admission bound holds, and an idempotency key is submitted once.
* **Subscriptions.**  `create`, `resubscribe` and `restore_after_reconnect` are
  suspended in `backend.subscribe` with the group already visible (or not yet
  committed), while events, cancellations and expiry change it; a long poll
  keeps an offset while the buffer may be replaced.  Correct means: a reader
  sees each event once, in order, or is told of a gap; a group that was
  cancelled stays cancelled and its feed is closed; the limit per principal
  holds; token routing never crosses items.
* **Sessions and schemas.**  A reconnect loop, the gateway's retry loop and the
  native `session down` callback race.  Correct means: CONNECTED is reported only
  with open services, a lost session is always noticed, no schema of an older
  session is cached under a newer generation.
* **Request preparation.**  Three walks over one schema tree (the published JSON
  Schema, the validation, the native builder) and a schema that may change while
  the request waits.  Correct means: what the gateway accepts the builder accepts,
  and what validation returned is accepted again.
* **Quota, access.**  Usage files written by worker threads in any order, tokens
  that lapse lazily, breakers moved by requests that end in any order.  Correct
  means: no usage is invented, the windows hold wherever they begin, a rotation
  never locks the current token out, and a breaker follows the outcomes.
* **Storage.**  Crashes and disk errors between two writes.  Correct means: the
  store accounts for exactly what it holds, an announced result stays readable
  until it expires, and what expired leaves.

Every such hazard is listed with its line in `PROJECT.json`, with the properties
that address it or the reason why none does.

## 2. The modules

| modules | contents | section |
|---|---|---|
| `RequestContract`, `RequestExecution`, `RequestExecutionProofs` | the request path; its abstract contract; proofs of the invariants and of the refinement | 3 |
| `SubscriptionGroups`, `SubscriptionGroupsProofs` | groups, tokens, statuses: create, events, resubscribe, cancel, expire, restore; proofs of routing, of the limit and the end of groups; proofs of feeds and confirmation | 4 |
| `SubscriptionReads`, `SubscriptionReadsProofs` | buffer, cursors and long polls of one group; proofs of all its properties | 5 |
| `SessionLifecycle`, `SessionLifecycleProofs` | session manager, start, retry, reconnect, stop, schema refresh; proofs of its safety | 6 |
| `RequestSchemas`, `RequestPreparation`, `RequestTrees`, `RequestPreparationProofs` | one level of the walks over a schema tree; describe, validate, send, build; the trees and all levels; proofs that what is accepted is built | 7 |
| `ResultStorage`, `ResultStorageProofs` | the two stores, the sweep, the directory, crash and restart; proofs of its safety | 8 |
| `AccessPolicy`, `GatewayAccess`, `GatewayAccessProofs` | policy and cost; tokens, quotas, breakers and the usage file; proofs of both | 9 |
| `SumTheorems` | what a sum over a finite set is and how it changes; used by the proofs of 8 and 9 | 8, 9 |

A module `MC...` gives the sets of a module their model values and its symmetry,
and a `.cfg` makes it an instance.  `RequestPreparation` extends `RequestSchemas`,
`RequestTrees` extends `RequestPreparation`
and `GatewayAccess` extends `AccessPolicy`; the others are tied by the facts they
hand on, which is how the components are tied in the code: admission and the
answer of a request are in `RequestExecution`, whether it may be admitted in
`GatewayAccess`, what is sent in `RequestPreparation`, where its result goes in
`ResultStorage`; the loss of a session is an event in `SubscriptionGroups` and in
`RequestExecution` and is produced in `SessionLifecycle`; `SubscriptionReads` takes
the events of a group that `SubscriptionGroups` routes.

Every violation of a document that was met is told in its section.  One has a run
(`request_duplicate`); the properties that state the others stand at the end of
their modules, to be given as the invariant or property of the module's cfg by
whoever wants to see the trace.

Three things are out of the prover's reach everywhere and stay with TLC: liveness
under fairness (and ENABLED), the induction theorems of the library, which take an
operator as a parameter, and modules with RECURSIVE operators.  The last exist in
`RequestTrees` only; section 7 says how its recursion is kept out of what is proved.
Where an induction over finite sets or numbers is needed it is done by hand, on a
smallest set or a deepest level for which the claim would fail (`SmallestSet` in
`SumTheorems`, `OldestExists` in `RequestExecutionProofs`, `DeepestLevel` in
`RequestPreparationProofs`): so the sums of bytes and admissions and the walks over
schema trees are proved about.  With the theorems of the following sections every
safety invariant and every action property that a passing run checks is also proved,
some under a hypothesis that the section names.

## 3. The request path

### Correspondence

`RequestExecution` has one element of `Requests` per call of `submit`.

| model | code |
|---|---|
| `handler[r]` | where the tool call is: not made, suspended in `admit_request`, waiting for `done`, answered, replayed, refused, abandoned |
| `runner[r]` | where the background task is: waiting for the semaphore, in `backend.submit_request` before (SUBMITTING) and after (BUILDING) the correlation id is stored, in `queue.get`, in `backend.cancel_request` after the deadline or after an oversized message, done |
| `registered`, `stamp`, `clock` | the records of the registry and the order of their `created_at` |
| `status`, `error`, `final`, `received`, `tokens` | fields of the record |
| `dedup` | the deduplication index, one entry per (principal, `client_request_id`) |
| `permits`, `waiters` | the semaphore, FIFO as in asyncio |
| `leases` | the correlation ids of requests in `NativeBackend._correlation_ids` |
| `inbox[r]` | the asyncio queue between the reader thread and `_consume` |
| `expired` | requests whose deadline has passed |
| `acked`, `cancelSent` | history: `cancelled: true` was answered; `session.cancel` was called |
| `authFailures` | consecutive entitlement failures of the one service modelled |

The actions follow the suspension points.  `SubmitReplay`, `SubmitRefused`,
`SubmitDenied` and `SubmitRegister` are the four ways the first stretch of
`submit` ends; `AdmissionReturns` is the stretch from the end of
`admit_request` to the first wait, with the first stretch of the task (it marks
the record QUEUED and queues for the semaphore); `AcquireCancelled` and
`AcquireAndSubmit` are the stretch after the semaphore.  The native submission has
two stretches: `BackendRefuses` ends it before it has a correlation id,
`LeaseTaken` stores one, and from there a `GatewayError` of the builder
(`BuildRefused`), any other exception (`BackendFails`) or success
(`BackendAccepts`) ends it.  `ConsumePartial`, `ConsumeOversize`,
`ConsumeError`, `ConsumeResponse`, `DeadlineReached` are the iterations of
`_consume`, with `_finalize` and the `finally` blocks part of the last one.
`Cancel`, `SweepRecord`, `DedupExpires`, `Disconnect`, `DeadlinePasses` and
`ReaderPosts` belong to other callers, the sweeper, the MCP server, the clock and
the reader thread.

Abstracted: principals (folded into the key), payloads (a message is one unit of
the byte budget), the content of results (inline data, artifact, refusal of a
missing normalizer, or an exception of the store), timestamps (their order),
metrics, usage and audit records.

### Contract

`RequestContract` is what a client may rely on: one FIFO line, at most
`MaxConcurrent` executing, one outcome each, a request withdrawn from the line
never executed, and the reply of `submit` equal to the outcome.  The mapping is
`Contract` in `RequestExecution`: the line is `waiters`, the withdrawn requests
are those waiting with status CANCELLING, executing are those that hold a permit.

### Runs

| run | instance | shows |
|---|---|---|
| `request_execution` | 2 submits, 1 key, 1 permit, 1 queue place, 1 record kept, 1 message of budget, threshold 1; the backend refuses, the builder refuses, the native calls raise; clients may leave | type invariant, permits, leases, outcomes, budget, index, frozen final records, eviction of active records |
| `request_admission` | 3 submits (symmetric), 1 permit, 1 queue place | the admission bound is reached and never exceeded; the contract is implemented |
| `request_liveness` | 2 submits, fair | each queued request ends even if Bloomberg is silent |
| `request_duplicate` | 2 submits, 1 key | violation: both are submitted |

**Bounds.**  Two submits suffice for every hazard that involves a request and one
other (an idempotency key used twice, a request that waits behind another, an
eviction by a newcomer); the admission run has three, so that a refusal happens
with one request running and one waiting.  `MaxConcurrent = 1` makes requests
wait; `MaxRecords = 1` makes every second registration evict; `MaxMessages = 1`
with `InboxBound = 1` lets a message fit, and the next exceed the budget;
`InboxBound` bounds only how far a reader is ahead of the task, and the task
takes items one at a time.  The threshold 1 lets the circuit open (the code counts
on past it, the model stops there, since the count is only compared with it).

**Fairness.**  `Call(r)` and `Task(r)`: asyncio runs every ready coroutine, the
semaphore is FIFO, and the worker threads behind `submit_request`,
`cancel_request` and the usage write return.  `DeadlinePasses(r)`: time passes.
Nothing is assumed of clients, of Bloomberg, of the reader thread or of the
sweeper.

### What the code does not keep

1. `request_duplicate`, the finding of `PROJECT.json`: `submit` looks the idempotency
   key up before, and registers it after, the await of admission; two concurrent
   submits with one key both run (SPEC.md:611).

The next four properties are stated in `RequestExecution` and have no run.

2. `EveryTerminalPathReleases`: `submit_request` re-raises a `GatewayError` of the
   builder (no request schema, or a value `populate_request` refuses) without popping
   the correlation id, which then stays until the gateway stops.  `LeasesReleased`
   says that this is the only path: the leases that outlive their task are those of
   records whose builder refused them (`Forgotten`).
3. `NoZombieRecords`: a handler cancelled during admission leaves a RECEIVED record
   for ever, which counts against the bound.
4. `AcknowledgedCancelIsSent`: a cancellation accepted during the native submission
   is overwritten by SENT and never reaches Bloomberg (one submit is enough).
5. `CompletedEvictedFirst` (three submits, two records kept): eviction goes by age,
   so a request that still waits is evicted while completed records stay.

### What is proved

`RequestExecutionProofs` proves, for every set of requests and keys and every
value of the limits (`ConstantsAssumption`):

| theorem | property | argument |
|---|---|---|
| `TypeCorrect` | `TypeOK` | inductive as it stands |
| `PermitsSafe` | `PermitsAccounted` | every step keeps, takes or returns one permit (`StepKinds`) |
| `OutcomesConsistent`, `FinalFrozen` | `OutcomeConsistent`, `FinalRecordsFrozen` | every step leaves a record alone, moves it on, or ends it with a matching error and result (`RecordSteps`) |
| `DedupSafe` | `DedupPointsToAdmitted` | inductive with the invariant below |
| `LeasesSafe` | `LeasesReleased` | with the fact that an unfinished task has no error yet (`LeaseInv`); one case per way out of `submit_request` and of the stream |
| `AdmissionSafe` | `AdmissionBound` | only a registration adds an unfinished record, and it counts before (`InFlightSteps`) |
| `BudgetSafe` | `BudgetRespected` | strengthened to `BudgetInv`: the budget is exceeded only between the append and the abort, by one message |
| `ActiveRecordsSafe` | `ActiveRecordsStay` | the evicted record is the oldest (`OldestExists`, by well-foundedness of strict inclusion on finite sets) of those eviction may take |
| `ContractImplemented` | `ImplementsContract` | every step of the executor is a step of the contract or changes nothing of it |

None of these is inductive alone.  The two facts they rest on are `Lockstep` (the
tool call, the task and the record of a request are in step: no task before
admission, no record without a submit) and `LineInv` (the semaphore's line holds
each waiting task once and nobody else): without `LineInv` a task could be woken
twice, and without `Lockstep` a call that was refused could have a task.
`AlwaysLined` proves both with the type; the refinement adds that a call that has
not answered has replied nothing (`ReplyInv`).

`EveryTaskEnds` is model-checked only: it needs fairness.  The violations are TLC's.

## 4. Subscription groups

### Correspondence

`SubscriptionGroups` has one element of `Groups` per group a client asks for and
names an item by its first token.

| model | code |
|---|---|
| `registered`, `status`, `generation`, `items` | `_groups` and the fields of a group |
| `due` | groups whose `expires_at` has passed |
| `owner`, `native`, `itemStatus` | the group an item is in, `item.native_token`, `item.status` |
| `route` | `_token_map`: the item a token leads to |
| `pending` | `_pending_unsubscribes` |
| `lastToken` | `_token_counter` |
| `session`, `cids` | the subscription session (CONNECTED; DOWN: lost, object kept; NONE; OPENING: a new object whose services are not open yet) and the subscription tokens in `_correlation_ids` |
| `feed`, `heard` | what Bloomberg keeps open, and the last status event it delivered |
| `frame[w]` | where coroutine `w` is suspended, with the locals it goes on with |
| `born` | history: the generation a token was routed for |

A coroutine is suspended only while a worker thread is in `session.subscribe` or
`session.unsubscribe`.  Each operation is therefore a stretch up to the native
call (`CreateBegins`, `ResubscribeBegins`, `CancelBegins`, `ExpireBegins`,
`RetryBegins`, `RestoreBegins`) and one after it (`CreateReturns`,
`ResubscribeCommits`, `ResubscribeFails`, `RollbackReturns`, `CancelReturns`,
`ExpireReturns`, `RetryReturns`, `RestoreReturns`).  When the backend returns
without a native call (no session, or none of the correlation ids known) both
stretches are one step, which the alternatives inside the actions say.
`SubscribeCallReturns` and `UnsubscribeCallReturns` are the worker threads:
Bloomberg may take a part of the list before the call fails, and a session lost
meanwhile takes none.  `EventStarted`, `EventFailed`, `EventUnsubscribed` are the
status events as the dispatcher posts them, each with `_recompute_group_status`.
`LoseSession`, `TearDown`, `StartNative`, `Reconnect` are what subscriptions see of
the session manager; while a new session is opening, `unsubscribe` already calls
it and `subscribe` is still refused.  A reconnect starts a restore (a task of its
own, so two may overlap).  `CreateInvalid` is a create that refuses a topic after
earlier ones were given tokens and routes: the routes stay and lead to no group.
`Abandon` is a tool call cancelled during its native call: `CancelledError` is no
`Exception`, so neither the rollback nor the rest of the call runs, while the
worker thread goes on and opens or closes the feeds.

Abstracted: one principal (the limit is per principal; the check of the owner is
left out); which topics are valid; the order in which the sweeper and a restore
visit the groups is free.  Buffers, cursors, long polls and data events are in
section 5.

### Runs

| run | instance | shows |
|---|---|---|
| `subscription_life` | 2 groups with 2 items between them, 2 callers, the sweeper, limit 1, fair; partial acceptance, failing teardown, refused topics; cancel, expiry, abandoned calls | types; the limit; what ended stays ended and no token leads to it; a due group ends, also when teardown fails |
| `subscription_reconnect` | 1 group, 1 caller, 2 overlapping restores, 3 tokens; resubscribe, cancel (whose teardown may fail), reconnect, refused topics | routing leads to current items of the current generation only; a token that the sweeper will unsubscribe again is not one the group has after a replacement or restore that overlapped the failing teardown |
| `subscription_restore` | 2 groups of 1 or 2 items, 1 restore, 5 tokens; partial acceptance | ACTIVE only after confirmation of every present feed |

**Bounds.**  A group of two items is enough for every partial outcome (one item
active and one failed, one feed taken and one not), two groups for everything
that compares groups (the limit, the next group of a restore).  `MaxToken` bounds
the tokens ever allocated: 2 tokens give one group two items or two groups one item
each; 3 tokens let one item be created, replaced by resubscribe and renumbered by a
restore; 5 tokens let two groups be created and restored.  A coroutine that would
need more is not begun.  `Failing` names the operations whose `session.unsubscribe`
may raise: all of them in `subscription_life`, the cancellation in
`subscription_reconnect`.  Reconnects are bounded by
the restores that may be in progress, not in number.  The instances divide the
operations because all together exceed what TLC can enumerate; the theorems below
hold for all of them at once.

**Deadlock** is not checked: with all tokens used and all groups ended the model
stops, as an idle gateway does.

**Fairness** (`FairSpec`, used by `subscription_life`): worker threads return
(`CallReturns`), asyncio runs what is ready (`Resume`, the sweeper's own
returns), and `SF` of `ExpireBegins(g)` for each group: a sweep visits every group
in turn, so a group that is due at sweep after sweep is not passed over for ever
although the sweeper is busy in between.  Nothing is assumed of clients or of
Bloomberg's events.

### What the code does not keep

No run is kept for these; the named properties are stated in `SubscriptionGroups`.

1. `CancelIsFinal` (1 group, 2 callers, resubscribe and cancel): resubscribe commits
   after its await without looking at the status again; a cancelled group becomes
   STARTING with open feeds.  A restore does the same.
2. `RetriedUntilClosed` (1 group, the sweeper, failing teardown): `unsubscribe` pops
   the correlation ids before it calls Bloomberg; the retry of a failed call finds
   none, makes no call and counts as done, while the feed stays open.
3. `LimitHolds` fails once clients resubscribe (`"RESUBSCRIBE"` in `Operations`, two
   groups, limit 1, three tokens): a FAILED group that is resubscribed is live
   again, and nothing counts it.
4. `StartingMeansUnconfirmed` (1 group, resubscribe): the new tokens are routed only
   after the native call returned, a SUBSCRIPTION_STARTED handled before is dropped
   as stale, and the confirmed group stays STARTING.
5. A restore that runs while `create` waits gives the items new tokens; if `create`
   then fails it removes only its own and leaves the feeds of the new ones open.
6. No feed is safe from being forgotten: a create that fails after Bloomberg took
   a part of the list undoes the registration but not the feeds, a cancellation
   during create's native call unsubscribes feeds that open only afterwards, and
   an abandoned call leaves its feeds to nobody.  The documents promise nothing
   here.
7. FAILED groups are not live, so the sweeper never ends them and they stay
   registered.

### What is proved

`SubscriptionGroupsProofs` proves for all constants
allowed by `ConstantsAssumption`:

| theorem | property | operations |
|---|---|---|
| `GroupsTypeCorrect` | `TypeOK` | all |
| `RoutingSafe` | `RoutedTokensAreCurrent` | all |
| `GenerationsSafe` | `EventsOfCurrentGeneration` | all |
| `PendingSafe` | `PendingAreRetired` | all |
| `ConfirmedSafe` | `ActiveMeansConfirmed` | all |
| `ClosedTogetherSafe` | `ClosedTogether` (stated with the theorem) | all |
| `LimitSafe` | `LimitHolds` | all but resubscribe and reconnect (`OneLife`) |
| `EndedSafe`, `EndedForGood` | `EndedIsQuiet`, `EndedStaysEnded` | the same |

**Routing.**  The first four are consequences of one inductive invariant, `RoutingInv`.  Besides the
properties it says that items have owners and tokens (`Owned`), that every token in
use was allocated (`Allocated`, so that a fresh token is nobody's, not even that of
a route left by a refused create), that a group
not yet created has no items, and, the decisive part, `Prospective`: the tokens
a resubscription holds across its await are known to no item, no failed teardown
and no other coroutine.  Without it the commit after the await could route a token
that is already someone's.  The steps fall into two kinds.  Most are
`HarmlessStep`s: routes only disappear, items and tokens stay, and a coroutine
takes up only tokens that are in use; one lemma (`HarmlessKeeps`) serves them all.
The others install items (`NewItemsRouted`) or give them new tokens
(`SwapRouted`), and both leave the routes of other groups alone because a route
determines its item and the item its group.

**Confirmation.**  `ActiveMeansConfirmed` is about one group, but needs to know what
every coroutine holds.  `_recompute_group_status` leaves an ACTIVE group alone when
its last item is unsubscribed, so the property can only hold if the feeds of a group
are closed together, and if nothing closes the feeds of a group that is replaced or
renumbered meanwhile.  The invariant, `ConfirmedInv`, has these layers:

* `TokensInv`: a registered group is routed as a whole (`Linked`), or has no routes
  and is not active (`LinkedOrDown`); two items never have one token (`Distinct`); a
  set of tokens a coroutine has in a native call contains all tokens of a linked
  group or none (`AllOrNone`), and so does the table of correlation ids; the tokens
  whose routes it will take out are those of its own group (`FrameFine`).
* `FeedInv`: the feeds behind a linked group are `Even` (if one was closed, none of
  the others is running), those behind a resubscription in progress too, and feeds
  that are still being asked for are asked for once.
* `ItemsConfirmed` and `ActiveShape`: no item of a linked group is ACTIVE unless
  Bloomberg said so of its present token, and a group is ACTIVE only if all its
  items are, or all its feeds were closed.

Each step either links nothing (`TokensStep`) or gives groups tokens from a known set
(`LinkedOrMoved`), and the three layers are proved once for each kind.  TLC looked
for violations of the layers on small instances before they were proved.
`ClosedTogether` comes with it: nothing cuts a live group in two.

**One life.**  Where clients do not resubscribe and the session is not lost, an item
keeps its first token, a coroutine that will end a group holds the tokens of the
items the group still has (`HeldItems`), and a FAILED group has no feed of which
Bloomberg has anything more to say (`FailedForGood`); so no late event brings it back
after its place in the limit was given away.  The hypothesis is needed: with
resubscribe or with a restore and a cancellation TLC finds `LimitHolds` and
`EndedIsQuiet` violated on two groups and three tokens (1. and 3. above).  The run
`subscription_life` has the operations of the hypothesis.

Only model-checked: `DueGroupsEnd`, which needs fairness.

## 5. Subscription reads

### Correspondence

`SubscriptionReads` is the reading side of one group; how an event finds the group
is section 4, here events arrive while the group has not ended.

| model | code |
|---|---|
| `status`, `generation`, `replacing` | the group; a resubscribe that waits for its native feeds |
| `restoring`, `fed` | the restores that wait for theirs, by the generation each began; whether the tokens of the items are in the token map |
| `sequence`, `total`, `buffer`, `latest`, `dropped` | `item.sequence`, and the runtime's `total_events`, `buffer`, `latest`, with `dropped_events` of the group |
| `minted`, `cursor`, `live`, `lapsed` | the cursors of `CursorRegistry`: how many were created, what each says, which are still there, which of these have expired |
| `reader[r]` | a read call: idle, WAITING (its future is in `waiters`), or READY (the future is done or the wait timed out) but not resumed |
| `log`, and `given` and `told` of a cursor | history: all events of the generation; what the reads that led to a cursor returned, and whether one of them reported a data gap |

A read without waiting is one stretch of the event loop (`Serve` in `ReadChanges`).
A long poll that finds nothing new waits with the offset and the cursor it has
resolved (`ReadChanges`, second alternative), is woken by an event, a cancellation or
its timeout, and goes on with what it came with (`PollResumes`); a replacement and
the expiry of the group wake nobody.  Meanwhile the buffer may overflow (`DataEvent`,
`StatusEvent`), be cleared by a replacement (`ResubscribeCommits`, `Restore`), and the
cursor may be used by another read, evicted or invalidated.  A restore whose native
subscribe fails (`RestoreReturns`) takes its tokens out of the map and leaves the group
FAILED, which a read does not take for ended, even if it was cancelled while the
restore waited.  `Serve` includes
`consume` and `create` with the eviction; `LapsedCursorRefused` is the lookup that
deletes an expired cursor.

Abstracted: payloads and field filters, principals, the random handles, the
snapshot of latest values (only the sequence of the newest event is kept).

### Run, bounds

`subscription_reads`: 2 readers, 2 items, a buffer of 2 events, 3 events per
generation, 2 generations, 3 cursors of which the registry keeps 2, 1 long poll at a
time, pages of 1 or 2 events (2,292,814 states).  Three events overflow a buffer of
two; the second reader overtakes the one that waits; two generations let a poll
sleep through a replacement; three cursors force one eviction, and with two kept
the evicted one may be in use.  The model stops when the events are used up, so
deadlock is not checked.  There is no liveness here: a poll ends by its timeout.

### What the code does not keep

`InvalidatedCursorsRefused` (`cursors.py:4`, "reading with an invalidated cursor
returns CURSOR_INVALID"): a poll that slept through a replacement is served with
its dead cursor, because only the first half of `read` looks at it.  What follows is
told by `ChainsComplete`, which holds: the cursor such a poll hands on has the old
generation, so it is refused at its next use and nothing is skipped silently.

### What is proved

`SubscriptionReadsProofs` proves all four properties of the run for every set of
readers and items, every size of the buffer, of pages and of the store, and any
number of events, generations and cursors: `ReadsTyped`, `ChainsAreComplete`,
`NothingIsGivenTwice`, `NoWakeupIsLost`, `FreshCursorIsUsable`.  The invariant is
`TypeOK`, `NoLostWakeup` and three facts.  `WindowSound`: the buffer is the end of the
log, at the places `total_events` implies, and what left it was counted.
`CursorsSound`: what a cursor of the present generation says is true of the log.
`ReadersSound`: the offset of a suspended reader is the one of its cursor, which is
true or of an older generation.  The last one is what makes the second half of a
long poll safe although it looks at nothing again; without it `CursorsSound` is not
inductive.  The core of the argument is that a page read at an offset is the part
of the log from there on, or behind a gap that is told.

## 6. Session lifecycle

### Correspondence

| model | code |
|---|---|
| `state`, `stopping`, `generation`, `session`, `opened` | the fields of `SessionManager` |
| `lock`, `pc[p]`, `busy[p]` | the manager's lock; where `Gateway.start`, its retry, the reconnect task, a tool call that opens a service and `Gateway.stop` are; the session object (the code's local `session`) whose native start, stop or opening of a service a coroutine waits for |
| `orphan` | the session object whose native start went on in its thread after its coroutine was cancelled |
| `posted` | `_schedule_reconnect` in the loop's queue, and the coroutines that are before it there |
| `native[s]` | what Bloomberg knows of a session object; `UNSTOPPED`: its `stop` raised, the manager has forgotten it, and it may be alive |
| `entry`, `refresh[g]`, `heard` | the entry of the service in the registry; the task `_on_generation_change` spawned for generation g; the generation the listener was last told of |

A transition is cut where it waits for a worker thread: the stop of the old
session (`TransitionBegins`, `OldSessionStopped`, and `OldSessionUnstopped` when
`session.stop` raises, which is logged and forgotten, session_manager.py:106-110), the
native start (`NativeStarts`, `NativeStartFails`), the new generation (`GenerationBegins`) and the opening of the
services (`ServiceOpens`, `ServiceFailsToOpen`), after which CONNECTED is shown.
`BackoffEnds` is the sleep of the reconnect task or of the retry.  `Lose` and
`TerminatedByStop` are the dispatcher's session events; they do not take the lock,
and what they schedule runs behind the coroutines that were ready before
(`posted.ahead`).  `StopBegins`, `StopReturns` and `StopRaises` are `Gateway.stop` with
the stop of the manager, `OrphanStarts` and `OrphanFails` the thread of a cancelled
start, `OpenBegins`, `OpenProceeds`, `OpenReturns` and `OpenRaises` are `open_service`;
`RefreshBegins`, `ServiceFound` or `ServiceNotFound`, `OperationsStored` or
`ConversionFails`, and `ListenerTold` the refresh of one generation.

Abstracted: one service stands for all; the length of the backoff; what a schema
contains (only the session it was read from is kept).  `openService` and the
`getService` after it are one wait.  A retry that is cancelled while its thread is in
`session.stop` leaves the session published; its end is then a `Lose`.

### Run, bounds, fairness

`session_lifecycle`: 5 session objects (their identities are reused once stopped: one
in use, one being started, one orphaned and two whose stop raised, so that a start
never lacks one), the service is configured, `reconnect.enabled` is true
(`LossIsRepaired` is about that setting; with false nothing is scheduled), 2 events
(losses, failed native calls, openings): one failure and one loss, or two losses,
one of them during the repair of the other (324,595 states).  Weak fairness of
`Proceed` says only that the event loop and the worker threads do not all stand
still.  Deadlock is not checked: a connected or stopped gateway may stay so.

### What the code does not keep

1. `EveryLossIsRepaired` (SPEC.md:464): a loss reported while the reconnect task is in
   its transition finds the task not done and starts none; when the transition then
   ends in CONNECTED, nobody repairs the loss.  `LossIsRepaired` holds for all
   others: `missed` marks these.
2. `SchemasOfTheirGeneration` (SPEC.md:465): a refresh reads the generation after its
   awaits; descriptors read from an older session may be stored under the mark of
   the present one.
3. `SingleSession` (SPEC.md:459), in two ways.  `Gateway.stop` cancels a start whose
   thread is in `session.start`; the thread's session stays alive, and may be
   published after the stop.  And a `session.stop` that raises is swallowed
   (session_manager.py:106-110, 160-163): the session may be alive beside the next
   one, or after the stop.  What is left is `OneLiveSession`: without such an orphan,
   of the sessions that nobody has tried to stop (`UNSTOPPED` ones are not counted)
   there is at most one, and none after the stop.

### What is proved

`SessionLifecycleProofs`, for all constants: `SessionTyped`, `ConnectedIsReal`
(CONNECTED is shown only with a session object and a generation),
`EntriesAreCurrent`, `OneSessionAtATime`, `StoppedStaysQuiet`.  The invariant adds to
the type: who is at which stage (`PlacesSound`), that exactly the holder of the lock
is at a locked stage (`LockSound`), what the stop leaves behind and in which order
(`StopSound`), what a transition has made at each stage (`TransitionSound`), and
`AliveSound`: a live native session that nobody has tried to stop is the manager's,
the one whose start is waited for, or the orphan; while one is started the manager
has none, and who stops a session stops the manager's, until the orphan's thread
has published it (`Unpublished`).  From that and `LockSound`, which makes the
starting coroutine unique, follows that there is one.  `StopEnds`, `LossIsRepaired` and `ListenerCatchesUp` are
model-checked only.

## 7. Request preparation

### Correspondence

`RequestSchemas` is one level of the two walks over a request: `ValidItem`,
`ValidArray`, `ValidChoice`, `ValidElement` and `ValidObject` (`validate_parameters`),
`BuiltElement` and `Built` (`populate_request`), and `AdmitsValue`, what a JSON Schema
admits, which is external.  Where the code calls itself for the level below, what
that call answers is a constant operator: `Validated`, `Populated`, `Admitted`, and
`Shallow` and `Texts` for the reference definitions of nesting and of the scalars in a
value.  `Unfolds` says that each of them is
what the level itself answers.  `RequestTrees` closes the recursion of the code:
`RequestPreparation.cfg` gives the constants its `ValidateObject`, `PopulateRequest`,
`NestedWithin`, `Admits` and `ScalarTexts`, each of them the level itself.  It also has what recursion
on schemas makes: `Convert` (`SchemaRegistry`: native definitions to descriptor trees,
cut at a repeated sequence type and at the depth bound) and `Emit`
(`descriptor_to_json_schema`), and the count of array entries.

Of the Bloomberg datatypes four are told apart, STRING, ENUMERATION, INT32 and CHAR,
and of scalars six: a string, a string of one character that is a value of every
enumeration, the empty string, an integer of 32 bits, one that has more, null.
`Legal` is what `decode_input_value` takes for a datatype; `JsonType` is what
`_JSON_PRIMITIVES` publishes for it, and `Fitting` what that type admits: "integer" the
large number too, "string" the empty one.  Of the errors only that there is one.
INT64 and BYTE are INT32 with another range; booleans, floats, dates and bytes are
left out.

`RequestPreparation` follows one request through the tools: `Describe`, `Validate`,
`Send` (with what validation returned) or `SendRaw`, `Submit` (the recheck of the
hash once the permit is there), `Build`.  `SchemaChanges` and `SchemaStored` are the
schema behind the operation, which Bloomberg and a refresh may replace between any
two of them.  The trees with their JSON Schemas (`Tree`, `Nodes`, `SchemaOf`), the values
parameters are made of (`Values`) and the count of array entries (`ArrayElements`) are
constants there, to which the cfg gives the operators of `RequestTrees`.

### Run, bounds

`request_preparation`: seven schemas (plain, with an alias, a choice of scalars, a
choice in a sequence, a sequence in a choice, a sequence and a choice that contain
themselves), the changes between them of `MCChanges`, parameters of up to three keys
with every kind of value in every place, also wrong ones (209,880 states).  A schema
of each form is what the walks distinguish; deeper nesting repeats the recursion.
`MaxNesting = 1` and four array elements let both limits be met and exceeded.  TLC
also evaluates `SchemasChecked` (every reference of a published schema is defined, by
what its descriptors say; a type that contains itself is expanded once on a path) and `RequestsChecked` (what is
accepted is within the limits) over all of them, and the assumptions the proofs use.

The nesting limit counts the objects of sequences.  The object of a choice is looked
at without a level of its own (`schema_converter.py:325`), so an accepted request may
hold one object more than `MaxNesting + 1` within each other, where a choice is the last
of them.  `WithinLimits` and `AdmitsValue` say exactly that.

### What the code does not keep

`NeverMalformed` (`request_builder.py:3`, SPEC.md:509): the canonical form of a choice
whose branch is a sequence loses the name of the branch
(`schema_converter.py:341`), a choice in a choice becomes a string
(`value_codec.py:238`), and the builder cannot place either; the request is
accepted and then fails.  The run's properties therefore speak of the other schemas
(`FlatVersions`; `PlainVersions` for the JSON Schema).  A cycle through a choice is cut
only by the depth bound, as only sequence types are remembered.

`SchemaIsEnough` (`docs/mcp-tools.md:44` and `MCP_SKILL.md:78` offer the JSON Schema as what
an operation takes) is false, and the second half of `StrictIsJsonSchema` therefore
has the hypothesis `InRange`.  `_JSON_PRIMITIVES` (`schema_converter.py:27-40`) has no
ranges, and its formats are annotations: INT32 2**40, BYTE 256, an empty CHAR, 1.0 for
an integer or an impossible date follow the published schema and are refused by
`value_codec.py:182-234` and `schema_converter.py:407-413`.  The model has the first and
the third of these.

### What is proved

`RequestPreparationProofs`, for all schemas that satisfy `TreesAssumption` (a tree with
its descendants, whose root is a sequence and where siblings have names of their own),
all parameters made of `Values`,
all limits, and any number of schema changes:

| theorem | property | hypotheses |
|---|---|---|
| `AcceptedSafe` | `AcceptedIsBuilt` | `Unfolds` |
| `ValidatedSafe` | `ValidatedIsAccepted` | `Unfolds` |
| `StrictSafe` | `StrictIsJsonSchema` | `Unfolds`, `Published` |
| `LimitsKept` | `WithinLimits`, for schemas with nested choices too | `Unfolds` |

`Unfolds` is the recursion itself; what it computes is proved, level by level.  It
cannot be evaluated, as it speaks of all values, and it can always be met: the nesting
limit ends the recursion of `Validated`, and the other four only ask for all or some
parts of a value, so their equations have a solution.  `Published` says that the
`$defs` of a plain schema describe every type as its descriptors do.  That is what `Emit`
computes by accumulating over the tree; it is not proved, and TLC evaluates it on the
schemas of the run.

**Accepted again and built.**  The core is `Stable(d, depth)`: whatever validation accepts
of the descriptor d, under whatever mode, it accepts again unchanged under every mode,
and the builder can place it.  `StableAbove` proves it for a descriptor from its
elements, one lemma for each form of an element (`ScalarAgain`, `ItemAgain`,
`ArrayAgain`, `ChoiceAgain`): aliases have become names and a bare value an array of one,
so the second validation has nothing left to do.  Descriptors may contain each other,
so the induction is not over the tree but over the nesting: below the limit nothing is
accepted (`NothingBelow`), and a deepest level where the claim fails would contradict
`StableAbove` (`FlatIsStable`).  `ChoiceAgain` is where the hypothesis on choices
(`FlatVersions`) is needed.  `Bounded` is carried up in the same way for the limits,
without that hypothesis.

**Strict means JSON Schema.**  `Same(answer, v, admitted)`: what validation accepts the
schema admits, and it is returned as it is; what the schema admits and is `InRange`
validation accepts.  `TypesAdmit` compares the two tables, `Legal` and `Fitting` of
`JsonType`; `InRangeBelow` takes `InRange` to the parts of a value.  `ScalarsAgree`,
`ItemsAgree`, `ArraysAgree`, `ChoicesAgree` and `ObjectAgrees` prove it for one level
from the level below, `AllAgree` for all.  That v is returned unchanged is needed for
the limit of array elements, which is about what validation returns on the one side
and about what the client sends on the other.

**The way of the request.**  The inductive invariant adds to its types that `asked` and
`canonical` are what validation made of the parameters for the schema of the hash the
request carries (`AskedOfHash`, `SentOfHash`, `RefusedOfHash`), although that schema
need be neither the cached nor the native one by then, and what each stage implies
(`StageTells`).  TLC checked it on the instance before it was proved.

Only evaluated by TLC: `Published`, `SchemasComplete` and `CyclesAreCut`, which speak of
what `Convert` and `Emit` compute.

## 8. Result storage

### Correspondence

| model | code |
|---|---|
| `index` | `ResultStore._index`: the store a result is in |
| `meta`, `fileTotal` | `FileStore._meta`, `_total_bytes` |
| `memory`, `memoryTotal` | the same of `MemoryStore` |
| `files`, `temps`, `hasManifest`, `manifest` | the directory, which outlives the process |
| `op` | the call in progress: before the rename, before the manifest, in a read, in the sweep |
| `size`, `expires`, `made`, `time`, `up`, `faults` | of results, the clock, the process, and the crashes and disk errors so far |

Calls run one at a time on the event loop; what cuts them is the disk.
`PutBegins` chooses the store and writes the temporary file, `Renamed` puts it in its
place and counts it, `Saved` writes the manifest and announces the result;
`WriteFails` and `SaveFails` are disk errors with the fallback to memory.  `Read` and
`Get` are a read that drops what expired, `SweepBegins`, `SweepIndex`, `SweepStores` the
first job of the gateway's sweeper, with a manifest after each removed file.
`Crash` dies between two of these, `Stop` between two calls, `Restart` loads the
manifest (`Load`) or deletes what the directory holds (`SweepDirectory`).  A manifest that
turns out to be bad halfway leaves what was loaded from it, counted
(`LoadedPart`), although the files go; a file that cannot be deleted stays.

Abstracted: contents; who may read; the names of files; `read_lines`, which nobody
calls.

### Run, bounds, fairness

`result_storage`: two results of 1 or 3 bytes, 3 bytes for files and 2 in memory, so
that one fits beside nothing, the second falls back or is refused; expiry one tick
after the put, three ticks, three faults (142,625 states): a crash, a failed write and
a failed removal in one behaviour.  Weak fairness of a call in progress; strong
fairness of `SweepBegins`, as the timer of the sweeper comes round whatever reads are
made in between.  Deadlock is not checked: time and results are bounded.  TLC also
evaluates `PagesChecked`: the pages of a result hold each of its lines once.

### What else was met

* An OSError of the manifest ends the whole round of sweep jobs (`cleanup.py:33`), so
  everything after it waits for the next round; `ExpiredLeave` holds nevertheless.
* After `SaveFails` the result is in both stores and counts in both.
* A restart reloads the FileStore and not the index: what survived cannot be
  read and only waits to be swept.
* A crash between rename and manifest leaves a file that the next start, having a
  manifest, keeps for ever, although `file_store.py:53` speaks of sweeping orphans.

### What is proved

`ResultStorageProofs`, for all budgets, sizes, lifetimes and numbers of faults:
`StorageTyped`, `AnnouncedStaysStored` (also in the manifest that a restart would
read), `ResultsStayAvailable`.  The invariant adds that a dead process has neither
call nor index, that a sweep took its time before now (`SinceIsPast`, without which it
could take a result that is not due), and that the result of an unfinished put is new
and, after the rename, held (`PutSound`).  Every step of a read or sweep is shown to be a
`RemovesDue`, every step of a put a `PutAdds`, a rename or save, or a `FallsBack`, and the
property is proved once for each kind.

`BytesAreAccounted`: the two totals are the sums of the sizes of what is held, and
within their budgets.  `SumTheorems` supplies what a step does to a sum: `SumAdd` and
`SumRemove` for one result more or less, `SumRest` for all that a sweep takes.
`ExpiredLeave` (liveness) is model-checked only.

## 9. Access: tokens, policy, quotas

### Correspondence

`AccessPolicy` has one operator for each `authorize_` method of `PolicyEngine`
(`ServiceVerdict`, `OpenVerdict`, `DiscoveryVerdict`, `SubscriptionVerdict`,
`OperationVerdict`, `OperationDiscoveryVerdict`, `ExecutionVerdict`), `Described` for the
policy block of a description, and the estimates of `cost.py` with their limits.

| `GatewayAccess` | code |
|---|---|
| `digests`, `lapses` | `_token_digests`, `_previous_expires_at` |
| `failures` | `_auth_failure_windows` |
| `keys`, `usage`, `recent` | day and month of the counters, the counters, `_rate_windows` |
| `writers`, `saved` | snapshots in worker threads; `usage.json` |
| `consecutive`, `open`, `running` | the breakers, and the requests that may still move them |
| `admitted`, `rejected`, `outcomes` | history |

A call is one stretch of the event loop: `CallTurnedAway` (429, or no proper header),
`CallRejected` (a token that does not verify; a lapsed one is dropped),
`Refused` and `Admitted` (policy, budgets, window, breaker; the period rolls, the
snapshot goes to a thread).  `Write` is a thread that writes, in any order.
`Ends` is the outcome of an admitted request.  `Stop` and `Start` are one process after
the other, never two: the instance lock sees to that.

The tokens come from the environment, also where the configured file or credential
is missing (`FromEnvironment`), or from a file or credential that both names lead to,
unless the previous token has a file of its own.

Abstracted: digests (a token is its name; a previous one is always configured), the
verifier's single principal, and so
counters per operation; addresses are one in the run.

### Run, bounds

`access_quota`: budgets of 2 a day and 3 a month with 2 days to the month, windows
of 2 in one tick, threshold 2, tokens from two files, overlap 2, two services, three ticks, six counted
events, one restart (424,156 states).  Each limit can be reached and met once
more; a day and the restart fall inside the behaviour, so late snapshots of the day
before and of the process before exist.  TLC also evaluates `PolicyFilesChecked` and
`CostsChecked` over many small policy files and requests.

### What the code does not keep

1. `CurrentTokenVerifies` (`docs/configuration.md:62`): with `token_source` `file` or
   `windows_credential_manager`, its file or credential there and no file for the
   previous token, the previous token is read from where the current one is; the two digests are one, and the
   current token lapses at the end of the overlap (`token_verifier.py:136`).
2. A breaker, once open, is closed only by a request admitted before: new ones are
   refused, and `reset_entitlement_circuit` has no caller.  When nothing is in
   flight it stays open until the process ends (`health.py:51` asks for the service
   `"*"`, so the health report does not show it).
3. A late snapshot replaces a newer one (`quota.py:115`): after a restart usage is
   forgotten.  `UsageNeverInvented` says that nothing worse happens.
4. A restart arms the overlap of the previous token again.
5. `estimate_cost` is 0 when the dates arrive as dates instead of text, and it
   rounds down (`EstimateGrows` says what holds).

A curated tool that times out reports TIMEOUT while its request runs on
(`curated_tools.py:78`); curated tools are not modelled.

### What is proved

`GatewayAccessProofs`, for every policy, principal, service and operation:
`UnlistedSafe` (what no entry or wildcard lists, or a deny_ family forbids, is not
executable) and `DescriptionSound` (what a client is told agrees with the check it
will meet).  They are facts about operators; TLC evaluates the same
formulas over the policy files of the run.

About the state, for all constants of `AccessAssumption`: `AccessTyped`; `RotationHolds`, which is `TokensRotate` for
the sources that have a previous token of their own (`Rotating`; 1. above is the
rest); `BreakersFollowOutcomes`.  The invariant behind the last one says that
`consecutive` is the length of the longest run of refusals that ends the outcomes
of the service (`CountsRun`); that run being at least `Threshold` long is what the
property says.

`WindowsAreKept`: a window is a number for each time, and `WindowFor` says what it
knows of the history: nothing that did not happen, and everything as long as it
matters.  The code prunes what is a window old and counts the rest; that no stretch
of one window, wherever it begins, holds more than the limit follows because each
stretch that an admission falls into lies within what was counted.

`UsageIsNeverInvented`: in memory, in every writer thread and on disk the counts stay
within what all processes admitted on that day and in that month (`Within`).  Besides
that the invariant needs the calendar: day and month of a snapshot belong together,
and the keys in memory are not ahead of the clock, so a roll of the period never
carries a count over.  Writes, crashes and restarts only forget (`UsageForgets`).

`EstimateGrows` (nonlinear integer arithmetic) is model-checked only.

## 10. What is not modelled

* The table of correlation ids that requests and subscriptions share.  Both number
  from 1 (`subscriptions.py:87`, `native_backend.py:218`) and write one dictionary; each
  module here has a table of its own, so a request and a subscription that have the
  same number do not disturb each other in the models as they would in the code.
* The reader thread's poll loop over native events (the stream it produces is in
  `RequestExecution`), event decoding and normalization: sequential translations.
* The command line, the probe of the port, the two forms of the instance lock, the
  reading of configuration and policy files.
* The curated tools, resources, paging arguments and rendering of the MCP server.
* Logging, metrics, tracing, health; the fake backend, a test double.

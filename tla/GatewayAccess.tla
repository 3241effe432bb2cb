---------------------------- MODULE GatewayAccess ----------------------------
(***************************************************************************)
(* What a call has to pass before it becomes a request: the bearer token   *)
(* (BearerAuthMiddleware, TokenVerifier), the policy (AccessPolicy), and   *)
(* the QuotaEngine with its failure windows, usage budgets, rate window    *)
(* and entitlement breakers; and what the QuotaEngine leaves on disk for   *)
(* the next process.                                                       *)
(*                                                                         *)
(* A call is one stretch of the event loop up to the point where its usage *)
(* snapshot is given to a worker thread; the threads write when they like, *)
(* in any order.  The verifier maps every token to one principal, so the   *)
(* counters are those of one principal, summed over operations.            *)
(***************************************************************************)
EXTENDS AccessPolicy, Sequences, FiniteSets, FiniteSetsExt

CONSTANTS
  Policy,          (* the policy file in force                             *)
  Caller,          (* the principal that the tokens are bound to           *)
  Addresses,       (* client addresses                                     *)
  TokenSource,     (* auth.token_source                                    *)
  PreviousFile,    (* auth.previous_token_file is set                      *)
  TokenStored,     (* auth.token_file or the credential is there           *)
  Overlap,         (* auth.token_overlap_seconds                           *)
  AuthLimit,       (* governance.auth_failure_rate_limit                   *)
  DailyBudget,     (* governance.daily_request_budget                      *)
  MonthlyBudget,   (* governance.monthly_request_budget                    *)
  RateMax,         (* _RATE_MAX_PER_WINDOW                                 *)
  Window,          (* _RATE_WINDOW_SECONDS                                 *)
  Threshold,       (* governance.entitlement_failure_circuit_threshold     *)
  DayLength,       (* length of a day                                      *)
  MonthDays,       (* days of a month                                      *)
  MaxTime,         (* bound of the model: the clock                        *)
  MaxEvents,       (* bound of the model: calls that count, and outcomes   *)
  MaxProcesses     (* bound of the model: starts of the gateway            *)

ASSUME AccessAssumption ==
  /\ Policy \in Policies /\ Caller \in Principal
  /\ TokenSource \in {"env", "file", "windows_credential_manager"}
  /\ {PreviousFile, TokenStored} \subseteq BOOLEAN
  /\ {Overlap, Window, MaxTime, MaxEvents} \subseteq Nat
  /\ {AuthLimit, DailyBudget, MonthlyBudget, RateMax, Threshold,
      DayLength, MonthDays, MaxProcesses} \subseteq Nat \ {0}

VARIABLES
  time,        (* the clock                                                *)
  process,     (* the number of the process that runs or ran last          *)
  up,          (* it runs                                                  *)
  digests,     (* _token_digests: the secrets whose digest is registered   *)
  lapses,      (* _previous_expires_at                                     *)
  failures,    (* _auth_failure_windows                                    *)
  keys,        (* _day_key and _month_key                                  *)
  usage,       (* the counts of the day and of the month                   *)
  recent,      (* _rate_windows                                            *)
  writers,     (* snapshots that worker threads hold                       *)
  saved,       (* usage.json                                               *)
  consecutive, (* _consecutive_entitlement_failures                        *)
  open,        (* _entitlement_circuit_open                                *)
  running,     (* admitted requests whose outcome is not known yet         *)
  events,      (* how many calls counted and outcomes came so far          *)
  admitted,    (* history: admissions of each process at each time         *)
  rejected,    (* history: rejected tokens of each address, likewise       *)
  outcomes     (* history: recorded outcomes of this process by service    *)

authVars == <<digests, lapses, failures>>
countVars == <<keys, usage, recent>>
fileVars == <<writers, saved>>
breakerVars == <<consecutive, open, running>>
history == <<admitted, rejected, outcomes>>
vars == <<time, process, up, authVars, countVars, fileVars, breakerVars,
          events, history>>

-----------------------------------------------------------------------------
DayOf(t) == t \div DayLength
MonthOf(t) == DayOf(t) \div MonthDays
Keys(t) == [day |-> DayOf(t), month |-> MonthOf(t)]

Times == 0..MaxTime
Processes == 1..MaxProcesses
Event ==
  /\ events < MaxEvents
  /\ events' = events + 1

\* The services on which the caller may execute something.
Callable == {s \in Services :
  \E o \in Operations : ExecutionVerdict(Policy, Caller, s, o) = "OK"}

-----------------------------------------------------------------------------
(* tokens *)

Secrets == {"current", "previous", "unknown"}

\* _read_token: only the environment has a name for the previous token, and
\* what is not in its file or not a credential is taken from there.
FromEnvironment == TokenSource = "env" \/ ~TokenStored
ReadToken(name) == IF FromEnvironment THEN name ELSE "current"
\* Mutant: the previous token has no source of its own.
ReadPreviousShared == ReadToken("previous")
\* _read_previous_token
ReadPrevious ==
  IF TokenSource = "file" /\ PreviousFile THEN "previous"
  ELSE ReadToken("previous")

\* _load_tokens, with the overlap counted from the start of the process.
LoadedDigests == {ReadToken("current"), ReadPrevious}

Lapsed(secret) == secret = ReadPrevious /\ time >= lapses
Verifies(secret) == secret \in digests /\ ~Lapsed(secret)

\* A window is a deque of times; what counts of it is how many are in it at
\* each time.
Sum(f, T) == MapThenSumSet(LAMBDA t : f[t], T)
EmptyWindow == [t \in Times |-> 0]
Fresh(w) == [t \in Times |-> IF t + Window >= time THEN w[t] ELSE 0]
Held(w) == Sum(w, Times)
Recorded(w) == [w EXCEPT ![time] = @ + 1]

\* admit_auth_attempt lets a call from this address through.
GateOpen(a) == Held(Fresh(failures[a])) < AuthLimit

Pruned(a) == failures' = [failures EXCEPT ![a] = Fresh(@)]

\* 429, or 401 for a missing or malformed header: neither is a failure.
CallTurnedAway(a) ==
  /\ up
  /\ Pruned(a)
  /\ UNCHANGED <<time, process, up, digests, lapses, countVars, fileVars,
                 breakerVars, events, history>>

\* A token that does not verify; a lapsed previous token leaves the table.
CallRejected(a, secret) ==
  /\ up /\ GateOpen(a) /\ ~Verifies(secret)
  /\ digests' = IF Lapsed(secret) THEN digests \ {secret} ELSE digests
  /\ failures' = [failures EXCEPT ![a] = Recorded(Fresh(@))]
  /\ Event
  /\ rejected' = [rejected EXCEPT ![process][a][time] = @ + 1]
  /\ UNCHANGED <<time, process, up, lapses, countVars, fileVars, breakerVars,
                 admitted, outcomes>>

-----------------------------------------------------------------------------
(* budgets *)

None == [day |-> 0, month |-> 0]
\* _roll_period_locked
RolledUsage ==
  [day |-> IF keys.day = DayOf(time) THEN usage.day ELSE 0,
   month |-> IF keys.month = MonthOf(time) THEN usage.month ELSE 0]

WithinBudgets ==
  RolledUsage.day < DailyBudget /\ RolledUsage.month < MonthlyBudget

\* A call with a good token for an executable operation, breaker closed.
Passes(a, secret, s) ==
  /\ up /\ GateOpen(a) /\ Verifies(secret)
  /\ s \in Callable \ open
  /\ Pruned(a)
  /\ keys' = Keys(time)

\* Mutant: the month is counted with the day it began.
CountedForDay(u) == [day |-> u.day + 1, month |-> u.day + 1]
Counted(u) == [day |-> u.day + 1, month |-> u.month + 1]

\* Mutant: one more than the window holds.
RoomLate(w) == Held(w) <= RateMax
Room(w) == Held(w) < RateMax

\* admit_request counts the request; a thread takes the snapshot.
Admitted(a, secret, s) ==
  /\ Passes(a, secret, s)
  /\ WithinBudgets /\ Room(Fresh(recent))
  /\ recent' = Recorded(Fresh(recent))
  /\ usage' = Counted(RolledUsage)
  /\ writers' = writers \cup {[keys |-> Keys(time), usage |-> usage']}
  /\ running' = [running EXCEPT ![s] = @ + 1]
  /\ Event
  /\ admitted' = [admitted EXCEPT ![process][time] = @ + 1]
  /\ UNCHANGED <<time, process, up, digests, lapses, saved, consecutive, open,
                 rejected, outcomes>>

\* LICENSE_BUDGET_EXCEEDED or RATE_LIMITED: the period has been rolled.
Refused(a, secret, s) ==
  /\ Passes(a, secret, s)
  /\ ~WithinBudgets \/ ~Room(Fresh(recent))
  /\ recent' = IF WithinBudgets THEN Fresh(recent) ELSE recent
  /\ usage' = RolledUsage
  /\ UNCHANGED <<time, process, up, digests, lapses, fileVars, breakerVars,
                 events, history>>

\* _write_payload in a worker thread: the last rename wins.
Write(w) ==
  /\ up /\ w \in writers
  /\ saved' \in {w, saved}           \* an OSError is logged, no more
  /\ writers' = writers \ {w}
  /\ UNCHANGED <<time, process, up, authVars, countVars, breakerVars, events,
                 history>>

-----------------------------------------------------------------------------
(* entitlement breakers *)

\* Mutant: a success of one service resets them all.
SuccessOfAll(s) ==
  /\ consecutive' = [r \in Services |-> 0]
  /\ open' = {}
\* record_entitlement_success
Success(s) ==
  /\ consecutive' = [consecutive EXCEPT ![s] = 0]
  /\ open' = open \ {s}

\* record_entitlement_failure
Failure(s) ==
  /\ consecutive' = [consecutive EXCEPT ![s] = @ + 1]
  /\ open' = IF consecutive[s] + 1 >= Threshold THEN open \cup {s} ELSE open

Finished(s) ==
  /\ running[s] > 0
  /\ running' = [running EXCEPT ![s] = @ - 1]

\* A request ends: entitled, not entitled, or in some other way.
Ends(s) ==
  /\ up
  /\ Finished(s)
  /\ \/ /\ Event
        /\ \/ /\ Success(s)
              /\ outcomes' = [outcomes EXCEPT ![s] = Append(@, "entitled")]
           \/ /\ Failure(s)
              /\ outcomes' = [outcomes EXCEPT ![s] = Append(@, "refused")]
     \/ UNCHANGED <<consecutive, open, events, outcomes>>
  /\ UNCHANGED <<time, process, up, authVars, countVars, fileVars, admitted,
                 rejected>>

-----------------------------------------------------------------------------
(* the process and the clock *)

\* What a new process knows: the tokens, and the usage if it is of the day.
Started(t, file) ==
  /\ digests' = LoadedDigests /\ lapses' = t + Overlap
  /\ failures' = [a \in Addresses |-> EmptyWindow]
  /\ keys' = Keys(t)
  /\ usage' =
       [day |-> IF file.keys.day = DayOf(t) THEN file.usage.day ELSE 0,
        month |-> IF file.keys.month = MonthOf(t) THEN file.usage.month ELSE 0]
  /\ recent' = EmptyWindow
  /\ consecutive' = [s \in Services |-> 0] /\ open' = {}
  /\ running' = [s \in Services |-> 0]
  /\ outcomes' = [s \in Services |-> <<>>]

Init ==
  /\ time = 0 /\ process = 1 /\ up = TRUE
  /\ digests = LoadedDigests /\ lapses = Overlap
  /\ failures = [a \in Addresses |-> EmptyWindow]
  /\ keys = Keys(0) /\ usage = None /\ recent = EmptyWindow
  /\ writers = {} /\ saved = [keys |-> Keys(0), usage |-> None]
  /\ consecutive = [s \in Services |-> 0] /\ open = {}
  /\ running = [s \in Services |-> 0]
  /\ events = 0
  /\ admitted = [p \in Processes |-> [t \in Times |-> 0]]
  /\ rejected = [p \in Processes |->
                   [a \in Addresses |-> [t \in Times |-> 0]]]
  /\ outcomes = [s \in Services |-> <<>>]

\* The end of a process, with whatever its threads have not written.
Stop ==
  /\ up /\ process < MaxProcesses
  /\ up' = FALSE
  /\ writers' = {}
  /\ UNCHANGED <<time, process, authVars, countVars, saved, breakerVars,
                 events, history>>

Start ==
  /\ ~up
  /\ up' = TRUE
  /\ process' = process + 1
  /\ Started(time, saved)
  /\ UNCHANGED <<time, fileVars, events, admitted, rejected>>

Tick ==
  /\ time < MaxTime
  /\ time' = time + 1
  /\ UNCHANGED <<process, up, authVars, countVars, fileVars, breakerVars,
                 events, history>>

Next ==
  \/ \E a \in Addresses : CallTurnedAway(a)
  \/ \E a \in Addresses, secret \in Secrets : CallRejected(a, secret)
  \/ \E a \in Addresses, secret \in Secrets, s \in Services :
       Admitted(a, secret, s) \/ Refused(a, secret, s)
  \/ \E w \in writers : Write(w)
  \/ \E s \in Services : Ends(s)
  \/ Stop \/ Start \/ Tick

Spec == Init /\ [][Next]_vars

-----------------------------------------------------------------------------
(* properties *)

Snapshot == [keys : [day : Nat, month : Nat],
             usage : [day : Nat, month : Nat]]

AuthType ==
  /\ digests \subseteq Secrets /\ lapses \in Nat
  /\ failures \in [Addresses -> [Times -> Nat]]
CountType ==
  /\ recent \in [Times -> Nat]
  /\ keys \in [day : Nat, month : Nat] /\ usage \in [day : Nat, month : Nat]
  /\ writers \subseteq Snapshot /\ saved \in Snapshot
BreakerType ==
  /\ consecutive \in [Services -> Nat] /\ open \subseteq Services
  /\ running \in [Services -> Nat]
  /\ outcomes \in [Services -> Seq({"entitled", "refused"})]
LogType ==
  /\ time \in Times /\ process \in Processes /\ up \in BOOLEAN
  /\ events \in Nat
  /\ admitted \in [Processes -> [Times -> Nat]]
  /\ rejected \in [Processes -> [Addresses -> [Times -> Nat]]]

(* Every variable has its type.                                            *)
TypeOK == AuthType /\ CountType /\ BreakerType /\ LogType

\* What all processes admitted at each time, on a day and in a month.
AdmittedAt ==
  [t \in Times |-> Sum([p \in Processes |-> admitted[p][t]], Processes)]
AdmittedOn(day) == Sum(AdmittedAt, {t \in Times : DayOf(t) = day})
AdmittedIn(month) == Sum(AdmittedAt, {t \in Times : MonthOf(t) = month})
NeverMore(k, u) ==
  u.day <= AdmittedOn(k.day) /\ u.day <= u.month
    /\ u.month <= AdmittedIn(k.month)

(* No count, in memory, in a thread or on disk, exceeds what was really    *)
(* admitted on its day and in its month, and a month holds its days: late  *)
(* and reordered snapshots and restarts only ever forget usage, so no      *)
(* caller is refused a budget that is not spent; the first process forgets *)
(* nothing (quota.py:62-70, 104-115, 209-249).                             *)
UsageNeverInvented ==
  /\ NeverMore(keys, usage) /\ NeverMore(saved.keys, saved.usage)
  /\ \A w \in writers : NeverMore(w.keys, w.usage)
  /\ process = 1 => /\ usage.day = AdmittedOn(keys.day)
                    /\ usage.month = AdmittedIn(keys.month)

(* In no stretch of one window, wherever it begins, does a process admit   *)
(* more than RateMax requests, or compare more than AuthLimit tokens of an *)
(* address in vain (quota.py:97-103, 131-160; middleware.py:88-138).       *)
WindowsHold ==
  \A t \in Times, p \in Processes :
    LET stretch == t..(t + Window) \cap Times
    IN /\ Sum(admitted[p], stretch) <= RateMax
       /\ \A a \in Addresses : Sum(rejected[p][a], stretch) <= AuthLimit

(* Through a rotation the current token always verifies, the previous one  *)
(* only until its overlap ends, and no other ever                          *)
(* (token_verifier.py:80-125, 157-183).                                    *)
TokensRotate ==
  /\ Verifies("current")
  /\ Verifies("previous") => time < lapses
  /\ ~Verifies("unknown")

(* The current token always verifies (docs/configuration.md:62-66: only    *)
(* previous tokens expire).                                                *)
CurrentTokenVerifies == Verifies("current")

(* A breaker is open exactly while the last Threshold outcomes of its      *)
(* service in this process were all refusals, whatever other services did  *)
(* and in whatever order requests end (quota.py:164-186).                  *)
BreakerFollowsOutcomes ==
  \A s \in Services :
    LET n == Len(outcomes[s])
    IN s \in open <=>
         /\ n >= Threshold
         /\ \A i \in (n - Threshold + 1)..n : outcomes[s][i] = "refused"
=============================================================================

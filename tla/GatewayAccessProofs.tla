------------------------- MODULE GatewayAccessProofs -------------------------
(***************************************************************************)
(* Proofs about GatewayAccess, for every limit, window, calendar and policy, *)
(* and for every number of calls and processes.                            *)
(***************************************************************************)
EXTENDS GatewayAccess, SequenceTheorems, SumTheorems

-----------------------------------------------------------------------------
(* What the PolicyEngine decides, for every policy file, principal, service *)
(* and operation.  A verdict is "OK" only if none of the checks before it   *)
(* raised, and an entry that may execute is not NoOperation, so it was      *)
(* found in the file.                                                       *)

\* An operation that may execute has an entry of its own or a wildcard entry
\* in a service of the file (models.py:33-36, engine.py:32-39).
LEMMA ExecutableIsFound ==
  ASSUME NEW c, NEW s, NEW o, Entry(c, s, o).execute
  PROVE  /\ s \in DOMAIN c.services
         /\ {o, Wildcard} \cap DOMAIN c.services[s].operations # {}
  <1>1. {o, Wildcard} \cap DOMAIN ServiceOf(c, s).operations # {}
    <2>1. o \in DOMAIN ServiceOf(c, s).operations
            \/ Wildcard \in DOMAIN ServiceOf(c, s).operations
      BY DEF Entry, NoOperation
    <2> QED BY <2>1
  <1>2. s \in DOMAIN c.services
    <2>1. ASSUME s \notin DOMAIN c.services PROVE FALSE
      <3>1. ServiceOf(c, s).operations = [n \in {} |-> NoOperation]
        BY <2>1 DEF ServiceOf, NoService
      <3>2. DOMAIN ServiceOf(c, s).operations = {} BY <3>1
      <3> QED BY <3>2, <1>1
    <2> QED BY <2>1
  <1>3. ServiceOf(c, s) = c.services[s] BY <1>2 DEF ServiceOf
  <1> QED BY <1>1, <1>2, <1>3

\* What may be executed passed every check of operation_policy
\* (engine.py:84-96).
LEMMA ExecutionChecks ==
  ASSUME NEW c, NEW p, NEW s, NEW o, ExecutionVerdict(c, p, s, o) = "OK"
  PROVE  /\ OperationVerdict(c, s, o) = "OK"
         /\ Entry(c, s, o).execute
         /\ Entry(c, s, o).scope = NoScope \/ HasScope(p, Entry(c, s, o).scope)
  BY DEF ExecutionVerdict

\* Nothing that is unlisted or of a denied family is executable, whoever asks
\* and whatever the wildcards and switches of the file say.
THEOREM UnlistedSafe == UnlistedNeverRuns
  <1> SUFFICES ASSUME NEW c \in Policies, NEW p \in Principal,
                      NEW s \in Services, NEW o \in Operations,
                      ExecutionVerdict(c, p, s, o) = "OK"
               PROVE  /\ ~("authorization" \in c.denied /\ o \in Authorization)
                      /\ ~("provider" \in c.denied /\ o \in Provider)
                      /\ s \in DOMAIN c.services
                      /\ {o, Wildcard} \cap DOMAIN c.services[s].operations # {}
    BY DEF UnlistedNeverRuns
  <1>1. OperationVerdict(c, s, o) = "OK" /\ Entry(c, s, o).execute
    BY ExecutionChecks
  <1>2. ~Forbidden(c, o) BY <1>1 DEF OperationVerdict
  <1>3. /\ s \in DOMAIN c.services
        /\ {o, Wildcard} \cap DOMAIN c.services[s].operations # {}
    BY <1>1, ExecutableIsFound
  <1> QED BY <1>2, <1>3 DEF Forbidden

\* The policy block that describe_operation shows and the check that a request
\* meets agree, in both directions.
THEOREM DescriptionSound == DescriptionAgrees
  <1> SUFFICES ASSUME NEW c \in Policies, NEW s \in Services, NEW o \in Operations
               PROVE  LET d == Described(c, s, o) IN
                 /\ \A p \in Principal :
                      ExecutionVerdict(c, p, s, o) = "OK" <=>
                        d.execute /\ (d.scope = NoScope \/ HasScope(p, d.scope))
                 /\ OperationDiscoveryVerdict(c, s, o, TRUE) = "OK" => d.discover
                 /\ d.execute => d.discover
    BY DEF DescriptionAgrees
  <1> DEFINE d == Described(c, s, o)
             e == Entry(c, s, o)
  <1>1. CASE OperationVerdict(c, s, o) # "OK"
    <2>1. d.execute = FALSE BY <1>1 DEF Described, NoOperation
    <2>2. \A p : ExecutionVerdict(c, p, s, o) # "OK" BY <1>1, ExecutionChecks
    <2>3. OperationDiscoveryVerdict(c, s, o, TRUE) # "OK"
      BY <1>1 DEF OperationDiscoveryVerdict
    <2> QED BY <2>1, <2>2, <2>3
  <1>2. CASE OperationVerdict(c, s, o) = "OK"
    <2>1. /\ d.execute = e.execute /\ d.scope = e.scope
          /\ d.discover = (e.discover \/ e.execute)
      BY <1>2 DEF Described
    <2>2. ASSUME NEW p \in Principal
          PROVE  ExecutionVerdict(c, p, s, o) = "OK" <=>
                   d.execute /\ (d.scope = NoScope \/ HasScope(p, d.scope))
      <3>1. ExecutionVerdict(c, p, s, o) =
              IF e.execute /\ (e.scope = NoScope \/ HasScope(p, e.scope))
              THEN "OK" ELSE "AUTH_FORBIDDEN"
        BY <1>2 DEF ExecutionVerdict
      <3> QED BY <3>1, <2>1
    <2>3. OperationDiscoveryVerdict(c, s, o, TRUE) = "OK" => d.discover
      <3>1. OperationDiscoveryVerdict(c, s, o, TRUE) = "OK"
              => e.discover \/ e.execute
        BY <1>2 DEF OperationDiscoveryVerdict
      <3> QED BY <3>1, <2>1
    <2>4. d.execute => d.discover BY <2>1
    <2> QED BY <2>2, <2>3, <2>4
  <1> QED BY <1>1, <1>2

-----------------------------------------------------------------------------
(* The inductive invariant.                                                *)

\* The gateway can tell the previous token from the current one.
Rotating == FromEnvironment \/ (TokenSource = "file" /\ PreviousFile)

\* The table of a process always has the current token and no foreign one.
TokensSound ==
  Rotating => "current" \in digests /\ "unknown" \notin digests

\* The count of a breaker is the length of the run of refusals that ends its
\* outcomes, and the breaker is open when the run is long enough.
CountsRun(s) ==
  /\ s \in open <=> consecutive[s] >= Threshold
  /\ consecutive[s] <= Len(outcomes[s])
  /\ \A i \in 1..Len(outcomes[s]) :
       i > Len(outcomes[s]) - consecutive[s] => outcomes[s][i] = "refused"
  /\ consecutive[s] < Len(outcomes[s]) =>
       outcomes[s][Len(outcomes[s]) - consecutive[s]] = "entitled"
BreakerSound == \A s \in Services : CountsRun(s)

\* Only a process that is not the last one ends.
ProcessSound == up \/ process < MaxProcesses

IInv == TypeOK /\ ProcessSound /\ TokensSound /\ BreakerSound

\* What the window w knows of the history h at a time: nothing that did not
\* happen, and everything as long as it matters; and no stretch of one window
\* holds more than the limit.
WindowFor(w, h, limit, now) ==
  \A t \in Times :
    /\ h[t] # 0 => t <= now
    /\ w[t] <= h[t]
    /\ t + Window >= now => w[t] = h[t]
    /\ Sum(h, t..(t + Window) \cap Times) <= limit
LaterEmpty ==
  \A p \in Processes : p > process =>
    /\ admitted[p] = EmptyWindow
    /\ \A a \in Addresses : rejected[p][a] = EmptyWindow
WindowsSound ==
  /\ WindowFor(recent, admitted[process], RateMax, time)
  /\ \A a \in Addresses :
       WindowFor(failures[a], rejected[process][a], AuthLimit, time)
  /\ LaterEmpty
  /\ WindowsHold

\* Day and month of a set of keys belong together, the keys in memory are not
\* ahead of the clock, and nothing was admitted later than now; in the first
\* process nothing was admitted after the day of the keys.
Calendar(k) == k.month = k.day \div MonthDays
UsageSound ==
  /\ UsageNeverInvented
  /\ Calendar(keys) /\ Calendar(saved.keys)
  /\ \A w \in writers : Calendar(w.keys)
  /\ keys.day <= DayOf(time)
  /\ \A t \in Times : AdmittedAt[t] # 0 => t <= time
  /\ process = 1 => \A t \in Times : AdmittedAt[t] # 0 => DayOf(t) <= keys.day

-----------------------------------------------------------------------------
(* Histories that are counted up.                                           *)

\* One more at a time.
LEMMA CountedAt ==
  ASSUME NEW f \in [Times -> Nat], NEW t
  PROVE  [f EXCEPT ![t] = @ + 1] \in [Times -> Nat]
  <1> DEFINE cell(u) == IF u = t THEN f[u] + 1 ELSE f[u]
  <1>1. [f EXCEPT ![t] = @ + 1] = [u \in Times |-> cell(u)]
    OBVIOUS
  <1>2. \A u \in Times : cell(u) \in Nat
    OBVIOUS
  <1> HIDE DEF cell
  <1>3. [u \in Times |-> cell(u)] \in [Times -> Nat]
    BY <1>2
  <1> QED
    BY <1>1, <1>3

\* One more of a process at a time.
LEMMA CountedOnce ==
  ASSUME NEW f \in [Processes -> [Times -> Nat]], NEW p, NEW t
  PROVE  [f EXCEPT ![p][t] = @ + 1] \in [Processes -> [Times -> Nat]]
  <1> DEFINE row(q) == IF q = p THEN [f[q] EXCEPT ![t] = @ + 1] ELSE f[q]
  <1>1. [f EXCEPT ![p][t] = @ + 1] = [q \in Processes |-> row(q)]
    OBVIOUS
  <1>2. ASSUME NEW q \in Processes
        PROVE  row(q) \in [Times -> Nat]
    <2>1. f[q] \in [Times -> Nat]
      OBVIOUS
    <2> QED
      BY <2>1, CountedAt
  <1> HIDE DEF row
  <1>3. [q \in Processes |-> row(q)] \in [Processes -> [Times -> Nat]]
    BY <1>2
  <1> QED
    BY <1>1, <1>3

\* One more of an address in a process at a time.
LEMMA CountedTwice ==
  ASSUME NEW f \in [Processes -> [Addresses -> [Times -> Nat]]],
         NEW p, NEW a, NEW t
  PROVE  [f EXCEPT ![p][a][t] = @ + 1]
           \in [Processes -> [Addresses -> [Times -> Nat]]]
  <1> DEFINE cell(q, b) == IF b = a THEN [f[q][b] EXCEPT ![t] = @ + 1]
                           ELSE f[q][b]
             row(q) == IF q = p THEN [f[q] EXCEPT ![a][t] = @ + 1] ELSE f[q]
  <1>1. [f EXCEPT ![p][a][t] = @ + 1] = [q \in Processes |-> row(q)]
    OBVIOUS
  <1>2. ASSUME NEW q \in Processes
        PROVE  row(q) \in [Addresses -> [Times -> Nat]]
    <2>1. f[q] \in [Addresses -> [Times -> Nat]]
      OBVIOUS
    <2>2. [f[q] EXCEPT ![a][t] = @ + 1] = [b \in Addresses |-> cell(q, b)]
      BY <2>1
    <2>3. ASSUME NEW b \in Addresses
          PROVE  cell(q, b) \in [Times -> Nat]
      <3>1. f[q][b] \in [Times -> Nat]
        BY <2>1
      <3> QED
        BY <3>1, CountedAt
    <2> HIDE DEF cell
    <2>4. [b \in Addresses |-> cell(q, b)] \in [Addresses -> [Times -> Nat]]
      BY <2>3
    <2> QED
      BY <2>1, <2>2, <2>4
  <1> HIDE DEF row
  <1>3. [q \in Processes |-> row(q)]
          \in [Processes -> [Addresses -> [Times -> Nat]]]
    BY <1>2
  <1> QED
    BY <1>1, <1>3

-----------------------------------------------------------------------------
(* Windows of times.                                                       *)

\* Pruning and recording keep the type of a window.
LEMMA WindowTyped ==
  /\ EmptyWindow \in [Times -> Nat]
  /\ \A w \in [Times -> Nat] :
       /\ Fresh(w) \in [Times -> Nat]
       /\ Recorded(w) \in [Times -> Nat]
  BY CountedAt DEF EmptyWindow, Fresh, Recorded

\* Time and size are numbers.
LEMMA WindowNumbers ==
  /\ MaxTime \in Nat /\ Window \in Nat
  /\ RateMax \in Nat /\ AuthLimit \in Nat
  /\ IsFiniteSet(Times) /\ Times \subseteq Nat /\ IsFiniteSet(Processes)
  /\ \A t \in Times : IsFiniteSet(t..(t + Window) \cap Times)
  <1>1. /\ MaxTime \in Nat /\ Window \in Nat
        /\ RateMax \in Nat /\ AuthLimit \in Nat
    BY AccessAssumption
  <1>2. IsFiniteSet(Times) /\ Times \subseteq Nat
    BY <1>1, FS_Interval DEF Times
  <1>3. IsFiniteSet(Processes)
    <2>1. MaxProcesses \in Int /\ 1 \in Int
      BY AccessAssumption
    <2> QED
      BY <2>1, FS_Interval DEF Processes
  <1> QED
    BY <1>1, <1>2, <1>3, FS_Subset

\* The sums of the module are those of the theorems about sums.
LEMMA SumsAreSums ==
  \A f, S : Sum(f, S) = SumOver(f, S)
  BY DEF Sum, SumOver

\* A window without entries is one of nothing.
LEMMA WindowEmpty ==
  ASSUME NEW limit \in Nat, NEW now \in Nat
  PROVE  WindowFor(EmptyWindow, EmptyWindow, limit, now)
  <1> SUFFICES ASSUME NEW t \in Times
               PROVE  Sum(EmptyWindow, t..(t + Window) \cap Times) = 0
    BY DEF WindowFor, EmptyWindow
  <1> DEFINE stretch == t..(t + Window) \cap Times
  <1>1. IsFiniteSet(stretch)
    BY WindowNumbers
  <1>2. \A u \in stretch : EmptyWindow[u] \in Nat /\ EmptyWindow[u] = 0
    BY DEF EmptyWindow
  <1>3. SumOver(EmptyWindow, {}) = SumOver(EmptyWindow, stretch)
    <2> HIDE DEF stretch
    <2>1. {} \in SUBSET stretch
      OBVIOUS
    <2> QED
      BY <1>1, <1>2, <2>1, SumSubset
  <1> QED
    BY <1>3, SumEmpty, SumsAreSums

\* What is pruned does not matter any more.
LEMMA WindowPruned ==
  ASSUME time \in Times, NEW w \in [Times -> Nat], NEW h \in [Times -> Nat],
         NEW limit, WindowFor(w, h, limit, time)
  PROVE  WindowFor(Fresh(w), h, limit, time)
  BY WindowNumbers DEF WindowFor, Fresh

\* As time goes on less matters.
LEMMA WindowLater ==
  ASSUME time \in Times, NEW w \in [Times -> Nat], NEW h \in [Times -> Nat],
         NEW limit, WindowFor(w, h, limit, time)
  PROVE  WindowFor(w, h, limit, time + 1)
  BY WindowNumbers DEF WindowFor

\* One more entry keeps to the limit if what is fresh was below it: a stretch
\* that reaches now has only fresh entries before.
LEMMA WindowRecorded ==
  ASSUME time \in Times, NEW w \in [Times -> Nat], NEW h \in [Times -> Nat],
         NEW limit \in Nat, WindowFor(w, h, limit, time),
         Held(Fresh(w)) < limit
  PROVE  WindowFor(Recorded(Fresh(w)), [h EXCEPT ![time] = @ + 1], limit, time)
  <1> DEFINE f == Fresh(w)
             g == [h EXCEPT ![time] = @ + 1]
  <1>1. /\ f \in [Times -> Nat] /\ g \in [Times -> Nat]
        /\ g[time] = h[time] + 1 /\ \A t \in Times \ {time} : g[t] = h[t]
    BY WindowTyped, CountedAt
  <1>2. WindowFor(f, h, limit, time)
    BY WindowPruned
  <1>3. ASSUME NEW t \in Times
        PROVE  /\ g[t] # 0 => t <= time
               /\ Recorded(f)[t] <= g[t]
               /\ t + Window >= time => Recorded(f)[t] = g[t]
    <2> HIDE DEF f, g
    <2>1. CASE t = time
      <3>0. time + Window >= time
        BY WindowNumbers
      <3>1. f[t] = h[t]
        BY <1>2, <2>1, <3>0 DEF WindowFor
      <3> QED
        BY <1>1, <2>1, <3>1, WindowNumbers DEF Recorded
    <2>2. CASE t # time
      BY <1>1, <1>2, <2>2 DEF Recorded, WindowFor
    <2> QED
      BY <2>1, <2>2
  <1>4. ASSUME NEW t \in Times
        PROVE  Sum(g, t..(t + Window) \cap Times) <= limit
    <2> DEFINE stretch == t..(t + Window) \cap Times
    <2>1. /\ IsFiniteSet(stretch) /\ IsFiniteSet(Times)
          /\ stretch \in SUBSET Times
          /\ \A u \in stretch : g[u] \in Int /\ h[u] \in Int /\ h[u] \in Nat
                                /\ f[u] \in Int
      BY <1>1, WindowNumbers
    <2>2. SumOver(h, stretch) <= limit
      BY <1>2, SumsAreSums DEF WindowFor
    <2>3. CASE time \notin stretch
      <3>1. \A u \in stretch : g[u] = h[u]
        BY <1>1, <2>3
      <3>2. SumOver(g, stretch) = SumOver(h, stretch)
        <4> HIDE DEF stretch, f, g
        <4> QED
          BY <2>1, <3>1, SumSame
      <3> QED
        BY <2>2, <3>2, SumsAreSums
    <2>4. CASE time \in stretch
      <3>1. \A u \in stretch : h[u] = f[u]
        <4> SUFFICES ASSUME NEW u \in stretch PROVE h[u] = f[u]
          OBVIOUS
        <4>1. CASE u <= time
          <5>1. u + Window >= time /\ u \in Times
            BY <2>4, <4>1, WindowNumbers
          <5> HIDE DEF f
          <5> QED
            BY <1>2, <5>1 DEF WindowFor
        <4>2. CASE ~(u <= time)
          <5>1. h[u] = 0 /\ f[u] <= h[u]
            <6> HIDE DEF f
            <6> QED
              BY <1>2, <4>2 DEF WindowFor
          <5> HIDE DEF f
          <5> QED
            BY <1>1, <5>1
        <4> QED
          BY <4>1, <4>2
      <3>2. SumOver(h, stretch) = SumOver(f, stretch)
        <4> HIDE DEF stretch, f, g
        <4> QED
          BY <2>1, <3>1, SumSame
      <3>3. SumOver(f, stretch) <= SumOver(f, Times)
        <4> HIDE DEF stretch, f, g
        <4> QED
          BY <1>1, <2>1, SumSubset
      <3>4. SumOver(f, Times) < limit
        BY SumsAreSums DEF Held
      <3>5. SumOver(g, stretch) = SumOver(h, stretch) + g[time] - h[time]
        <4>1. \A u \in stretch \ {time} : g[u] = h[u]
          BY <1>1
        <4> HIDE DEF stretch, f, g
        <4> QED
          BY <2>1, <2>4, <4>1, SumChange
      <3>6. /\ SumOver(f, stretch) \in Int /\ SumOver(f, Times) \in Int
            /\ h[time] \in Int
        <4> HIDE DEF stretch, f, g
        <4>1. SumOver(f, stretch) \in Int
          BY <2>1, SumInteger
        <4>2. SumOver(f, Times) \in Int
          BY <1>1, <2>1, SumInteger
        <4> QED
          BY <2>1, <2>4, <4>1, <4>2
      <3>7. SumOver(g, stretch) <= limit
        <4> HIDE DEF stretch, f, g
        <4> QED
          BY <1>1, <3>2, <3>3, <3>4, <3>5, <3>6
      <3> QED
        BY <3>7, SumsAreSums
    <2> QED
      BY <2>3, <2>4
  <1> HIDE DEF f, g
  <1> QED
    BY <1>2, <1>3, <1>4 DEF WindowFor, f, g

-----------------------------------------------------------------------------
(* Runs of refusals at the end of a sequence of outcomes.                   *)

\* After an entitled outcome the run is empty.
LEMMA EntitledRun ==
  ASSUME NEW w \in Seq({"entitled", "refused"})
  PROVE  LET v == Append(w, "entitled")
         IN /\ Len(v) \in Nat /\ Len(v) > 0
            /\ v[Len(v)] = "entitled"
  OBVIOUS

\* After a refusal the run is longer by one.
LEMMA RefusedRun ==
  ASSUME NEW w \in Seq({"entitled", "refused"}), NEW k \in Nat,
         k <= Len(w),
         \A i \in 1..Len(w) : i > Len(w) - k => w[i] = "refused",
         k < Len(w) => w[Len(w) - k] = "entitled"
  PROVE  LET v == Append(w, "refused")
         IN /\ Len(v) = Len(w) + 1 /\ k + 1 <= Len(v)
            /\ \A i \in 1..Len(v) : i > Len(v) - (k + 1) => v[i] = "refused"
            /\ k + 1 < Len(v) => v[Len(v) - (k + 1)] = "entitled"
  <1> DEFINE v == Append(w, "refused")
  <1>1. /\ Len(v) = Len(w) + 1 /\ Len(w) \in Nat
        /\ \A i \in 1..Len(w) : v[i] = w[i]
        /\ v[Len(w) + 1] = "refused"
    OBVIOUS
  <1>2. \A i \in 1..Len(v) : i > Len(v) - (k + 1) => v[i] = "refused"
    <2> SUFFICES ASSUME NEW i \in 1..Len(v), i > Len(v) - (k + 1)
                 PROVE  v[i] = "refused"
      OBVIOUS
    <2>1. CASE i = Len(w) + 1
      BY <1>1, <2>1
    <2>2. CASE i # Len(w) + 1
      <3>1. i \in 1..Len(w) /\ i > Len(w) - k
        BY <1>1, <2>2
      <3> QED
        BY <1>1, <3>1
    <2> QED
      BY <2>1, <2>2
  <1>3. ASSUME k + 1 < Len(v)
        PROVE  v[Len(v) - (k + 1)] = "entitled"
    <2>1. k < Len(w) /\ Len(v) - (k + 1) = Len(w) - k
      BY <1>1, <1>3
    <2>2. Len(w) - k \in 1..Len(w)
      BY <1>1, <2>1
    <2> QED
      BY <1>1, <2>1, <2>2
  <1> QED
    BY <1>1, <1>2, <1>3

-----------------------------------------------------------------------------
\* The clock and the processes are within their bounds.
LEMMA TimeNumber ==
  ASSUME TypeOK
  PROVE  /\ time \in Nat /\ time + Overlap \in Nat /\ time <= MaxTime
         /\ process \in Nat /\ process >= 1 /\ process <= MaxProcesses
         /\ MaxTime \in Nat /\ MaxProcesses \in Nat
  BY AccessAssumption DEF TypeOK, LogType, Times, Processes

\* The last process does not end.
LEMMA ProcessStep ==
  ASSUME IInv, [Next]_vars
  PROVE  ProcessSound'
  BY DEF IInv, ProcessSound, Next, CallTurnedAway, CallRejected, Admitted,
         Refused, Passes, Write, Ends, Stop, Start, Tick, vars

\* The table of tokens keeps its type.
LEMMA AuthStep ==
  ASSUME IInv, [Next]_vars
  PROVE  AuthType'
  <1> USE DEF IInv, TypeOK, AuthType, LogType
  <1> USE AccessAssumption
  <1>1. ASSUME NEW a \in Addresses, CallTurnedAway(a)
       PROVE  AuthType'
    BY <1>1, WindowTyped DEF CallTurnedAway, Pruned, countVars, fileVars, breakerVars, history
  <1>2. ASSUME NEW a \in Addresses, NEW secret \in Secrets,
              CallRejected(a, secret)
       PROVE  AuthType'
    BY <1>2, WindowTyped DEF CallRejected, Event, countVars, fileVars, breakerVars
  <1>3. ASSUME NEW a \in Addresses, NEW secret \in Secrets, NEW s \in Services,
              Admitted(a, secret, s)
       PROVE  AuthType'
    BY <1>3, WindowTyped DEF Admitted, Passes, Pruned, Event, countVars
  <1>4. ASSUME NEW a \in Addresses, NEW secret \in Secrets, NEW s \in Services,
              Refused(a, secret, s)
       PROVE  AuthType'
    BY <1>4, WindowTyped DEF Refused, Passes, Pruned, fileVars, breakerVars, history
  <1>5. ASSUME NEW w \in writers, Write(w)
       PROVE  AuthType'
    BY <1>5 DEF Write, authVars, countVars, breakerVars, history
  <1>6. ASSUME NEW s \in Services, Ends(s)
       PROVE  AuthType'
    BY <1>6 DEF Ends, Finished, Event, authVars, countVars, fileVars
  <1>7. CASE Stop
    BY <1>7 DEF Stop, authVars, countVars, breakerVars, history
  <1>8. CASE Start
    <2>1. LoadedDigests \subseteq Secrets
      BY DEF LoadedDigests, ReadToken, ReadPrevious, Secrets
    <2>2. time + Overlap \in Nat
      BY TimeNumber
    <2> QED
      BY <1>8, <2>1, <2>2, WindowTyped DEF Start, Started
  <1>9. CASE Tick
    BY <1>9 DEF Tick, authVars, countVars, fileVars, breakerVars, history
  <1>10. CASE UNCHANGED vars
    BY <1>10 DEF vars, authVars, countVars, fileVars, breakerVars, history
  <1> QED
    BY <1>1, <1>2, <1>3, <1>4, <1>5, <1>6, <1>7, <1>8, <1>9, <1>10 DEF Next

\* Only a previous token that has lapsed leaves the table.
LEMMA TokensStep ==
  ASSUME IInv, [Next]_vars
  PROVE  TokensSound'
  <1> USE DEF IInv, TypeOK, AuthType, TokensSound, Rotating
  <1>1. ASSUME NEW a \in Addresses, CallTurnedAway(a)
       PROVE  TokensSound'
    BY <1>1 DEF CallTurnedAway, countVars, fileVars, breakerVars, history
  <1>2. ASSUME NEW a \in Addresses, NEW secret \in Secrets,
              CallRejected(a, secret)
       PROVE  TokensSound'
    <2>1. Rotating => ReadPrevious = "previous"
      BY DEF ReadPrevious, ReadToken
    <2> QED
      BY <1>2, <2>1 DEF CallRejected, Lapsed
  <1>3. ASSUME NEW a \in Addresses, NEW secret \in Secrets, NEW s \in Services,
              Admitted(a, secret, s)
       PROVE  TokensSound'
    BY <1>3 DEF Admitted, Passes, Event, countVars
  <1>4. ASSUME NEW a \in Addresses, NEW secret \in Secrets, NEW s \in Services,
              Refused(a, secret, s)
       PROVE  TokensSound'
    BY <1>4 DEF Refused, Passes, fileVars, breakerVars, history
  <1>5. ASSUME NEW w \in writers, Write(w)
       PROVE  TokensSound'
    BY <1>5 DEF Write, authVars, countVars, breakerVars, history
  <1>6. ASSUME NEW s \in Services, Ends(s)
       PROVE  TokensSound'
    BY <1>6 DEF Ends, Finished, Event, authVars, countVars, fileVars
  <1>7. CASE Stop
    BY <1>7 DEF Stop, authVars, countVars, breakerVars, history
  <1>8. CASE Start
    <2>1. Rotating => LoadedDigests = {"current", "previous"}
      BY DEF LoadedDigests, ReadPrevious, ReadToken
    <2> QED
      BY <1>8, <2>1 DEF Start, Started
  <1>9. CASE Tick
    BY <1>9 DEF Tick, authVars, countVars, fileVars, breakerVars, history
  <1>10. CASE UNCHANGED vars
    BY <1>10 DEF vars, authVars, countVars, fileVars, breakerVars, history
  <1> QED
    BY <1>1, <1>2, <1>3, <1>4, <1>5, <1>6, <1>7, <1>8, <1>9, <1>10 DEF Next

\* Usage is counted in numbers of days and months.
LEMMA CountStep ==
  ASSUME IInv, [Next]_vars
  PROVE  CountType'
  <1> USE DEF IInv, TypeOK, CountType
  <1>k. Keys(time) \in [day : Nat, month : Nat]
    <2>1. DayLength \in Nat \ {0} /\ MonthDays \in Nat \ {0} /\ time \in Nat
      BY AccessAssumption, TimeNumber
    <2>2. DayOf(time) \in Nat
      BY <2>1 DEF DayOf
    <2>3. MonthOf(time) \in Nat
      BY <2>1, <2>2 DEF MonthOf
    <2> QED
      BY <2>2, <2>3 DEF Keys
  <1>u. RolledUsage \in [day : Nat, month : Nat]
    BY DEF RolledUsage
  <1>c. Counted(RolledUsage) \in [day : Nat, month : Nat]
    BY <1>u DEF Counted
  <1>1. ASSUME NEW a \in Addresses, CallTurnedAway(a)
       PROVE  CountType'
    BY <1>1 DEF CallTurnedAway, countVars, fileVars, breakerVars, history
  <1>2. ASSUME NEW a \in Addresses, NEW secret \in Secrets,
              CallRejected(a, secret)
       PROVE  CountType'
    BY <1>2 DEF CallRejected, Event, countVars, fileVars, breakerVars
  <1>3. ASSUME NEW a \in Addresses, NEW secret \in Secrets, NEW s \in Services,
              Admitted(a, secret, s)
       PROVE  CountType'
    <2>1. keys' = Keys(time) /\ usage' = Counted(RolledUsage)
      BY <1>3 DEF Admitted, Passes
    <2>2. /\ writers' = writers \cup {[keys |-> Keys(time), usage |-> usage']}
          /\ saved' = saved
      BY <1>3 DEF Admitted
    <2>3. [keys |-> Keys(time), usage |-> usage'] \in Snapshot
      BY <1>k, <1>c, <2>1 DEF Snapshot
    <2>4. recent' \in [Times -> Nat]
      BY <1>3, WindowTyped DEF Admitted
    <2> QED
      BY <1>k, <1>c, <2>1, <2>2, <2>3, <2>4
  <1>4. ASSUME NEW a \in Addresses, NEW secret \in Secrets, NEW s \in Services,
              Refused(a, secret, s)
       PROVE  CountType'
    BY <1>4, <1>k, <1>u, WindowTyped DEF Refused, Passes, fileVars
  <1>5. ASSUME NEW w \in writers, Write(w)
       PROVE  CountType'
    BY <1>5 DEF Write, authVars, countVars, breakerVars, history
  <1>6. ASSUME NEW s \in Services, Ends(s)
       PROVE  CountType'
    BY <1>6 DEF Ends, Finished, Event, authVars, countVars, fileVars
  <1>7. CASE Stop
    BY <1>7 DEF Stop, countVars
  <1>8. CASE Start
    <2>1. saved.usage.day \in Nat /\ saved.usage.month \in Nat
      BY DEF Snapshot
    <2>2. usage' \in [day : Nat, month : Nat]
      BY <1>8, <2>1 DEF Start, Started
    <2> QED
      BY <1>8, <1>k, <2>2, WindowTyped DEF Start, Started, fileVars
  <1>9. CASE Tick
    BY <1>9 DEF Tick, authVars, countVars, fileVars, breakerVars, history
  <1>10. CASE UNCHANGED vars
    BY <1>10 DEF vars, authVars, countVars, fileVars, breakerVars, history
  <1> QED
    BY <1>1, <1>2, <1>3, <1>4, <1>5, <1>6, <1>7, <1>8, <1>9, <1>10 DEF Next

\* The breakers keep their types.
LEMMA BreakerTypeStep ==
  ASSUME IInv, [Next]_vars
  PROVE  BreakerType'
  <1> USE DEF IInv, TypeOK, BreakerType
  <1>1. ASSUME NEW a \in Addresses, CallTurnedAway(a)
       PROVE  BreakerType'
    BY <1>1 DEF CallTurnedAway, countVars, fileVars, breakerVars, history
  <1>2. ASSUME NEW a \in Addresses, NEW secret \in Secrets,
              CallRejected(a, secret)
       PROVE  BreakerType'
    BY <1>2 DEF CallRejected, Event, countVars, fileVars, breakerVars
  <1>3. ASSUME NEW a \in Addresses, NEW secret \in Secrets, NEW s \in Services,
              Admitted(a, secret, s)
       PROVE  BreakerType'
    BY <1>3 DEF Admitted
  <1>4. ASSUME NEW a \in Addresses, NEW secret \in Secrets, NEW s \in Services,
              Refused(a, secret, s)
       PROVE  BreakerType'
    BY <1>4 DEF Refused, Passes, fileVars, breakerVars, history
  <1>5. ASSUME NEW w \in writers, Write(w)
       PROVE  BreakerType'
    BY <1>5 DEF Write, authVars, countVars, breakerVars, history
  <1>6. ASSUME NEW s \in Services, Ends(s)
       PROVE  BreakerType'
    <2>1. running' \in [Services -> Nat]
      <3>1. running[s] - 1 \in Nat
        BY <1>6 DEF Ends, Finished
      <3> QED
        BY <1>6, <3>1 DEF Ends, Finished
    <2>2. CASE /\ Success(s)
               /\ outcomes' = [outcomes EXCEPT ![s] = Append(@, "entitled")]
      <3>1. Append(outcomes[s], "entitled") \in Seq({"entitled", "refused"})
        OBVIOUS
      <3> QED
        BY <2>1, <2>2, <3>1 DEF Success
    <2>3. CASE /\ Failure(s)
               /\ outcomes' = [outcomes EXCEPT ![s] = Append(@, "refused")]
      <3>1. Append(outcomes[s], "refused") \in Seq({"entitled", "refused"})
        OBVIOUS
      <3> QED
        BY <2>1, <2>3, <3>1 DEF Failure
    <2>4. CASE UNCHANGED <<consecutive, open, events, outcomes>>
      BY <2>1, <2>4
    <2> QED
      BY <1>6, <2>2, <2>3, <2>4 DEF Ends
  <1>7. CASE Stop
    BY <1>7 DEF Stop, authVars, countVars, breakerVars, history
  <1>8. CASE Start
    <2>1. <<>> \in Seq({"entitled", "refused"})
      OBVIOUS
    <2> QED
      BY <1>8, <2>1 DEF Start, Started
  <1>9. CASE Tick
    BY <1>9 DEF Tick, authVars, countVars, fileVars, breakerVars, history
  <1>10. CASE UNCHANGED vars
    BY <1>10 DEF vars, authVars, countVars, fileVars, breakerVars, history
  <1> QED
    BY <1>1, <1>2, <1>3, <1>4, <1>5, <1>6, <1>7, <1>8, <1>9, <1>10 DEF Next

\* The clock, the processes and the histories keep their types.
LEMMA LogStep ==
  ASSUME IInv, [Next]_vars
  PROVE  LogType'
  <1> USE DEF IInv, TypeOK, LogType
  <1>1. ASSUME NEW a \in Addresses, CallTurnedAway(a)
       PROVE  LogType'
    BY <1>1 DEF CallTurnedAway, countVars, fileVars, breakerVars, history
  <1>2. ASSUME NEW a \in Addresses, NEW secret \in Secrets,
              CallRejected(a, secret)
       PROVE  LogType'
    <2>1. process' = process /\ time' = time /\ up' = up /\ events' \in Nat
      BY <1>2 DEF CallRejected, Event
    <2>2. rejected' \in [Processes -> [Addresses -> [Times -> Nat]]]
      <3>1. rejected' = [rejected EXCEPT ![process][a][time] = @ + 1]
        BY <1>2 DEF CallRejected
      <3> QED
        BY <1>2, <3>1, CountedTwice
    <2> QED
      BY <1>2, <2>1, <2>2 DEF CallRejected
  <1>3. ASSUME NEW a \in Addresses, NEW secret \in Secrets, NEW s \in Services,
              Admitted(a, secret, s)
       PROVE  LogType'
    <2>1. process' = process /\ time' = time /\ up' = up /\ events' \in Nat
      BY <1>3 DEF Admitted, Event
    <2>2. admitted' \in [Processes -> [Times -> Nat]]
      <3>1. admitted' = [admitted EXCEPT ![process][time] = @ + 1]
        BY <1>3 DEF Admitted
      <3> QED
        BY <3>1, CountedOnce
    <2> QED
      BY <1>3, <2>1, <2>2 DEF Admitted
  <1>4. ASSUME NEW a \in Addresses, NEW secret \in Secrets, NEW s \in Services,
              Refused(a, secret, s)
       PROVE  LogType'
    BY <1>4 DEF Refused, Passes, fileVars, breakerVars, history
  <1>5. ASSUME NEW w \in writers, Write(w)
       PROVE  LogType'
    BY <1>5 DEF Write, authVars, countVars, breakerVars, history
  <1>6. ASSUME NEW s \in Services, Ends(s)
       PROVE  LogType'
    BY <1>6 DEF Ends, Finished, Event, authVars, countVars, fileVars
  <1>7. CASE Stop
    BY <1>7 DEF Stop, authVars, countVars, breakerVars, history
  <1>8. CASE Start
    <2>1. process + 1 \in Processes
      BY <1>8, TimeNumber DEF Start, ProcessSound, Processes
    <2> QED
      BY <1>8, <2>1 DEF Start, Started, fileVars
  <1>9. CASE Tick
    <2>1. time + 1 \in Times
      BY <1>9, TimeNumber DEF Tick, Times
    <2> QED
      BY <1>9, <2>1 DEF Tick, authVars, countVars, fileVars, breakerVars, history
  <1>10. CASE UNCHANGED vars
    BY <1>10 DEF vars, authVars, countVars, fileVars, breakerVars, history
  <1> QED
    BY <1>1, <1>2, <1>3, <1>4, <1>5, <1>6, <1>7, <1>8, <1>9, <1>10 DEF Next

\* An entitled outcome ends the run and a refusal makes it longer by one.
LEMMA BreakerStep ==
  ASSUME IInv, [Next]_vars
  PROVE  BreakerSound'
  <1> USE DEF IInv, TypeOK, BreakerType, BreakerSound
  <1>1. ASSUME NEW a \in Addresses, CallTurnedAway(a)
       PROVE  BreakerSound'
    BY <1>1 DEF CallTurnedAway, CountsRun, breakerVars, history
  <1>2. ASSUME NEW a \in Addresses, NEW secret \in Secrets,
              CallRejected(a, secret)
       PROVE  BreakerSound'
    BY <1>2 DEF CallRejected, CountsRun, breakerVars
  <1>3. ASSUME NEW a \in Addresses, NEW secret \in Secrets, NEW s \in Services,
              Admitted(a, secret, s)
       PROVE  BreakerSound'
    BY <1>3 DEF Admitted, CountsRun
  <1>4. ASSUME NEW a \in Addresses, NEW secret \in Secrets, NEW s \in Services,
              Refused(a, secret, s)
       PROVE  BreakerSound'
    BY <1>4 DEF Refused, CountsRun, breakerVars, history
  <1>5. ASSUME NEW w \in writers, Write(w)
       PROVE  BreakerSound'
    BY <1>5 DEF Write, CountsRun, breakerVars, history
  <1>6. ASSUME NEW s \in Services, Ends(s)
       PROVE  BreakerSound'
    <2>0. outcomes[s] \in Seq({"entitled", "refused"}) /\ CountsRun(s)
      OBVIOUS
    <2>1. CASE /\ Success(s)
               /\ outcomes' = [outcomes EXCEPT ![s] = Append(@, "entitled")]
      <3>0. /\ consecutive'[s] = 0 /\ s \notin open'
            /\ Threshold \in Nat /\ Threshold > 0
            /\ outcomes'[s] = Append(outcomes[s], "entitled")
        BY <2>1, AccessAssumption DEF Success
      <3>3. /\ Len(outcomes'[s]) \in Nat /\ Len(outcomes'[s]) > 0
            /\ outcomes'[s][Len(outcomes'[s])] = "entitled"
        BY <2>0, <3>0, EntitledRun
      <3>1. CountsRun(s)'
        BY <3>0, <3>3 DEF CountsRun
      <3>2. \A r \in Services \ {s} : CountsRun(r)'
        BY <2>1 DEF Success, CountsRun
      <3> QED
        BY <3>1, <3>2
    <2>2. CASE /\ Failure(s)
               /\ outcomes' = [outcomes EXCEPT ![s] = Append(@, "refused")]
      <3>0. /\ consecutive'[s] = consecutive[s] + 1
            /\ outcomes'[s] = Append(outcomes[s], "refused")
            /\ consecutive[s] \in Nat /\ Threshold \in Nat
        BY <2>2, AccessAssumption DEF Failure
      <3>3. s \in open' <=> consecutive'[s] >= Threshold
        <4>1. s \in open => consecutive[s] >= Threshold
          BY <2>0 DEF CountsRun
        <4> QED
          BY <2>2, <3>0, <4>1 DEF Failure
      <3>1. CountsRun(s)'
        BY <2>0, <3>0, <3>3, RefusedRun DEF CountsRun
      <3>2. \A r \in Services \ {s} : CountsRun(r)'
        BY <2>2 DEF Failure, CountsRun
      <3> QED
        BY <3>1, <3>2
    <2>3. CASE UNCHANGED <<consecutive, open, events, outcomes>>
      BY <2>3 DEF CountsRun
    <2> QED
      BY <1>6, <2>1, <2>2, <2>3 DEF Ends
  <1>7. CASE Stop
    BY <1>7 DEF Stop, CountsRun, breakerVars, history
  <1>8. CASE Start
    <2>1. Threshold \in Nat /\ Threshold > 0 /\ Len(<<>>) = 0
      BY AccessAssumption, EmptySeq
    <2>2. ASSUME NEW s \in Services
          PROVE  CountsRun(s)'
      <3>1. consecutive'[s] = 0 /\ s \notin open' /\ outcomes'[s] = <<>>
        BY <1>8 DEF Start, Started
      <3> QED
        BY <2>1, <3>1 DEF CountsRun
    <2> QED
      BY <2>2
  <1>9. CASE Tick
    BY <1>9 DEF Tick, CountsRun, breakerVars, history
  <1>10. CASE UNCHANGED vars
    BY <1>10
    DEF CountsRun, vars, authVars, countVars, fileVars, breakerVars, history
  <1> QED
    BY <1>1, <1>2, <1>3, <1>4, <1>5, <1>6, <1>7, <1>8, <1>9, <1>10 DEF Next

-----------------------------------------------------------------------------
(* No stretch of one window holds more than its limit.                     *)

\* What the windows are about stays typed.
LEMMA WindowsTyped ==
  ASSUME IInv
  PROVE  /\ time \in Times /\ time \in Nat /\ process \in Processes
         /\ recent \in [Times -> Nat] /\ failures \in [Addresses -> [Times -> Nat]]
         /\ admitted \in [Processes -> [Times -> Nat]]
         /\ rejected \in [Processes -> [Addresses -> [Times -> Nat]]]
         /\ \A p \in Processes : admitted[p] \in [Times -> Nat]
         /\ \A p \in Processes, a \in Addresses :
              rejected[p][a] \in [Times -> Nat]
         /\ \A a \in Addresses : failures[a] \in [Times -> Nat]
  BY TimeNumber DEF IInv, TypeOK, AuthType, CountType, LogType

\* What a step may do to the window w of a history h with its limit.
WindowMove(w, v, h, g, limit) ==
  \/ v \in {w, Fresh(w)} /\ g = h
  \/ /\ v = Recorded(Fresh(w)) /\ g = [h EXCEPT ![time] = @ + 1]
     /\ Held(Fresh(w)) < limit

\* Such a step keeps the window.
LEMMA WindowMoved ==
  ASSUME time \in Times, NEW limit \in Nat,
         NEW w \in [Times -> Nat], NEW h \in [Times -> Nat], NEW v, NEW g,
         WindowFor(w, h, limit, time), WindowMove(w, v, h, g, limit)
  PROVE  WindowFor(v, g, limit, time)
  BY WindowPruned, WindowRecorded DEF WindowMove

\* Steps of one process at one time.
SameMoment ==
  /\ UNCHANGED <<time, process>>
  /\ WindowMove(recent, recent', admitted[process], admitted'[process], RateMax)
  /\ \A a \in Addresses :
       WindowMove(failures[a], failures'[a], rejected[process][a],
                  rejected'[process][a], AuthLimit)
  /\ \A p \in Processes \ {process} :
       admitted'[p] = admitted[p] /\ rejected'[p] = rejected[p]

\* Every step that does not start a process or move the clock is one of those.
LEMMA MomentStep ==
  ASSUME IInv, [Next]_vars, ~Start, ~Tick
  PROVE  SameMoment
  <1>0. /\ time \in Times /\ process \in Processes
        /\ recent \in [Times -> Nat] /\ failures \in [Addresses -> [Times -> Nat]]
        /\ admitted \in [Processes -> [Times -> Nat]]
        /\ rejected \in [Processes -> [Addresses -> [Times -> Nat]]]
    BY WindowsTyped
  <1>1. ASSUME NEW a \in Addresses, Pruned(a)
        PROVE  \A b \in Addresses : failures'[b] \in {failures[b], Fresh(failures[b])}
    BY <1>0, <1>1 DEF Pruned
  <1>2. ASSUME NEW a \in Addresses, CallTurnedAway(a)
        PROVE  SameMoment
    BY <1>1, <1>2
    DEF CallTurnedAway, SameMoment, WindowMove, countVars, history
  <1>3. ASSUME NEW a \in Addresses, NEW secret \in Secrets,
               CallRejected(a, secret)
        PROVE  SameMoment
    <2>1. /\ UNCHANGED <<time, process, recent, admitted>>
          /\ failures' = [failures EXCEPT ![a] = Recorded(Fresh(@))]
          /\ rejected' = [rejected EXCEPT ![process][a][time] = @ + 1]
          /\ Held(Fresh(failures[a])) < AuthLimit
      BY <1>3 DEF CallRejected, countVars, GateOpen
    <2>2. /\ rejected'[process]
               = [rejected[process] EXCEPT ![a][time] = @ + 1]
          /\ \A p \in Processes \ {process} : rejected'[p] = rejected[p]
      BY <1>0, <2>1
    <2>3. rejected[process] \in [Addresses -> [Times -> Nat]]
      BY <1>0
    <2>4. /\ rejected'[process][a]
               = [rejected[process][a] EXCEPT ![time] = @ + 1]
          /\ \A b \in Addresses \ {a} :
               rejected'[process][b] = rejected[process][b]
      BY <2>2, <2>3
    <2>5. /\ failures'[a] = Recorded(Fresh(failures[a]))
          /\ \A b \in Addresses \ {a} : failures'[b] = failures[b]
      BY <1>0, <2>1
    <2> QED
      BY <2>1, <2>2, <2>4, <2>5 DEF SameMoment, WindowMove
  <1>4. ASSUME NEW a \in Addresses, NEW secret \in Secrets, NEW s \in Services,
               Admitted(a, secret, s)
        PROVE  SameMoment
    <2>1. /\ UNCHANGED <<time, process, rejected>> /\ Pruned(a)
          /\ recent' = Recorded(Fresh(recent))
          /\ admitted' = [admitted EXCEPT ![process][time] = @ + 1]
          /\ Held(Fresh(recent)) < RateMax
      BY <1>4 DEF Admitted, Passes, Room
    <2>2. /\ admitted'[process] = [admitted[process] EXCEPT ![time] = @ + 1]
          /\ \A p \in Processes \ {process} : admitted'[p] = admitted[p]
      BY <1>0, <2>1
    <2> QED
      BY <1>1, <2>1, <2>2 DEF SameMoment, WindowMove
  <1>5. ASSUME NEW a \in Addresses, NEW secret \in Secrets, NEW s \in Services,
               Refused(a, secret, s)
        PROVE  SameMoment
    <2>1. /\ UNCHANGED <<time, process, admitted, rejected>> /\ Pruned(a)
          /\ recent' \in {recent, Fresh(recent)}
      BY <1>5 DEF Refused, Passes, history
    <2> QED
      BY <1>1, <2>1 DEF SameMoment, WindowMove
  <1>6. ASSUME UNCHANGED <<time, process, recent, failures, admitted, rejected>>
        PROVE  SameMoment
    BY <1>6 DEF SameMoment, WindowMove
  <1>7. ASSUME NEW w \in writers, Write(w)
        PROVE  SameMoment
    BY <1>6, <1>7 DEF Write, authVars, countVars, history
  <1>8. ASSUME NEW s \in Services, Ends(s)
        PROVE  SameMoment
    BY <1>6, <1>8 DEF Ends, authVars, countVars
  <1>9. CASE Stop \/ UNCHANGED vars
    BY <1>6, <1>9 DEF Stop, vars, authVars, countVars, history
  <1> QED
    BY <1>2, <1>3, <1>4, <1>5, <1>7, <1>8, <1>9 DEF Next

\* Every step keeps the windows.
LEMMA WindowsStep ==
  ASSUME IInv, WindowsSound, [Next]_vars
  PROVE  WindowsSound'
  <1>0. /\ time \in Times /\ time \in Nat /\ process \in Processes
        /\ recent \in [Times -> Nat]
        /\ \A p \in Processes : admitted[p] \in [Times -> Nat]
        /\ \A p \in Processes, a \in Addresses :
             rejected[p][a] \in [Times -> Nat]
        /\ \A a \in Addresses : failures[a] \in [Times -> Nat]
    BY WindowsTyped
  <1>1. RateMax \in Nat /\ AuthLimit \in Nat
    BY WindowNumbers
  <1>2. CASE SameMoment
    <2>1. WindowFor(recent', admitted'[process], RateMax, time)
      BY <1>0, <1>1, <1>2, WindowMoved DEF SameMoment, WindowsSound
    <2>2. ASSUME NEW a \in Addresses
          PROVE  WindowFor(failures'[a], rejected'[process][a], AuthLimit, time)
      BY <1>0, <1>1, <1>2, WindowMoved DEF SameMoment, WindowsSound
    <2>3. LaterEmpty'
      <3>1. \A p \in Processes : p > process => p \in Processes \ {process}
        BY TimeNumber DEF IInv
      <3> QED
        BY <1>2, <3>1 DEF SameMoment, WindowsSound, LaterEmpty
    <2>4. WindowsHold'
      <3> SUFFICES ASSUME NEW t \in Times, NEW p \in Processes
                   PROVE  /\ Sum(admitted'[p], t..(t + Window) \cap Times)
                               <= RateMax
                          /\ \A a \in Addresses :
                               Sum(rejected'[p][a], t..(t + Window) \cap Times)
                                 <= AuthLimit
        BY DEF WindowsHold
      <3>1. CASE p = process
        BY <2>1, <2>2, <3>1 DEF WindowFor
      <3>2. CASE p # process
        BY <1>2, <3>2 DEF SameMoment, WindowsSound, WindowsHold
      <3> QED
        BY <3>1, <3>2
    <2>5. time' = time /\ process' = process
      BY <1>2 DEF SameMoment
    <2> QED
      BY <2>1, <2>2, <2>3, <2>4, <2>5 DEF WindowsSound
  <1>3. CASE Start
    <2>1. /\ time' = time /\ process' = process + 1
          /\ recent' = EmptyWindow
          /\ failures' = [a \in Addresses |-> EmptyWindow]
          /\ admitted' = admitted /\ rejected' = rejected
      BY <1>3 DEF Start, Started
    <2>2. process + 1 \in Processes /\ process + 1 > process
      BY <1>3, TimeNumber DEF Start, IInv, ProcessSound, Processes
    <2>3. /\ admitted[process + 1] = EmptyWindow
          /\ \A a \in Addresses : rejected[process + 1][a] = EmptyWindow
      BY <2>2 DEF WindowsSound, LaterEmpty
    <2>4. /\ WindowFor(recent, admitted[process], RateMax, time)'
          /\ \A a \in Addresses :
               WindowFor(failures[a], rejected[process][a], AuthLimit, time)'
      BY <1>0, <1>1, <2>1, <2>3, WindowEmpty
    <2>5. LaterEmpty'
      <3>1. \A p \in Processes : p > process + 1 => p > process
        BY TimeNumber DEF IInv, Processes
      <3> QED
        BY <2>1, <3>1 DEF WindowsSound, LaterEmpty
    <2>6. WindowsHold'
      BY <2>1 DEF WindowsSound, WindowsHold
    <2> QED
      BY <2>4, <2>5, <2>6 DEF WindowsSound
  <1>4. CASE Tick
    <2>1. /\ time' = time + 1
          /\ UNCHANGED <<process, recent, failures, admitted, rejected>>
      BY <1>4 DEF Tick, authVars, countVars, history
    <2>2. WindowFor(recent, admitted[process], RateMax, time)'
      BY <1>0, <2>1, WindowLater DEF WindowsSound
    <2>3. ASSUME NEW a \in Addresses
          PROVE  WindowFor(failures[a], rejected[process][a], AuthLimit, time)'
      BY <1>0, <2>1, WindowLater DEF WindowsSound
    <2>4. LaterEmpty' /\ WindowsHold'
      BY <2>1 DEF WindowsSound, WindowsHold, LaterEmpty, EmptyWindow
    <2> QED
      BY <2>2, <2>3, <2>4 DEF WindowsSound
  <1> QED
    BY <1>2, <1>3, <1>4, MomentStep

-----------------------------------------------------------------------------
(* No count exceeds what was admitted.                                     *)

\* A later day belongs to no earlier month, and a later time to no earlier day.
LEMMA DivMonotonic ==
  ASSUME NEW x \in Nat, NEW y \in Nat, NEW d \in Nat \ {0}, x <= y
  PROVE  x \div d <= y \div d
  <1> DEFINE p == x \div d
             q == y \div d
  <1>1. /\ p \in Nat /\ q \in Nat
        /\ x = d * p + (x % d) /\ x % d \in 0..(d - 1)
        /\ y = d * q + (y % d) /\ y % d \in 0..(d - 1)
    OBVIOUS
  <1>2. SUFFICES ASSUME q + 1 <= p PROVE FALSE
    BY <1>1
  <1>3. d * (q + 1) <= d * p
    <2>1. PICK k \in Nat : p = (q + 1) + k
      <3>1. p - (q + 1) \in Nat /\ p = (q + 1) + (p - (q + 1))
        BY <1>1, <1>2
      <3> QED
        BY <3>1
    <2>2. d * p = d * (q + 1) + d * k /\ d * k \in Nat
      BY <1>1, <2>1
    <2> QED
      BY <1>1, <2>2
  <1>4. d * (q + 1) = d * q + d /\ d * q \in Nat /\ d * p \in Nat
    BY <1>1
  <1> HIDE DEF p, q
  <1> QED
    BY <1>1, <1>3, <1>4

\* The calendar.
LEMMA CalendarFacts ==
  /\ \A t \in Nat : DayOf(t) \in Nat /\ MonthOf(t) \in Nat
  /\ \A t, u \in Nat : t <= u => DayOf(t) <= DayOf(u)
  /\ \A x, y \in Nat : x <= y => x \div MonthDays <= y \div MonthDays
  /\ \A t \in Nat : Calendar(Keys(t))
  <1>1. DayLength \in Nat \ {0} /\ MonthDays \in Nat \ {0}
    BY AccessAssumption
  <1>2. \A t \in Nat : DayOf(t) \in Nat
    BY <1>1 DEF DayOf
  <1>3. \A t \in Nat : MonthOf(t) \in Nat
    BY <1>1, <1>2 DEF MonthOf
  <1>4. \A t, u \in Nat : t <= u => DayOf(t) <= DayOf(u)
    BY <1>1, DivMonotonic DEF DayOf
  <1>5. \A x, y \in Nat : x <= y => x \div MonthDays <= y \div MonthDays
    BY <1>1, DivMonotonic
  <1>6. \A t \in Nat : Calendar(Keys(t))
    BY DEF Calendar, Keys, MonthOf
  <1> QED
    BY <1>2, <1>3, <1>4, <1>5, <1>6

\* The days and months of the budgets.
OfDay(d) == {t \in Times : DayOf(t) = d}
OfMonth(m) == {t \in Times : MonthOf(t) = m}

\* NeverMore as a statement about any history of admissions.
Within(h, k, u) ==
  u.day <= SumOver(h, OfDay(k.day)) /\ u.day <= u.month
    /\ u.month <= SumOver(h, OfMonth(k.month))

\* It is what NeverMore says, before a step and after it.
LEMMA NeverMoreIsWithin ==
  /\ \A k, u : NeverMore(k, u) <=> Within(AdmittedAt, k, u)
  /\ \A d : AdmittedOn(d) = SumOver(AdmittedAt, OfDay(d))
  /\ \A m : AdmittedIn(m) = SumOver(AdmittedAt, OfMonth(m))
  BY SumsAreSums DEF NeverMore, Within, AdmittedOn, AdmittedIn, OfDay, OfMonth
LEMMA NeverMoreNext ==
  /\ NeverMore(keys, usage)' <=> Within(AdmittedAt', keys', usage')
  /\ NeverMore(saved.keys, saved.usage)'
       <=> Within(AdmittedAt', saved'.keys, saved'.usage)
  /\ (\A w \in writers : NeverMore(w.keys, w.usage))'
       <=> \A w \in writers' : Within(AdmittedAt', w.keys, w.usage)
  /\ AdmittedOn(keys.day)' = SumOver(AdmittedAt', OfDay(keys'.day))
  /\ AdmittedIn(keys.month)' = SumOver(AdmittedAt', OfMonth(keys'.month))
  BY SumsAreSums DEF NeverMore, Within, AdmittedOn, AdmittedIn, OfDay, OfMonth

\* What was admitted at each time is a number, and so are the sums.
LEMMA AdmittedTyped ==
  ASSUME IInv
  PROVE  /\ AdmittedAt \in [Times -> Nat]
         /\ \A S \in SUBSET Times : SumOver(AdmittedAt, S) \in Nat
  <1>1. ASSUME NEW t \in Times
        PROVE  Sum([p \in Processes |-> admitted[p][t]], Processes) \in Nat
    <2> DEFINE f == [p \in Processes |-> admitted[p][t]]
    <2>1. \A p \in Processes : f[p] \in Nat
      BY WindowsTyped
    <2>2. IsFiniteSet(Processes) /\ Processes \in SUBSET Processes
      BY WindowNumbers
    <2>3. SumOver(f, Processes) \in Nat
      <3> HIDE DEF f
      <3> QED
        BY <2>1, <2>2, SumSubset
    <2> QED
      BY <2>3, SumsAreSums
  <1>2. AdmittedAt \in [Times -> Nat]
    BY <1>1 DEF AdmittedAt
  <1>3. ASSUME NEW S \in SUBSET Times
        PROVE  SumOver(AdmittedAt, S) \in Nat
    <2>1. \A t \in Times : AdmittedAt[t] \in Nat
      BY <1>2
    <2> QED
      BY <2>1, WindowNumbers, SumSubset
  <1> QED
    BY <1>2, <1>3

\* An admission counts once, now.
LEMMA AdmissionCounts ==
  ASSUME IInv, admitted' = [admitted EXCEPT ![process][time] = @ + 1]
  PROVE  AdmittedAt' = [AdmittedAt EXCEPT ![time] = @ + 1]
  <1>0. /\ time \in Times /\ process \in Processes
        /\ admitted \in [Processes -> [Times -> Nat]]
        /\ \A p \in Processes : admitted[p] \in [Times -> Nat]
        /\ IsFiniteSet(Processes)
    BY WindowsTyped, WindowNumbers
  <1>1. /\ admitted'[process] = [admitted[process] EXCEPT ![time] = @ + 1]
        /\ \A p \in Processes \ {process} : admitted'[p] = admitted[p]
    BY <1>0
  <1> DEFINE f(t) == [p \in Processes |-> admitted[p][t]]
             g(t) == [p \in Processes |-> admitted'[p][t]]
  <1>2. ASSUME NEW t \in Times, t # time
        PROVE  g(t) = f(t)
    BY <1>0, <1>1, <1>2
  <1>3. Sum(g(time), Processes) = Sum(f(time), Processes) + 1
    <2>1. /\ \A p \in Processes : f(time)[p] \in Int /\ g(time)[p] \in Int
          /\ \A p \in Processes \ {process} : g(time)[p] = f(time)[p]
          /\ g(time)[process] = f(time)[process] + 1
      BY <1>0, <1>1
    <2>2. /\ f(time)[process] \in Int
          /\ SumOver(f(time), Processes) \in Int
      <3>1. SumOver(f(time), Processes) \in Int
        <4> HIDE DEF f, g
        <4> QED
          BY <1>0, <2>1, SumInteger
      <3> QED
        BY <1>0, <2>1, <3>1
    <2>3. SumOver(g(time), Processes)
            = SumOver(f(time), Processes) + g(time)[process] - f(time)[process]
      <3> HIDE DEF f, g
      <3> QED
        BY <1>0, <2>1, SumChange
    <2> HIDE DEF f, g
    <2> QED
      BY <2>1, <2>2, <2>3, SumsAreSums
  <1>4. AdmittedAt' = [t \in Times |-> Sum(g(t), Processes)]
    BY DEF AdmittedAt
  <1>5. AdmittedAt = [t \in Times |-> Sum(f(t), Processes)]
    BY DEF AdmittedAt
  <1> HIDE DEF f, g
  <1>6. \A t \in Times : AdmittedAt'[t] = [AdmittedAt EXCEPT ![time] = @ + 1][t]
    BY <1>2, <1>3, <1>4, <1>5
  <1> QED
    BY <1>4, <1>5, <1>6

\* Where nothing is admitted, what was admitted stays.
LEMMA AdmittedSame ==
  ASSUME admitted' = admitted
  PROVE  AdmittedAt' = AdmittedAt
  BY DEF AdmittedAt

\* The sum over times at which nothing was admitted.
LEMMA NothingAdmitted ==
  ASSUME IInv, NEW S \in SUBSET Times, \A t \in S : AdmittedAt[t] = 0
  PROVE  SumOver(AdmittedAt, S) = 0
  <1>1. IsFiniteSet(Times)
    BY WindowNumbers
  <1>2. IsFiniteSet(S) /\ {} \in SUBSET S /\ \A t \in S : AdmittedAt[t] \in Nat
    BY <1>1, FS_Subset
  <1>3. SumOver(AdmittedAt, {}) = SumOver(AdmittedAt, S)
    BY <1>2, SumSubset
  <1> QED
    BY <1>3, SumEmpty

\* Counts within a history are within any larger one.
LEMMA WithinMore ==
  ASSUME NEW h \in [Times -> Nat], NEW g \in [Times -> Nat],
         \A t \in Times : h[t] <= g[t],
         NEW k, NEW u \in [day : Nat, month : Nat], Within(h, k, u)
  PROVE  Within(g, k, u)
  <1>1. ASSUME NEW S \in SUBSET Times
        PROVE  /\ SumOver(h, S) <= SumOver(g, S)
               /\ SumOver(h, S) \in Int /\ SumOver(g, S) \in Int
    <2>1. IsFiniteSet(S) /\ \A t \in S : h[t] \in Int /\ g[t] \in Int
      <3>1. IsFiniteSet(Times)
        BY WindowNumbers
      <3>2. IsFiniteSet(S)
        BY <3>1, FS_Subset
      <3> QED
        BY <3>2
    <2> QED
      BY <2>1, SumMonotonic, SumInteger
  <1>2. OfDay(k.day) \in SUBSET Times /\ OfMonth(k.month) \in SUBSET Times
    BY DEF OfDay, OfMonth
  <1> QED
    BY <1>1, <1>2 DEF Within

\* One more admission is one more on its day and in its month.
LEMMA OneMoreCounted ==
  ASSUME NEW h \in [Times -> Nat], NEW now \in Times
  PROVE  LET g == [h EXCEPT ![now] = @ + 1]
         IN /\ g \in [Times -> Nat] /\ \A t \in Times : h[t] <= g[t]
            /\ SumOver(g, OfDay(DayOf(now))) = SumOver(h, OfDay(DayOf(now))) + 1
            /\ SumOver(g, OfMonth(MonthOf(now)))
                 = SumOver(h, OfMonth(MonthOf(now))) + 1
  <1> DEFINE g == [h EXCEPT ![now] = @ + 1]
  <1>1. /\ g \in [Times -> Nat] /\ \A t \in Times : h[t] <= g[t]
        /\ g[now] = h[now] + 1 /\ \A t \in Times \ {now} : g[t] = h[t]
    BY CountedAt
  <1>2. ASSUME NEW S \in SUBSET Times, now \in S
        PROVE  SumOver(g, S) = SumOver(h, S) + 1
    <2> HIDE DEF g
    <2>1. /\ IsFiniteSet(S) /\ \A t \in S : h[t] \in Int /\ g[t] \in Int
          /\ \A t \in S \ {now} : g[t] = h[t]
      <3>1. IsFiniteSet(Times)
        BY WindowNumbers
      <3>2. IsFiniteSet(S)
        BY <3>1, FS_Subset
      <3> QED
        BY <1>1, <3>2
    <2>2. SumOver(g, S) = SumOver(h, S) + g[now] - h[now]
      BY <1>2, <2>1, SumChange
    <2>3. SumOver(h, S) \in Int
      BY <2>1, SumInteger
    <2> QED
      BY <1>1, <2>2, <2>3
  <1>3. /\ OfDay(DayOf(now)) \in SUBSET Times /\ now \in OfDay(DayOf(now))
        /\ OfMonth(MonthOf(now)) \in SUBSET Times /\ now \in OfMonth(MonthOf(now))
    BY DEF OfDay, OfMonth
  <1> HIDE DEF g
  <1>4. /\ SumOver(g, OfDay(DayOf(now))) = SumOver(h, OfDay(DayOf(now))) + 1
        /\ SumOver(g, OfMonth(MonthOf(now)))
             = SumOver(h, OfMonth(MonthOf(now))) + 1
    BY <1>2, <1>3
  <1> QED
    BY <1>1, <1>4 DEF g

\* Keys, counts and snapshots are typed, and the keys of now are of now.
LEMMA UsageTyped ==
  ASSUME IInv
  PROVE  /\ keys.day \in Nat /\ keys.month \in Nat
         /\ usage \in [day : Nat, month : Nat]
         /\ saved.keys.day \in Nat /\ saved.usage \in [day : Nat, month : Nat]
         /\ \A w \in writers : w.usage \in [day : Nat, month : Nat]
         /\ DayOf(time) \in Nat /\ MonthOf(time) \in Nat
         /\ Keys(time).day = DayOf(time) /\ Keys(time).month = MonthOf(time)
         /\ RolledUsage \in [day : Nat, month : Nat]
  <1>1. /\ keys.day \in Nat /\ keys.month \in Nat
        /\ usage \in [day : Nat, month : Nat]
        /\ saved.keys.day \in Nat /\ saved.usage \in [day : Nat, month : Nat]
        /\ \A w \in writers : w.usage \in [day : Nat, month : Nat]
    BY DEF IInv, TypeOK, CountType, Snapshot
  <1>2. DayOf(time) \in Nat /\ MonthOf(time) \in Nat
    BY WindowsTyped, CalendarFacts
  <1>3. Keys(time).day = DayOf(time) /\ Keys(time).month = MonthOf(time)
    BY DEF Keys
  <1>4. RolledUsage \in [day : Nat, month : Nat]
    BY <1>1 DEF RolledUsage
  <1> QED
    BY <1>1, <1>2, <1>3, <1>4

\* What _roll_period_locked leaves is within what was admitted in the period of
\* now, and in the first process it is all of it.
LEMMA RolledWithin ==
  ASSUME IInv, UsageSound
  PROVE  /\ Within(AdmittedAt, Keys(time), RolledUsage)
         /\ process = 1 =>
              /\ RolledUsage.day = SumOver(AdmittedAt, OfDay(DayOf(time)))
              /\ RolledUsage.month = SumOver(AdmittedAt, OfMonth(MonthOf(time)))
  <1>0. /\ keys.day \in Nat /\ keys.month \in Nat
        /\ usage \in [day : Nat, month : Nat]
        /\ DayOf(time) \in Nat /\ MonthOf(time) \in Nat
        /\ Keys(time).day = DayOf(time) /\ Keys(time).month = MonthOf(time)
    BY UsageTyped
  <1>1. /\ \A d : SumOver(AdmittedAt, OfDay(d)) \in Nat
        /\ \A m : SumOver(AdmittedAt, OfMonth(m)) \in Nat
    BY AdmittedTyped DEF OfDay, OfMonth
  <1>2. Within(AdmittedAt, keys, usage)
    BY NeverMoreIsWithin DEF UsageSound, UsageNeverInvented
  <1>3. keys.day = DayOf(time) => keys.month = MonthOf(time)
    BY DEF UsageSound, Calendar, MonthOf
  <1>4. keys.day <= DayOf(time) /\ keys.month <= MonthOf(time)
    BY <1>0, CalendarFacts DEF UsageSound, Calendar, MonthOf
  <1>5. Within(AdmittedAt, Keys(time), RolledUsage)
    <2>1. RolledUsage.day = IF keys.day = DayOf(time) THEN usage.day ELSE 0
      BY DEF RolledUsage
    <2>2. RolledUsage.month = IF keys.month = MonthOf(time) THEN usage.month ELSE 0
      BY DEF RolledUsage
    <2> QED
      BY <1>0, <1>1, <1>2, <1>3, <2>1, <2>2 DEF Within
  <1>6. ASSUME process = 1
        PROVE  RolledUsage.day = SumOver(AdmittedAt, OfDay(DayOf(time)))
    <2>1. CASE keys.day = DayOf(time)
      BY <1>6, <2>1, NeverMoreIsWithin
      DEF RolledUsage, UsageSound, UsageNeverInvented
    <2>2. CASE keys.day # DayOf(time)
      <3>1. \A t \in OfDay(DayOf(time)) : AdmittedAt[t] = 0
        BY <1>0, <1>4, <1>6, <2>2 DEF UsageSound, OfDay
      <3>2. SumOver(AdmittedAt, OfDay(DayOf(time))) = 0
        BY <3>1, NothingAdmitted DEF OfDay
      <3> QED
        BY <2>2, <3>2 DEF RolledUsage
    <2> QED
      BY <2>1, <2>2
  <1>7. ASSUME process = 1
        PROVE  RolledUsage.month = SumOver(AdmittedAt, OfMonth(MonthOf(time)))
    <2>1. CASE keys.month = MonthOf(time)
      BY <1>7, <2>1, NeverMoreIsWithin
      DEF RolledUsage, UsageSound, UsageNeverInvented
    <2>2. CASE keys.month # MonthOf(time)
      <3>1. ASSUME NEW t \in OfMonth(MonthOf(time)), AdmittedAt[t] # 0
            PROVE  FALSE
        <4>1. t \in Times /\ t \in Nat /\ MonthOf(t) = MonthOf(time)
              /\ DayOf(t) \in Nat
          BY WindowNumbers, CalendarFacts DEF OfMonth
        <4>2. DayOf(t) <= keys.day
          BY <1>7, <3>1, <4>1 DEF UsageSound
        <4>3. MonthOf(t) <= keys.month
          BY <1>0, <4>1, <4>2, CalendarFacts DEF UsageSound, Calendar, MonthOf
        <4> QED
          BY <1>0, <1>4, <2>2, <4>1, <4>3
      <3>2. SumOver(AdmittedAt, OfMonth(MonthOf(time))) = 0
        BY <3>1, NothingAdmitted DEF OfMonth
      <3> QED
        BY <2>2, <3>2 DEF RolledUsage
    <2> QED
      BY <2>1, <2>2
  <1> QED
    BY <1>5, <1>6, <1>7

\* Time that passes, snapshots that are written or lost, and everything that
\* has nothing to do with usage.
UsageForgets ==
  /\ UNCHANGED <<process, keys, usage, admitted>>
  /\ time' \in {time, time + 1}
  /\ writers' \subseteq writers /\ saved' \in {saved} \cup writers

\* None of it touches the counts.
LEMMA UsageForgotten ==
  ASSUME IInv, UsageSound, UsageForgets
  PROVE  UsageSound'
  <1>1. /\ AdmittedAt' = AdmittedAt
        /\ keys' = keys /\ usage' = usage /\ process' = process
        /\ writers' \subseteq writers /\ saved' \in {saved} \cup writers
    BY AdmittedSame DEF UsageForgets
  <1>2. UsageNeverInvented'
    <2>1. /\ Within(AdmittedAt, keys, usage)
          /\ Within(AdmittedAt, saved.keys, saved.usage)
          /\ \A w \in writers : Within(AdmittedAt, w.keys, w.usage)
          /\ process = 1 =>
               /\ usage.day = SumOver(AdmittedAt, OfDay(keys.day))
               /\ usage.month = SumOver(AdmittedAt, OfMonth(keys.month))
      BY NeverMoreIsWithin DEF UsageSound, UsageNeverInvented
    <2> QED
      BY <1>1, <2>1, NeverMoreNext DEF UsageNeverInvented
  <1>3. (Calendar(keys) /\ Calendar(saved.keys)
           /\ \A w \in writers : Calendar(w.keys))'
    BY <1>1 DEF UsageSound, Calendar
  <1>4. time \in Nat /\ time' \in Nat /\ time <= time'
        /\ \A t \in Times : t \in Nat
    BY WindowsTyped, WindowNumbers DEF UsageForgets
  <1>5. (keys.day <= DayOf(time))'
    <2>1. DayOf(time) <= DayOf(time') /\ DayOf(time) \in Nat /\ DayOf(time') \in Nat
      BY <1>4, CalendarFacts
    <2>2. keys.day \in Nat /\ keys.day <= DayOf(time)
      BY UsageTyped DEF UsageSound
    <2>3. keys'.day <= DayOf(time')
      BY <1>1, <2>1, <2>2
    <2> QED
      BY <2>3 DEF DayOf
  <1>6. (\A t \in Times : AdmittedAt[t] # 0 => t <= time)'
    BY <1>1, <1>4 DEF UsageSound
  <1>7. (process = 1 => \A t \in Times :
                          AdmittedAt[t] # 0 => DayOf(t) <= keys.day)'
    BY <1>1 DEF UsageSound
  <1> QED
    BY <1>2, <1>3, <1>5, <1>6, <1>7 DEF UsageSound

\* A call that gets as far as the budgets rolls the period to that of now; it
\* is counted, with a snapshot for a thread, or not.
LEMMA UsageRolled ==
  ASSUME IInv, UsageSound, UNCHANGED <<time, process, saved>>,
         keys' = Keys(time),
         \/ /\ usage' = RolledUsage
            /\ UNCHANGED <<writers, admitted>>
         \/ /\ usage' = Counted(RolledUsage)
            /\ writers' = writers \cup {[keys |-> Keys(time), usage |-> usage']}
            /\ admitted' = [admitted EXCEPT ![process][time] = @ + 1]
  PROVE  UsageSound'
  <1> DEFINE now == Keys(time)
             day(h) == SumOver(h, OfDay(DayOf(time)))
             month(h) == SumOver(h, OfMonth(MonthOf(time)))
  <1>1. /\ time \in Times /\ time \in Nat
        /\ AdmittedAt \in [Times -> Nat]
        /\ RolledUsage \in [day : Nat, month : Nat]
        /\ saved.usage \in [day : Nat, month : Nat]
        /\ \A w \in writers : w.usage \in [day : Nat, month : Nat]
        /\ now.day = DayOf(time) /\ now.month = MonthOf(time)
        /\ DayOf(time) \in Nat
    BY WindowsTyped, AdmittedTyped, UsageTyped
  <1>2. /\ Within(AdmittedAt, now, RolledUsage)
        /\ process = 1 => RolledUsage.day = day(AdmittedAt)
                          /\ RolledUsage.month = month(AdmittedAt)
    BY RolledWithin
  <1>3. /\ Within(AdmittedAt, saved.keys, saved.usage)
        /\ \A w \in writers : Within(AdmittedAt, w.keys, w.usage)
    BY NeverMoreIsWithin DEF UsageSound, UsageNeverInvented
  <1>4. /\ AdmittedAt' \in [Times -> Nat]
        /\ \A t \in Times : AdmittedAt[t] <= AdmittedAt'[t]
        /\ \A t \in Times : AdmittedAt'[t] = AdmittedAt[t] \/ t = time
        /\ Within(AdmittedAt', now, usage')
        /\ process = 1 => usage'.day = day(AdmittedAt')
                          /\ usage'.month = month(AdmittedAt')
    <2>1. CASE usage' = RolledUsage /\ admitted' = admitted
      <3>1. AdmittedAt' = AdmittedAt
        BY <2>1, AdmittedSame
      <3> QED
        BY <1>1, <1>2, <2>1, <3>1
    <2>2. CASE /\ usage' = Counted(RolledUsage)
               /\ admitted' = [admitted EXCEPT ![process][time] = @ + 1]
      <3> DEFINE g == [AdmittedAt EXCEPT ![time] = @ + 1]
      <3>1. AdmittedAt' = g
        BY <2>2, AdmissionCounts
      <3>2. /\ g \in [Times -> Nat] /\ \A t \in Times : AdmittedAt[t] <= g[t]
            /\ day(g) = day(AdmittedAt) + 1
            /\ month(g) = month(AdmittedAt) + 1
        BY <1>1, OneMoreCounted
      <3>3. /\ usage'.day = RolledUsage.day + 1
            /\ usage'.month = RolledUsage.month + 1
        BY <2>2 DEF Counted
      <3>4. day(AdmittedAt) \in Nat /\ month(AdmittedAt) \in Nat
        BY AdmittedTyped DEF OfDay, OfMonth
      <3>5. /\ RolledUsage.day <= day(AdmittedAt)
            /\ RolledUsage.day <= RolledUsage.month
            /\ RolledUsage.month <= month(AdmittedAt)
        BY <1>1, <1>2 DEF Within
      <3>6. Within(g, now, usage')
        <4> HIDE DEF g
        <4>1. usage'.day <= day(g) /\ usage'.day <= usage'.month
              /\ usage'.month <= month(g)
          BY <1>1, <3>2, <3>3, <3>4, <3>5
        <4> QED
          BY <1>1, <4>1 DEF Within
      <3>7. \A t \in Times : g[t] = AdmittedAt[t] \/ t = time
        BY <1>1
      <3> HIDE DEF g
      <3> QED
        BY <1>2, <3>1, <3>2, <3>3, <3>6, <3>7
    <2> QED
      BY <2>1, <2>2
  <1>5. UsageNeverInvented'
    <2>1. Within(AdmittedAt', saved'.keys, saved'.usage)
      BY <1>1, <1>3, <1>4, WithinMore
    <2>2. ASSUME NEW w \in writers'
          PROVE  Within(AdmittedAt', w.keys, w.usage)
      <3>1. CASE w \in writers
        BY <1>1, <1>3, <1>4, <3>1, WithinMore
      <3>2. CASE w \notin writers
        <4>1. w.keys = now /\ w.usage = usage'
          BY <3>2
        <4> QED
          BY <1>4, <4>1
      <3> QED
        BY <3>1, <3>2
    <2> HIDE DEF now
    <2>3. keys' = now
      BY DEF now
    <2>4. /\ NeverMore(keys, usage)' /\ NeverMore(saved.keys, saved.usage)'
          /\ (\A w \in writers : NeverMore(w.keys, w.usage))'
      BY <1>4, <2>1, <2>2, <2>3, NeverMoreNext
    <2>5. (process = 1 => /\ usage.day = AdmittedOn(keys.day)
                          /\ usage.month = AdmittedIn(keys.month))'
      BY <1>1, <1>4, <2>3, NeverMoreNext
    <2> QED
      BY <2>4, <2>5 DEF UsageNeverInvented
  <1>6. (Calendar(keys) /\ Calendar(saved.keys)
           /\ \A w \in writers : Calendar(w.keys))'
    <2>1. Calendar(now)
      BY <1>1, CalendarFacts
    <2> QED
      BY <2>1 DEF UsageSound, Calendar
  <1>7. (keys.day <= DayOf(time))'
    <2>1. keys'.day <= DayOf(time')
      BY <1>1
    <2> QED
      BY <2>1 DEF DayOf
  <1>8. (\A t \in Times : AdmittedAt[t] # 0 => t <= time)'
    BY <1>1, <1>4 DEF UsageSound
  <1>9. (process = 1 => \A t \in Times :
                          AdmittedAt[t] # 0 => DayOf(t) <= keys.day)'
    <2>1. ASSUME NEW t \in Times, AdmittedAt'[t] # 0
          PROVE  DayOf(t) <= DayOf(time)
      <3>1. t <= time
        BY <1>1, <1>4, <2>1 DEF UsageSound
      <3> QED
        BY <1>1, <3>1, WindowNumbers, CalendarFacts
    <2>2. keys'.day = DayOf(time)
      BY <1>1
    <2> QED
      BY <2>1, <2>2
  <1> QED
    BY <1>5, <1>6, <1>7, <1>8, <1>9 DEF UsageSound

\* A new process takes from the file what is of its day and of its month.
LEMMA UsageLoaded ==
  ASSUME IInv, UsageSound, Start
  PROVE  UsageSound'
  <1> DEFINE now == Keys(time)
  <1>1. /\ AdmittedAt' = AdmittedAt /\ keys' = now /\ time' = time
        /\ writers' = writers /\ saved' = saved /\ process' = process + 1
    BY AdmittedSame DEF Start, Started, fileVars
  <1>2. process' # 1
    BY <1>1, TimeNumber DEF IInv
  <1>3. /\ now.day = DayOf(time) /\ now.month = MonthOf(time)
        /\ DayOf(time) \in Nat /\ time \in Nat
        /\ saved.usage \in [day : Nat, month : Nat]
    BY UsageTyped, WindowsTyped
  <1>4. Within(AdmittedAt, saved.keys, saved.usage)
    BY NeverMoreIsWithin DEF UsageSound, UsageNeverInvented
  <1>5. saved.keys.day = DayOf(time) => saved.keys.month = MonthOf(time)
    BY DEF UsageSound, Calendar, MonthOf
  <1>6. Within(AdmittedAt, now, usage')
    <2>1. /\ usage'.day = IF saved.keys.day = DayOf(time)
                          THEN saved.usage.day ELSE 0
          /\ usage'.month = IF saved.keys.month = MonthOf(time)
                            THEN saved.usage.month ELSE 0
      BY DEF Start, Started
    <2>2. /\ \A d : SumOver(AdmittedAt, OfDay(d)) \in Nat
          /\ \A m : SumOver(AdmittedAt, OfMonth(m)) \in Nat
      BY AdmittedTyped DEF OfDay, OfMonth
    <2> HIDE DEF now
    <2> QED
      BY <1>3, <1>4, <1>5, <2>1, <2>2 DEF Within
  <1>7. UsageNeverInvented'
    <2>1. \A w \in writers : Within(AdmittedAt, w.keys, w.usage)
      BY NeverMoreIsWithin DEF UsageSound, UsageNeverInvented
    <2> HIDE DEF now
    <2> QED
      BY <1>1, <1>2, <1>4, <1>6, <2>1, NeverMoreNext DEF UsageNeverInvented
  <1>8. Calendar(now)
    BY <1>3, CalendarFacts
  <1>9. (Calendar(keys) /\ Calendar(saved.keys)
           /\ \A w \in writers : Calendar(w.keys))'
    BY <1>1, <1>8 DEF UsageSound, Calendar
  <1>10. (keys.day <= DayOf(time))'
    <2>1. keys'.day <= DayOf(time')
      BY <1>1, <1>3
    <2> QED
      BY <2>1 DEF DayOf
  <1>11. (\A t \in Times : AdmittedAt[t] # 0 => t <= time)'
    BY <1>1 DEF UsageSound
  <1> QED
    BY <1>2, <1>7, <1>9, <1>10, <1>11 DEF UsageSound

\* Every step keeps the usage.
LEMMA UsageStep ==
  ASSUME IInv, UsageSound, [Next]_vars
  PROVE  UsageSound'
  <1>1. ASSUME NEW a \in Addresses, CallTurnedAway(a)
        PROVE  UsageForgets
    BY <1>1 DEF CallTurnedAway, UsageForgets, countVars, fileVars, history
  <1>2. ASSUME NEW a \in Addresses, NEW secret \in Secrets,
               CallRejected(a, secret)
        PROVE  UsageForgets
    BY <1>2 DEF CallRejected, UsageForgets, countVars, fileVars
  <1>3. ASSUME NEW a \in Addresses, NEW secret \in Secrets, NEW s \in Services,
               Admitted(a, secret, s) \/ Refused(a, secret, s)
        PROVE  UsageSound'
    <2>1. CASE Admitted(a, secret, s)
      BY <2>1, UsageRolled DEF Admitted, Passes
    <2>2. CASE Refused(a, secret, s)
      BY <2>2, UsageRolled DEF Refused, Passes, fileVars, history
    <2> QED
      BY <1>3, <2>1, <2>2
  <1>4. ASSUME NEW w \in writers, Write(w)
        PROVE  UsageForgets
    BY <1>4 DEF Write, UsageForgets, countVars, history
  <1>5. ASSUME NEW s \in Services, Ends(s)
        PROVE  UsageForgets
    BY <1>5 DEF Ends, UsageForgets, countVars, fileVars
  <1>6. CASE Stop
    BY <1>6, UsageForgotten DEF Stop, UsageForgets, countVars, history
  <1>7. CASE Tick \/ UNCHANGED vars
    BY <1>7, UsageForgotten DEF Tick, vars, UsageForgets, countVars, fileVars, history
  <1> QED
    BY <1>1, <1>2, <1>3, <1>4, <1>5, <1>6, <1>7, UsageForgotten, UsageLoaded
    DEF Next

-----------------------------------------------------------------------------
(* The theorems.                                                           *)

\* A new gateway has its tokens, an empty day and closed breakers.
LEMMA InitIInv == Init => IInv
  <1> SUFFICES ASSUME Init PROVE IInv
    OBVIOUS
  <1>1. AuthType
    <2>1. LoadedDigests \subseteq Secrets
      BY DEF LoadedDigests, ReadToken, ReadPrevious, Secrets
    <2>2. Overlap \in Nat
      BY AccessAssumption DEF AccessAssumption
    <2> QED
      BY <2>1, <2>2, WindowTyped DEF Init, AuthType
  <1>2. CountType
    <2>1. DayLength \in Nat \ {0} /\ MonthDays \in Nat \ {0}
      BY AccessAssumption DEF AccessAssumption
    <2>2. DayOf(0) \in Nat
      BY <2>1 DEF DayOf
    <2>3. MonthOf(0) \in Nat
      BY <2>1, <2>2 DEF MonthOf
    <2>4. Keys(0) \in [day : Nat, month : Nat]
      BY <2>2, <2>3 DEF Keys
    <2>5. None \in [day : Nat, month : Nat]
      BY DEF None
    <2> QED
      BY <2>4, <2>5, WindowTyped DEF Init, CountType, Snapshot
  <1>3. BreakerType
    BY DEF Init, BreakerType
  <1>4. LogType
    <2>1. 0 \in Times /\ 1 \in Processes
      BY AccessAssumption DEF Times, Processes
    <2> QED
      BY <2>1 DEF Init, LogType
  <1>5. TokensSound
    BY DEF Init, TokensSound, Rotating, LoadedDigests, ReadPrevious, ReadToken
  <1>6. BreakerSound
    <2>1. Threshold > 0 /\ Len(<<>>) = 0 /\ Threshold \in Nat
      BY AccessAssumption, EmptySeq DEF AccessAssumption
    <2>2. ASSUME NEW s \in Services
          PROVE  CountsRun(s)
      <3>1. consecutive[s] = 0 /\ s \notin open /\ outcomes[s] = <<>>
        BY DEF Init
      <3> QED
        BY <2>1, <3>1 DEF CountsRun
    <2> QED
      BY <2>2 DEF BreakerSound
  <1> QED
    BY <1>1, <1>2, <1>3, <1>4, <1>5, <1>6 DEF Init, IInv, TypeOK, ProcessSound

\* Every step keeps every part of the invariant.
LEMMA StepIInv == IInv /\ [Next]_vars => IInv'
  <1> SUFFICES ASSUME IInv, [Next]_vars PROVE IInv'
    OBVIOUS
  <1>1. TypeOK'
    BY AuthStep, CountStep, BreakerTypeStep, LogStep DEF TypeOK
  <1> QED
    BY <1>1, ProcessStep, TokensStep, BreakerStep DEF IInv

\* The invariant holds in every state that the gateway can reach.
THEOREM IInvHolds == Spec => []IInv
  BY InitIInv, StepIInv, PTL DEF Spec

\* Type correctness of the tables, counts, snapshots and breakers.
THEOREM AccessTyped == Spec => []TypeOK
  <1>1. IInv => TypeOK
    BY DEF IInv
  <1> QED
    BY <1>1, IInvHolds, PTL

\* Where the gateway can tell the two tokens apart, the current one always
\* verifies, the previous one until its overlap ends, and no other ever.
THEOREM RotationHolds == Spec => [](Rotating => TokensRotate)
  <1>1. IInv => (Rotating => TokensRotate)
    <2> SUFFICES ASSUME IInv, Rotating PROVE TokensRotate
      OBVIOUS
    <2>1. ReadPrevious = "previous"
      BY DEF Rotating, ReadPrevious, ReadToken
    <2>2. time \in Nat /\ lapses \in Nat
      BY TimeNumber DEF IInv, TypeOK, AuthType
    <2> QED
      BY <2>1, <2>2 DEF IInv, TokensSound, TokensRotate, Verifies, Lapsed
  <1> QED
    BY <1>1, IInvHolds, PTL

\* The run that a breaker counts is what it promises to follow.
LEMMA RunDecides ==
  ASSUME IInv, NEW s \in Services
  PROVE  LET n == Len(outcomes[s])
         IN s \in open <=>
              /\ n >= Threshold
              /\ \A i \in (n - Threshold + 1)..n : outcomes[s][i] = "refused"
  <1> DEFINE n == Len(outcomes[s])
             k == consecutive[s]
  <1>1. /\ n \in Nat /\ k \in Nat /\ Threshold \in Nat \ {0}
        /\ CountsRun(s)
    BY AccessAssumption
    DEF AccessAssumption, IInv, TypeOK, BreakerType, BreakerSound
  <1>2. ASSUME s \in open
        PROVE  /\ n >= Threshold
               /\ \A i \in (n - Threshold + 1)..n : outcomes[s][i] = "refused"
    <2>1. k >= Threshold /\ k <= n
      BY <1>1, <1>2 DEF CountsRun
    <2>2. \A i \in (n - Threshold + 1)..n : i \in 1..n /\ i > n - k
      BY <1>1, <2>1
    <2> QED
      BY <1>1, <2>1, <2>2 DEF CountsRun
  <1>3. ASSUME n >= Threshold,
               \A i \in (n - Threshold + 1)..n : outcomes[s][i] = "refused"
        PROVE  s \in open
    <2>1. SUFFICES ASSUME k < Threshold PROVE FALSE
      BY <1>1 DEF CountsRun
    <2>2. k < n /\ n - k \in (n - Threshold + 1)..n
      BY <1>1, <1>3, <2>1
    <2>3. outcomes[s][n - k] = "entitled"
      BY <1>1, <2>2 DEF CountsRun
    <2>4. outcomes[s][n - k] = "refused"
      BY <1>3, <2>2
    <2> QED
      BY <2>3, <2>4
  <1> QED
    BY <1>2, <1>3

\* A breaker is open exactly while the last Threshold outcomes of its service
\* were refusals, for every threshold, every number of services and every order
\* in which requests end.
THEOREM BreakersFollowOutcomes == Spec => []BreakerFollowsOutcomes
  <1>1. IInv => BreakerFollowsOutcomes
    BY RunDecides DEF BreakerFollowsOutcomes
  <1> QED
    BY <1>1, IInvHolds, PTL

\* In no stretch of one window does a process admit more requests, or compare
\* more tokens of an address in vain, than its limit: for every window, every
\* limit and every number of calls.
THEOREM WindowsAreKept == Spec => []WindowsHold
  <1>1. Init => WindowsSound
    <2> SUFFICES ASSUME Init PROVE WindowsSound
      OBVIOUS
    <2>1. /\ 1 \in Processes /\ RateMax \in Nat /\ AuthLimit \in Nat /\ 0 \in Nat
      BY AccessAssumption DEF Processes
    <2>2. /\ \A p \in Processes : admitted[p] = EmptyWindow
          /\ \A p \in Processes, a \in Addresses : rejected[p][a] = EmptyWindow
      BY DEF Init, EmptyWindow
    <2>3. /\ WindowFor(EmptyWindow, EmptyWindow, RateMax, 0)
          /\ WindowFor(EmptyWindow, EmptyWindow, AuthLimit, 0)
      BY <2>1, WindowEmpty
    <2>4. WindowsHold
      BY <2>2, <2>3 DEF WindowsHold, WindowFor
    <2> QED
      BY <2>1, <2>2, <2>3, <2>4 DEF Init, WindowsSound, LaterEmpty
  <1>2. IInv /\ WindowsSound /\ [Next]_vars => WindowsSound'
    BY WindowsStep
  <1>3. WindowsSound => WindowsHold
    BY DEF WindowsSound
  <1> QED
    BY <1>1, <1>2, <1>3, IInvHolds, PTL DEF Spec

\* No count, in memory, in a thread or on disk, exceeds what was admitted on its
\* day and in its month: for every calendar, every order in which threads write
\* and every number of processes; the first process forgets nothing.
THEOREM UsageIsNeverInvented == Spec => []UsageNeverInvented
  <1>1. Init => UsageSound
    <2> SUFFICES ASSUME Init PROVE UsageSound
      OBVIOUS
    <2>0. IInv
      BY InitIInv
    <2>1. \A t \in Times : AdmittedAt[t] = 0
      <3> SUFFICES ASSUME NEW t \in Times
                   PROVE  Sum([p \in Processes |-> admitted[p][t]], Processes) = 0
        BY DEF AdmittedAt
      <3> DEFINE f == [p \in Processes |-> admitted[p][t]]
      <3>1. \A p \in Processes : f[p] \in Nat /\ f[p] = 0
        BY DEF Init
      <3>2. IsFiniteSet(Processes) /\ {} \in SUBSET Processes
        BY WindowNumbers
      <3>3. SumOver(f, {}) = SumOver(f, Processes)
        <4> HIDE DEF f
        <4> QED
          BY <3>1, <3>2, SumSubset
      <3> QED
        BY <3>3, SumEmpty, SumsAreSums
    <2>2. \A S \in SUBSET Times : SumOver(AdmittedAt, S) = 0
      BY <2>0, <2>1, NothingAdmitted
    <2>3. /\ \A d : SumOver(AdmittedAt, OfDay(d)) = 0
          /\ \A m : SumOver(AdmittedAt, OfMonth(m)) = 0
      BY <2>2 DEF OfDay, OfMonth
    <2>4. UsageNeverInvented
      BY <2>3, NeverMoreIsWithin DEF Init, UsageNeverInvented, Within, None
    <2>5. Calendar(Keys(0)) /\ Keys(0).day = DayOf(0) /\ DayOf(0) \in Nat
      BY CalendarFacts DEF Keys
    <2> QED
      BY <2>1, <2>4, <2>5 DEF Init, UsageSound
  <1>2. IInv /\ UsageSound /\ [Next]_vars => UsageSound'
    BY UsageStep
  <1>3. UsageSound => UsageNeverInvented
    BY DEF UsageSound
  <1> QED
    BY <1>1, <1>2, <1>3, IInvHolds, PTL DEF Spec
=============================================================================

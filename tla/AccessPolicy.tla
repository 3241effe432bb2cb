---------------------------- MODULE AccessPolicy ----------------------------
(***************************************************************************)
(* The decisions of the gateway that keep no state: what PolicyEngine      *)
(* allows a principal to discover and to execute under a policy file, and  *)
(* what a request is estimated to cost before it may leave.                *)
(***************************************************************************)
EXTENDS Naturals

CONSTANTS
  Services,        (* services that a policy may configure                 *)
  Operations,      (* operation names                                      *)
  Authorization,   (* those that an authorization marker matches           *)
  Provider,        (* those that a provider marker matches                 *)
  Scopes,          (* scopes that a policy may require                     *)
  Wildcard,        (* the wildcard entry "*" of a service                  *)
  NoScope,         (* required_scope is absent                             *)
  Policies         (* the policy files looked at                           *)

ASSUME NameAssumption ==
  /\ Wildcard \notin Operations /\ NoScope \notin Scopes
  /\ Authorization \subseteq Operations /\ Provider \subseteq Operations

-----------------------------------------------------------------------------
(* policy files *)

OperationPolicy ==
  [discover : BOOLEAN, execute : BOOLEAN, scope : Scopes \cup {NoScope}]

\* A service policy: its operations are a function on the names it lists.
IsService(sp) ==
  /\ {sp.open, sp.discover, sp.subscriptions} \subseteq BOOLEAN
  /\ DOMAIN sp.operations \subseteq Operations \cup {Wildcard}
  /\ \A o \in DOMAIN sp.operations : sp.operations[o] \in OperationPolicy

\* A policy file; denied holds the deny_ switches of its defaults that are on.
Switches == {"services", "operations", "authorization", "provider"}
IsPolicy(c) ==
  /\ c.denied \subseteq Switches
  /\ DOMAIN c.services \subseteq Services
  /\ \A s \in DOMAIN c.services : IsService(c.services[s])

ASSUME PolicyAssumption == \A c \in Policies : IsPolicy(c)

Principal == [scopes : SUBSET Scopes, admin : BOOLEAN]
HasScope(p, scope) == p.admin \/ scope \in p.scopes

\* OperationPolicy() and ServicePolicy().
NoOperation == [discover |-> FALSE, execute |-> FALSE, scope |-> NoScope]
NoService == [open |-> FALSE, discover |-> FALSE, subscriptions |-> FALSE,
              operations |-> [n \in {} |-> NoOperation]]

-----------------------------------------------------------------------------
(* PolicyEngine: a verdict is "OK" or the code of the error raised *)

ServiceVerdict(c, s) ==
  IF s \notin DOMAIN c.services /\ "services" \in c.denied
  THEN "INVALID_SERVICE" ELSE "OK"
ServiceOf(c, s) ==
  IF s \in DOMAIN c.services THEN c.services[s] ELSE NoService

OpenVerdict(c, s) ==
  IF ServiceVerdict(c, s) = "OK" /\ ~ServiceOf(c, s).open
  THEN "INVALID_SERVICE" ELSE ServiceVerdict(c, s)

\* SCOPE_DISCOVER and SCOPE_SUBSCRIBE are held apart from Scopes.
DiscoveryVerdict(c, s, mayDiscover) ==
  IF ~mayDiscover THEN "AUTH_FORBIDDEN"
  ELSE IF ServiceVerdict(c, s) # "OK" THEN ServiceVerdict(c, s)
  ELSE IF ServiceOf(c, s).discover THEN "OK" ELSE "AUTH_FORBIDDEN"

SubscriptionVerdict(c, s, maySubscribe) ==
  IF ~maySubscribe THEN "AUTH_FORBIDDEN"
  ELSE IF ServiceVerdict(c, s) # "OK" THEN ServiceVerdict(c, s)
  ELSE IF ServiceOf(c, s).subscriptions THEN "OK" ELSE "AUTH_FORBIDDEN"

\* is_forbidden_operation_family
Forbidden(c, o) ==
  \/ "authorization" \in c.denied /\ o \in Authorization
  \/ "provider" \in c.denied /\ o \in Provider

\* The exact entry, or else the wildcard.
Listed(c, s, o) ==
  {o, Wildcard} \cap DOMAIN ServiceOf(c, s).operations # {}
Entry(c, s, o) ==
  LET entries == ServiceOf(c, s).operations
  IN IF o \in DOMAIN entries THEN entries[o]
     ELSE IF Wildcard \in DOMAIN entries THEN entries[Wildcard] ELSE NoOperation

OperationVerdict(c, s, o) ==
  IF Forbidden(c, o) THEN "AUTH_FORBIDDEN"
  ELSE IF ServiceVerdict(c, s) # "OK" THEN ServiceVerdict(c, s)
  ELSE IF ~Listed(c, s, o) /\ "operations" \in c.denied
  THEN "INVALID_OPERATION" ELSE "OK"

\* authorize_operation_discovery
OperationDiscoveryVerdict(c, s, o, mayDiscover) ==
  LET e == Entry(c, s, o)
  IN IF DiscoveryVerdict(c, s, mayDiscover) # "OK"
     THEN DiscoveryVerdict(c, s, mayDiscover)
     ELSE IF OperationVerdict(c, s, o) # "OK" THEN OperationVerdict(c, s, o)
     ELSE IF e.discover \/ e.execute THEN "OK" ELSE "AUTH_FORBIDDEN"

\* authorize_execution
ExecutionVerdict(c, p, s, o) ==
  LET e == Entry(c, s, o)
  IN IF OperationVerdict(c, s, o) # "OK" THEN OperationVerdict(c, s, o)
     ELSE IF e.execute /\ (e.scope = NoScope \/ HasScope(p, e.scope))
     THEN "OK" ELSE "AUTH_FORBIDDEN"

\* describe_operation_policy
Described(c, s, o) ==
  LET e == Entry(c, s, o)
  IN IF OperationVerdict(c, s, o) # "OK" THEN NoOperation
     ELSE [discover |-> e.discover \/ e.execute, execute |-> e.execute,
           scope |-> e.scope]

-----------------------------------------------------------------------------
(* estimate_cost and _enforce_limits *)

\* The observations of a historical request: days of its range, periodicity.
Divisors == [DAILY |-> 1, WEEKLY |-> 7, MONTHLY |-> 30]
Historical(securities, fields, days, periodicity) ==
  LET periods == days \div Divisors[periodicity]
  IN securities * fields * (IF periods > 1 THEN periods ELSE 1)

\* Intraday bars of one trading day; ticks at one a second.
TradingDay == 8 * 3600
Bars(securities, fields, interval) ==
  LET bars == TradingDay \div interval
  IN (IF securities > 1 THEN securities ELSE 1)
       * (IF fields > 1 THEN fields ELSE 1) * (IF bars > 1 THEN bars ELSE 1)

WithinBudget(securities, fields, observations, limits) ==
  /\ securities <= limits.securities /\ fields <= limits.fields
  /\ observations <= limits.observations

-----------------------------------------------------------------------------
(* properties *)

(* What a policy does not list, and what belongs to a denied family, is    *)
(* not executable, whoever asks, whatever a wildcard or a deny_ switch     *)
(* says (engine.py:61-96, models.py:128-135).                              *)
UnlistedNeverRuns ==
  \A c \in Policies, p \in Principal, s \in Services, o \in Operations :
    ExecutionVerdict(c, p, s, o) = "OK" =>
      /\ ~("authorization" \in c.denied /\ o \in Authorization)
      /\ ~("provider" \in c.denied /\ o \in Provider)
      /\ s \in DOMAIN c.services
      /\ {o, Wildcard} \cap DOMAIN c.services[s].operations # {}

(* The policy block of a description and the check that a request goes     *)
(* through agree: an operation runs exactly when it is described as        *)
(* executable and its scope is held, and nothing can be discovered that    *)
(* its description calls hidden (engine.py:74-108).                        *)
DescriptionAgrees ==
  \A c \in Policies, s \in Services, o \in Operations :
    LET d == Described(c, s, o)
    IN /\ \A p \in Principal :
            ExecutionVerdict(c, p, s, o) = "OK" <=>
              d.execute /\ (d.scope = NoScope \/ HasScope(p, d.scope))
       /\ OperationDiscoveryVerdict(c, s, o, TRUE) = "OK" => d.discover
       /\ d.execute => d.discover

(* A request that asks for at least as much is never estimated lower, so   *)
(* one that is refused cannot pass by growing, and a historical request    *)
(* that names a security and a field never counts as nothing               *)
(* (cost.py:71-85, canonical.py:67-82).                                    *)
EstimateGrows ==
  \A m, n \in 0..2, d, e \in {1, 6, 7, 8, 60} :
    m <= n /\ d <= e => \A t \in DOMAIN Divisors :
      /\ Historical(m, n, d, t) <= Historical(n, n, e, t)
      /\ Historical(m, m, d, t) <= Historical(m, n, d, t)
      /\ m * n <= Historical(m, n, d, t)
      /\ Bars(m, n, 3600) <= Bars(n, n, 60)
      /\ \A most \in {0, 7, 60} :
           LET limits == [securities |-> 2, fields |-> 2,
                          observations |-> most]
           IN WithinBudget(n, n, Historical(n, n, e, t), limits)
                => WithinBudget(m, n, Historical(m, n, d, t), limits)
=============================================================================

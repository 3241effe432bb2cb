--------------------------- MODULE MCGatewayAccess ---------------------------
(* GatewayAccess with small policy files: a service with every combination  *)
(* of entries for a plain and a forbidden operation and for the wildcard.   *)
EXTENDS GatewayAccess, TLC

CONSTANTS s1, s2, a1, a2

\* what the entries of an operation may say
MCEntries ==
  {[discover |-> d, execute |-> e, scope |-> r] :
     d \in {FALSE}, e \in BOOLEAN, r \in {"scope", NoScope}}
MCService(entries) ==
  [open |-> TRUE, discover |-> TRUE, subscriptions |-> FALSE,
   operations |-> entries]
MCPolicy ==
  [services |-> [s \in {s1, s2} |->
     MCService([o \in {"query"} |->
       [discover |-> TRUE, execute |-> TRUE, scope |-> "scope"]])],
   denied |-> Switches]
MCPolicies ==
  {MCPolicy} \cup
  {[services |-> [s \in S |-> MCService(entries)], denied |-> denied] :
     S \in {{}, {s1}, {s1, s2}}, denied \in SUBSET Switches,
     entries \in UNION {[N -> MCEntries] :
                          N \in SUBSET {"query", "token", Wildcard}}}
MCCaller == [scopes |-> {"scope"}, admin |-> FALSE]

\* Over these files TLC looks for a counterexample to what
\* GatewayAccessProofs proves of all of them, and to a cost that falls.
ASSUME PolicyFilesChecked == UnlistedNeverRuns /\ DescriptionAgrees
ASSUME CostsChecked == EstimateGrows

Symmetry == Permutations({s1, s2}) \cup Permutations(Addresses)
=============================================================================

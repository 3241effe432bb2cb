-------------------------- MODULE RequestPreparation --------------------------
(***************************************************************************)
(* The way of one request from the tools of an MCP client to the native    *)
(* request: describe (blpapi_describe_operation), validate                 *)
(* (blpapi_validate_request), send (blpapi_send_request, which builds the  *)
(* canonical request and waits for a permit), and the native submission,   *)
(* while the schema behind the operation may change.                       *)
(*                                                                         *)
(* Policy, scopes and quotas of these calls are modelled in GatewayAccess, *)
(* the waiting and the answer in RequestExecution.  The trees are          *)
(* parameters here: RequestTrees says what they are.                       *)
(***************************************************************************)
EXTENDS RequestSchemas

CONSTANTS
  Versions,       (* the schemas the operation may have                    *)
  Changes,        (* which version may take the place of which             *)
  Tree,           (* Tree[v]: the descriptor tree of version v             *)
  Nodes,          (* Nodes[v]: all descriptors of that tree                *)
  SchemaOf,       (* SchemaOf[v]: its JSON Schema and the $defs of that    *)
  Values,         (* what parameters are made of                           *)
  RawParameters,  (* what a client may pass as parameters                  *)
  RejectUnknown,  (* defaults.reject_unknown_elements                      *)
  NoVersion,
  ArrayElements(_) (* what count_array_items has counted at the end        *)

ASSUME ValuesAssumption ==
  /\ RawParameters \subseteq Values
  /\ \A v \in Values :
       /\ IsObject(v) =>
            /\ v = Object([k \in Keys(v) |-> v.map[k]]) /\ IsFiniteSet(Keys(v))
            /\ \A k \in Keys(v) : v.map[k] \in Values /\ k # NoAlias
       /\ IsList(v) => v = List(v.items) /\ v.items \in Seq(Values)

\* A request is a sequence, and the elements of one definition have names of
\* their own.
ASSUME TreesAssumption ==
  /\ NoVersion \notin Versions
  /\ \A v \in Versions :
       /\ Tree[v] \in Nodes[v] /\ Tree[v].kind = "SEQUENCE"
       /\ \A d \in Nodes[v] :
            /\ d.kind \notin {"REF", "ANY_OBJECT"}
            /\ d.min \in Nat /\ d.max \in Nat
            /\ Parts(d) \subseteq Nodes[v]
            /\ \A p, q \in Parts(d) : p.name = q.name => p = q

VARIABLES
  native,   (* the version Bloomberg serves to the session of now          *)
  former,   (* the version before                                          *)
  cached,   (* the version whose descriptors the ServiceRegistry holds     *)
  stage,    (* how far the client's request has come                       *)
  raw,      (* the parameters the client asked to validate                 *)
  mode,     (* strict_types and reject_unknown of that validation          *)
  hash,     (* the schema_hash the client, then the request, carries       *)
  asked,    (* the canonical parameters the validation returned            *)
  canonical (* CanonicalRequest.parameters                                 *)

schemaVars == <<native, former, cached>>
vars == <<schemaVars, stage, raw, mode, hash, asked, canonical>>

-----------------------------------------------------------------------------
Modes == [strict : BOOLEAN, reject : BOOLEAN]
\* blpapi_send_request offers no options: the policy alone decides.
PolicyMode == [strict |-> FALSE, reject |-> RejectUnknown]
\* An option of a call tightens the policy, it never weakens it.
Tightened(m) == [m EXCEPT !.reject = @ \/ RejectUnknown]

\* validate_parameters
Canonical(d, parameters, m) ==
  LET v == Validated(d, parameters, m, 0)
  IN  IF v # Invalid /\ ArrayElements(v) <= MaxArrayElements
      THEN v ELSE Invalid

\* The versions where every branch of every choice is a scalar.
FlatVersions ==
  {v \in Versions :
     \A d \in Nodes[v] :
       d.kind = "CHOICE" => \A p \in Parts(d) : p.kind \notin Compound}

\* Nothing has been cut off, no element has an alias or is a repeated choice.
PlainVersions ==
  {v \in FlatVersions :
     \A d \in Nodes[v] :
       /\ d.kind # "UNSUPPORTED" /\ d.alias = NoAlias
       /\ d.kind \in Compound => d.parts # <<>>
       /\ d.kind = "CHOICE" => d.max = 1}

Init ==
  /\ native \in Versions
  /\ former = native
  /\ cached = native
  /\ stage = "IDLE"
  /\ raw = Invalid /\ mode = PolicyMode
  /\ hash = NoVersion
  /\ asked = Invalid /\ canonical = Invalid

-----------------------------------------------------------------------------
(* The schema behind the operation: its life is in SessionLifecycle *)

\* Bound of the model: one change, while the request is on its way.
OnItsWay == stage \in {"DESCRIBED", "VALIDATED", "QUEUED", "CHECKED"}

\* A new session serves another version; the change of the generation has
\* emptied the registry.
SchemaChanges ==
  \E v \in Versions :
    /\ OnItsWay /\ native = former /\ <<native, v>> \in Changes
    /\ native' = v
    /\ cached' = NoVersion
    /\ UNCHANGED <<former, stage, raw, mode, hash, asked, canonical>>

\* A refresh stores what it read, and it may have read it of the old session.
SchemaStored ==
  \E v \in {native, former} :
    /\ OnItsWay /\ cached # v
    /\ cached' = v
    /\ UNCHANGED <<native, former, stage, raw, mode, hash, asked, canonical>>

-----------------------------------------------------------------------------
(* The client *)

\* describe_operation: the schema and its hash.
Describe ==
  /\ stage = "IDLE" /\ cached # NoVersion
  /\ stage' = "DESCRIBED"
  /\ hash' = cached
  /\ UNCHANGED <<schemaVars, raw, mode, asked, canonical>>

\* Mutant: the hash is checked at the submission only.
DriftedNever == FALSE
\* build_canonical_request refuses a hash that is not the cached schema's.
Drifted == hash # NoVersion /\ hash # cached

\* validate_request
Validate(parameters, options) ==
  LET m == Tightened(options)
      v == Canonical(Tree[cached], parameters, m)
  IN  /\ stage \in {"IDLE", "DESCRIBED"} /\ cached # NoVersion
      /\ IF Drifted
         THEN stage' = "DRIFT" /\ UNCHANGED <<raw, mode, hash, asked>>
         ELSE /\ raw' = parameters /\ mode' = m
              /\ stage' = IF v = Invalid THEN "REFUSED" ELSE "VALIDATED"
              /\ hash' = cached
              /\ asked' = v
      /\ UNCHANGED <<schemaVars, canonical>>

\* send_request, with what the validation returned.
Send ==
  /\ stage = "VALIDATED" /\ cached # NoVersion
  /\ IF Drifted
     THEN stage' = "DRIFT" /\ UNCHANGED canonical
     ELSE /\ canonical' = Canonical(Tree[cached], asked, PolicyMode)
          /\ stage' = IF canonical' = Invalid THEN "RETURNED" ELSE "QUEUED"
  /\ UNCHANGED <<schemaVars, raw, mode, hash, asked>>

\* send_request without a validation before it, and with no schema_hash.
SendRaw(parameters) ==
  /\ stage = "IDLE" /\ cached # NoVersion
  /\ raw' = parameters
  /\ canonical' = Canonical(Tree[cached], parameters, PolicyMode)
  /\ hash' = cached
  /\ stage' = IF canonical' = Invalid THEN "REFUSED" ELSE "QUEUED"
  /\ UNCHANGED <<schemaVars, mode, asked>>

\* Mutant: submit_request relies on the check of build_canonical_request.
RecheckNever == cached # NoVersion
\* The operation is still known, with the schema of the request.
Recheck == hash = cached

\* submit_request, once a permit is there; the tree it checked is kept while
\* the native calls run.
Submit ==
  /\ stage = "QUEUED"
  /\ hash' = IF Recheck THEN cached ELSE hash
  /\ stage' = IF Recheck THEN "CHECKED" ELSE "DRIFT"
  /\ UNCHANGED <<schemaVars, raw, mode, asked, canonical>>

\* The tree that was checked, not the one of now.
BuildTree == hash

\* populate_request in a worker thread; the service may be another by now, and
\* then createRequest or an element of it may be refused by the library.
Build ==
  /\ stage = "CHECKED"
  /\ \/ Populated(Tree[BuildTree], canonical) /\ stage' = "BUILT"
     \/ ~Populated(Tree[BuildTree], canonical) /\ stage' = "MALFORMED"
     \/ native # hash /\ stage' = "FAILED"
  /\ UNCHANGED <<schemaVars, raw, mode, hash, asked, canonical>>

Next ==
  \/ SchemaChanges \/ SchemaStored
  \/ Describe
  \/ \E p \in RawParameters, m \in Modes : Validate(p, m)
  \/ Send
  \/ \E p \in RawParameters : SendRaw(p)
  \/ Submit \/ Build

Spec == Init /\ [][Next]_vars

-----------------------------------------------------------------------------
(* Properties *)

\* What the gateway accepted, the native builder accepts, whatever happened to
\* the schema while the request waited - for schemas without nested choices.
AcceptedIsBuilt ==
  stage = "MALFORMED" => hash \notin FlatVersions

\* The canonical parameters that blpapi_validate_request returns are accepted
\* by blpapi_send_request unless it tells of a drift, and as they are.
ValidatedIsAccepted ==
  /\ stage = "RETURNED" => hash \notin FlatVersions
  /\ asked # Invalid /\ canonical # Invalid /\ hash \in FlatVersions
       => canonical = asked

\* A request and its mode, as a client sees them that has read the schema.
Checked == stage \in {"VALIDATED", "REFUSED"} /\ mode.strict /\ mode.reject
Follows ==
  /\ Admitted(SchemaOf[hash].schema, SchemaOf[hash].defs, raw, MaxNesting + 1)
  /\ ArrayElements(raw) <= MaxArrayElements

\* What the strict validation accepts the published JSON Schema admits, and a
\* client that follows the schema is not refused, unless a scalar of its
\* request is outside a range that JSON types do not have.
StrictIsJsonSchema ==
  Checked /\ hash \in PlainVersions =>
    /\ stage = "VALIDATED" => Follows
    /\ Follows /\ InRange(raw) => stage = "VALIDATED"

\* The $defs of a plain schema describe every type as its descriptors do.
Published ==
  \A v \in PlainVersions :
    /\ SchemaOf[v].schema = SchemaFor(Tree[v])
    /\ \A d \in Nodes[v] :
         d.kind \in Compound =>
           SchemaOf[v].defs[d.type]
             = Schema(d.kind, [i \in DOMAIN d.parts |->
                        Property(d, d.parts[i], SchemaFor(d.parts[i]))])

\* No request that is accepted exceeds the limits of the policy; a choice on
\* the deepest level may add one object of its own.
WithinLimits ==
  \A v \in Versions, p \in RawParameters, m \in Modes :
    LET accepted == Canonical(Tree[v], p, m)
    IN  accepted # Invalid =>
          /\ ArrayElements(accepted) <= MaxArrayElements
          /\ Shallow(accepted, MaxNesting + 2)

-----------------------------------------------------------------------------
(* What the documents say and the code does not do *)

\* request_builder.py:3, "Populates a native blpapi.Request from a validated
\* canonical parameter mapping", and SPEC.md:509 lists choices: no accepted
\* request is malformed.
NeverMalformed == stage # "MALFORMED"

\* docs/mcp-tools.md:44 and MCP_SKILL.md:78 offer the JSON Schema as what an
\* operation takes, but it has no bounds for INT32, INT64 and BYTE, admits an
\* empty CHAR and names formats only: a request may follow it and be refused.
SchemaIsEnough ==
  Checked /\ hash \in PlainVersions /\ Follows => stage = "VALIDATED"
=============================================================================

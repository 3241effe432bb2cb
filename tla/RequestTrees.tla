------------------------------ MODULE RequestTrees ------------------------------
(***************************************************************************)
(* The recursive part of request preparation, which gives the constants of *)
(* RequestPreparation their values: how the schema of a Bloomberg          *)
(* operation becomes a descriptor tree (SchemaRegistry), how the tree is   *)
(* shown to clients as JSON Schema (descriptor_to_json_schema), and how    *)
(* many entries the arrays of a request have.                              *)
(***************************************************************************)
EXTENDS RequestPreparation, SequencesExt

CONSTANTS
  Types,  (* Types[v]: the native type definitions of version v            *)
  Root    (* the definition of the request element                         *)

-----------------------------------------------------------------------------
(* The parts of a value *)

Slots(v) ==
  IF IsObject(v) THEN Keys(v) ELSE IF IsList(v) THEN DOMAIN v.items ELSE {}
Slot(v, i) == IF IsObject(v) THEN v.map[i] ELSE v.items[i]

RECURSIVE PartsOf(_)
PartsOf(v) == {v} \cup UNION {PartsOf(Slot(v, i)) : i \in Slots(v)}

\* All entries of all arrays.
RECURSIVE CountArrayItems(_)
CountArrayItems(v) ==
  (IF IsList(v) THEN Len(v.items) ELSE 0)
    + MapThenSumSet(LAMBDA i : CountArrayItems(Slot(v, i)), Slots(v))

-----------------------------------------------------------------------------
(* What the code does for the level below is what it does for this one:    *)
(* the values of the constants of RequestSchemas, through which the        *)
(* recursion closes.  TLC also walks definitions that it does not          *)
(* evaluate; RECURSIVE and LET are where that walk stops.                  *)

RECURSIVE ValidateObject(_, _, _, _)
ValidateObject(d, v, m, depth) ==
  LET valid == ValidObject(d, v, m, depth) IN valid
RECURSIVE PopulateRequest(_, _)
PopulateRequest(d, v) == LET built == Built(d, v) IN built
RECURSIVE NestedWithin(_, _)
NestedWithin(v, n) == LET nested == Nested(v, n) IN nested
RECURSIVE Admits(_, _, _, _)
Admits(schema, defs, v, levels) ==
  LET admitted == AdmitsValue(schema, defs, v, levels) IN admitted
RECURSIVE ScalarTexts(_)
ScalarTexts(v) == LET texts == TextsOf(v) IN texts

-----------------------------------------------------------------------------
(* Native definitions to descriptors *)

Descriptor(def, kind, parts) ==
  [name |-> def.name, alias |-> def.alias, kind |-> kind, type |-> def.type,
   min |-> def.min, max |-> def.max, parts |-> parts]
\* What is cut off keeps its name and its cardinality, not its aliases.
Marker(def, kind) == [Descriptor(def, kind, <<>>) EXCEPT !.alias = NoAlias]

Below(visiting, type) == visiting \cup {type}

\* A sequence type met again on its own path is cut off; a choice is not.
RECURSIVE Convert(_, _, _, _)
Convert(types, def, depth, visiting) ==
  LET type == types[def.type]
      cycle == type.kind = "SEQUENCE" /\ def.type \in visiting
      below == Below(visiting, def.type)
  IN  IF depth > MaxConversionDepth THEN Marker(def, "UNSUPPORTED")
      ELSE IF cycle THEN Marker(def, "SEQUENCE")
      ELSE Descriptor(def, type.kind,
             [i \in DOMAIN type.members |->
                Convert(types, type.members[i], depth + 1, below)])

-----------------------------------------------------------------------------
(* Descriptors to JSON Schema *)

Placeholder == [kind |-> "ANY_OBJECT"]

Define(defs, type, schema) ==
  [t \in DOMAIN defs \cup {type} |-> IF t = type THEN schema ELSE defs[t]]

\* emit: the $defs grow on the way; a type in progress gets a placeholder that
\* its own completion replaces.
RECURSIVE Emit(_, _, _)
Emit(d, defs, inProgress) ==
  LET Add(acc, p) ==
        LET emitted == Emit(p, acc.defs, inProgress \cup {d.type})
        IN  [props |-> Append(acc.props, Property(d, p, emitted.schema)),
             defs |-> emitted.defs]
      all == FoldLeft(Add, [props |-> <<>>, defs |-> defs], d.parts)
  IN  IF d.kind \notin Compound
        THEN [schema |-> SchemaFor(d), defs |-> defs]
      ELSE [schema |-> SchemaFor(d),
            defs |-> IF d.type \in DOMAIN defs THEN defs
                     ELSE IF d.type \in inProgress
                       THEN Define(defs, d.type, Placeholder)
                     ELSE Define(all.defs, d.type,
                                 Schema(d.kind, all.props))]

JsonSchema(d) == Emit(d, <<>>, {})

\* hash_operation_schema covers the whole tree: equal hashes, equal trees.
Trees == [v \in Versions |-> Convert(Types[v], Root, 0, {})]
JsonSchemas == [v \in Versions |-> JsonSchema(Trees[v])]

-----------------------------------------------------------------------------
(* Reference definitions for the properties *)

\* All descriptors of a tree.
RECURSIVE NodesOf(_)
NodesOf(d) == {d} \cup UNION {NodesOf(p) : p \in Parts(d)}
AllNodes == [v \in Versions |-> NodesOf(Trees[v])]

\* The longest path from the root.
RECURSIVE Height(_)
Height(d) == Max({0} \cup {Height(p) + 1 : p \in Parts(d)})

-----------------------------------------------------------------------------
(* Properties *)

\* Every reference of a published schema leads to the definition of its type,
\* also where types contain themselves.
SchemasComplete ==
  \A v \in Versions :
    LET defs == SchemaOf[v].defs
    IN  \A t \in DOMAIN defs :
          /\ defs[t].kind = Types[v][t].kind
          /\ \A p \in ToSet(defs[t].props) :
               p.schema.kind = "REF" => p.schema.type \in DOMAIN defs
          /\ {p.name : p \in ToSet(defs[t].props)}
               = {m.name : m \in ToSet(Types[v][t].members)}

CompoundTypes(v) == {t \in DOMAIN Types[v] : Types[v][t].kind \in Compound}
\* A type that contains itself is expanded once on every path, unless the path
\* leads through a choice.
CyclesAreCut ==
  \A v \in FlatVersions : Height(Tree[v]) <= Cardinality(CompoundTypes(v))
=============================================================================

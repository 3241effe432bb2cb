---------------------------- MODULE RequestSchemas ----------------------------
(***************************************************************************)
(* The pure part of request preparation, one level at a time: how the      *)
(* parameters of a request are validated against the descriptor tree of    *)
(* its operation (validate_parameters) and put into a native request       *)
(* (populate_request), and what its published JSON Schema says of them     *)
(* (descriptor_to_json_schema).                                            *)
(*                                                                         *)
(* The code calls itself for the level below.  What such a call answers is *)
(* a constant here, and Unfolds says that it is what this level answers:   *)
(* RequestTrees gives each of these constants its own level as its value.  *)
(*                                                                         *)
(* Of the datatypes there are STRING, ENUMERATION, INT32 and CHAR, and of  *)
(* the scalars "TEXT" (a string), "WORD" (one character, and a value of    *)
(* every enumeration), "EMPTY" (the empty string), "NUMBER", "HUGE" (an    *)
(* integer beyond INT32) and "NULL".  Which error a refused request is     *)
(* told is left out.                                                       *)
(***************************************************************************)
EXTENDS Naturals, Sequences, FiniteSets

CONSTANTS
  MaxConversionDepth,  (* MAX_CONVERSION_DEPTH                              *)
  MaxNesting,          (* maximum_nesting_depth                             *)
  MaxArrayElements,    (* maximum_request_array_elements                    *)
  NoAlias,
  Validated(_, _, _, _),  (* ValidObject, through all levels               *)
  Populated(_, _),        (* Built, through all levels                     *)
  Shallow(_, _),          (* Nested, through all levels                    *)
  Admitted(_, _, _, _),   (* AdmitsValue, through all levels               *)
  Texts(_)                (* TextsOf, through all levels                   *)

ASSUME LimitsAssumption ==
  /\ MaxConversionDepth \in Nat /\ MaxNesting \in Nat
  /\ MaxArrayElements \in Nat

Unbounded == 0      \* max_values is None
Compound == {"SEQUENCE", "CHOICE"}

-----------------------------------------------------------------------------
(* Values of parameters, before and after validation *)

Scalar(text) == [kind |-> "SCALAR", text |-> text]
List(items) == [kind |-> "LIST", items |-> items]
Object(map) == [kind |-> "OBJECT", map |-> map]
Invalid == [kind |-> "INVALID"]

IsObject(v) == v.kind = "OBJECT"
IsList(v) == v.kind = "LIST"
Keys(v) == DOMAIN v.map
Parts(d) == {d.parts[i] : i \in DOMAIN d.parts}
Names(d) == {p.name : p \in Parts(d)}
Required(d) == {p.name : p \in {q \in Parts(d) : q.min >= 1}}

-----------------------------------------------------------------------------
(* Validation *)

\* decode_input_value: what passes as a scalar of the kind.  Whatever else is
\* asked to be a scalar passes as text.
Legal(kind) ==
  CASE kind = "ENUMERATION" -> {"WORD"}
    [] kind = "INT32" -> {"NUMBER"}
    [] kind = "CHAR" -> {"WORD"}
    [] OTHER -> {"TEXT", "WORD", "EMPTY"}

ValidScalar(kind, v) ==
  IF v.kind = "SCALAR" /\ v.text \in Legal(kind) THEN v ELSE Invalid

\* The element a key stands for: a name, or else the first alias.
Meant(d, key) ==
  IF key \in Names(d) THEN {p \in Parts(d) : p.name = key}
  ELSE LET same == {i \in DOMAIN d.parts : d.parts[i].alias = key}
       IN  {d.parts[i] : i \in {j \in same : \A k \in same : j <= k}}

TooMany(d, items) == d.max # Unbounded /\ Len(items) > d.max
TooFew(d, items) == d.min >= 1 /\ Len(items) < d.min

\* Without strict_types a bare value stands for an array of one, and an array
\* of one for its value.
Items(d, raw, strict) ==
  IF IsList(raw) THEN raw.items ELSE IF strict THEN <<Invalid>> ELSE <<raw>>
Single(raw, strict) ==
  IF ~IsList(raw) THEN raw
  ELSE IF ~strict /\ Len(raw.items) = 1 THEN raw.items[1] ELSE Invalid

Deeper(depth) == depth + 1

\* One value of an element.
ValidItem(d, v, mode, depth) ==
  IF d.kind # "SEQUENCE" THEN ValidScalar(d.kind, v)
  ELSE IF IsObject(v) THEN Validated(d, v, mode, Deeper(depth)) ELSE Invalid

ValidArray(d, raw, mode, depth) ==
  LET items == Items(d, raw, mode.strict)
      valid == [i \in DOMAIN items |->
                  ValidItem(d, items[i], mode, depth)]
  IN  IF TooMany(d, items) \/ TooFew(d, items)
         \/ \E i \in DOMAIN items : valid[i] = Invalid
      THEN Invalid ELSE List(valid)

\* A branch that is a sequence loses its name here, any other keeps it.
ValidChoice(d, raw, mode, depth) ==
  LET name == CHOOSE k \in Keys(raw) : TRUE
      branches == {p \in Parts(d) : p.name = name}
      branch == CHOOSE p \in branches : TRUE
      value == raw.map[name]
      scalar == ValidScalar(branch.kind, value)
  IN  IF ~IsObject(raw) \/ Cardinality(Keys(raw)) # 1 \/ branches = {}
        THEN Invalid
      ELSE IF branch.kind = "SEQUENCE" /\ IsObject(value)
        THEN Validated(branch, value, mode, Deeper(depth))
      ELSE IF scalar = Invalid THEN Invalid
      ELSE Object([k \in {name} |-> scalar])

ValidElement(d, raw, mode, depth) ==
  IF d.kind = "CHOICE" THEN ValidChoice(d, raw, mode, depth)
  ELSE IF d.max = 1
    THEN ValidItem(d, Single(raw, mode.strict), mode, depth)
  ELSE ValidArray(d, raw, mode, depth)

\* What the keys of v stand for, and the elements they are given for.
Known(d, v) == {k \in Keys(v) : Meant(d, k) # {}}
Target(d, key) == CHOOSE p \in Meant(d, key) : TRUE
Given(d, v) == {Target(d, k).name : k \in Known(d, v)}
Source(d, v, name) == CHOOSE k \in Known(d, v) : Target(d, k).name = name

ValidObject(d, v, mode, depth) ==
  LET result == [n \in Given(d, v) |->
        LET k == Source(d, v, n)
        IN  ValidElement(Target(d, k), v.map[k], mode, depth)]
  IN  IF /\ IsObject(v) /\ depth <= MaxNesting
         /\ mode.reject => Known(d, v) = Keys(v)
         /\ Cardinality(Given(d, v)) = Cardinality(Known(d, v))
         /\ Required(d) \subseteq Given(d, v)
         /\ \A n \in Given(d, v) : result[n] # Invalid
      THEN Object(result) ELSE Invalid

-----------------------------------------------------------------------------
(* The native request: populate_request raises, or it does not *)

BuiltElement(d, v) ==
  CASE d.kind = "SEQUENCE" ->
         LET entries == IF IsList(v) THEN v.items ELSE <<v>>
         IN  \A i \in DOMAIN entries :
               IsObject(entries[i]) /\ Populated(d, entries[i])
    [] d.kind = "CHOICE" ->
         /\ IsObject(v) /\ Cardinality(Keys(v)) = 1
         /\ Populated(d, v)
    [] OTHER -> TRUE

Built(d, v) ==
  \A k \in Keys(v) :
    \E p \in Parts(d) : p.name = k /\ BuiltElement(p, v.map[k])

-----------------------------------------------------------------------------
(* Descriptors as JSON Schema *)

Reference(type) == [kind |-> "REF", type |-> type]
Schema(kind, props) == [kind |-> kind, props |-> props]
\* Mutant: the table has a CHAR in the row of BYTE.
JsonTypeOfByte(kind) ==
  CASE kind = "ENUMERATION" -> "enum"
    [] kind \in {"INT32", "CHAR"} -> "integer"
    [] OTHER -> "string"
\* _JSON_PRIMITIVES: a type of JSON knows nothing of the width of an integer,
\* and maxLength is all it says of a CHAR.  Other datatypes become a string.
JsonType(kind) ==
  CASE kind = "ENUMERATION" -> "enum"
    [] kind = "INT32" -> "integer"
    [] kind = "CHAR" -> "string of at most one"
    [] OTHER -> "string"
SchemaFor(d) ==
  IF d.kind \in Compound THEN Reference(d.type)
  ELSE Schema(JsonType(d.kind), <<>>)
\* A member of a sequence may be an array or required; a branch is neither.
Property(d, p, schema) ==
  LET member == d.kind = "SEQUENCE" IN
  [name |-> p.name, schema |-> schema, many |-> member /\ p.max # 1,
   required |-> member /\ p.min >= 1, min |-> p.min, max |-> p.max]

-----------------------------------------------------------------------------
(* Reference definitions for the properties *)

\* No more than n objects of v are within each other.
Nested(v, n) ==
  /\ IsObject(v) => n > 0 /\ \A k \in Keys(v) : Shallow(v.map[k], n - 1)
  /\ IsList(v) => \A i \in DOMAIN v.items : Shallow(v.items[i], n)

\* The scalars that a JSON type admits.
Fitting(type) ==
  CASE type = "enum" -> {"WORD"}
    [] type = "integer" -> {"NUMBER", "HUGE"}
    [] type = "string of at most one" -> {"WORD", "EMPTY"}
    [] OTHER -> {"TEXT", "WORD", "EMPTY"}

\* The scalars within v, and whether none is one that some datatype excludes
\* and its JSON type does not.
TextsOf(v) ==
  CASE v.kind = "SCALAR" -> {v.text}
    [] IsObject(v) -> UNION {Texts(v.map[k]) : k \in Keys(v)}
    [] IsList(v) -> UNION {Texts(v.items[i]) : i \in DOMAIN v.items}
    [] OTHER -> {}
InRange(v) == Texts(v) \cap {"HUGE", "EMPTY"} = {}

\* What a client that trusts a JSON Schema may send, with no more than levels
\* objects of sequences within each other.
AdmitsProperty(p, defs, v, levels) ==
  IF p.many
  THEN /\ IsList(v)
       /\ Len(v.items) >= p.min
       /\ p.max # Unbounded => Len(v.items) <= p.max
       /\ \A i \in DOMAIN v.items : Admitted(p.schema, defs, v.items[i], levels)
  ELSE Admitted(p.schema, defs, v, levels)

Props(schema) == {schema.props[i] : i \in DOMAIN schema.props}

AdmitsSequence(schema, defs, v, levels) ==
  /\ IsObject(v) /\ levels > 0
  /\ Keys(v) \subseteq {p.name : p \in Props(schema)}
  /\ \A p \in Props(schema) :
       /\ p.required => p.name \in Keys(v)
       /\ p.name \in Keys(v) =>
            AdmitsProperty(p, defs, v.map[p.name], levels - 1)

AdmitsChoice(schema, defs, v, levels) ==
  /\ IsObject(v) /\ Cardinality(Keys(v)) = 1
  /\ \E p \in Props(schema) :
       /\ p.name \in Keys(v)
       /\ AdmitsProperty(p, defs, v.map[p.name], levels)

AdmitsValue(schema, defs, v, levels) ==
  CASE schema.kind = "REF" -> Admitted(defs[schema.type], defs, v, levels)
    [] schema.kind = "ANY_OBJECT" -> IsObject(v)
    [] schema.kind = "SEQUENCE" ->
         AdmitsSequence(schema, defs, v, levels)
    [] schema.kind = "CHOICE" -> AdmitsChoice(schema, defs, v, levels)
    [] OTHER -> v.kind = "SCALAR" /\ v.text \in Fitting(schema.kind)

\* The constants are closed under what they stand for.
Unfolds ==
  /\ \A d, v, m : \A depth \in Nat :
       Validated(d, v, m, depth) = ValidObject(d, v, m, depth)
  /\ \A d, v : Populated(d, v) = Built(d, v)
  /\ \A v : \A n \in Nat : Shallow(v, n) = Nested(v, n)
  /\ \A schema, defs, v : \A levels \in Nat :
       Admitted(schema, defs, v, levels)
         = AdmitsValue(schema, defs, v, levels)
  /\ \A v : Texts(v) = TextsOf(v)
=============================================================================

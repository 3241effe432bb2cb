------------------------- MODULE MCRequestPreparation -------------------------
(***************************************************************************)
(* RequestPreparation with seven small schemas: a plain one, one with an   *)
(* alias, a choice of scalars, a choice in a sequence and a sequence in a  *)
(* choice, a sequence and a choice that contain themselves.                *)
(***************************************************************************)
EXTENDS RequestTrees

Member(name, type, min, max) ==
  [name |-> name, alias |-> NoAlias, type |-> type, min |-> min, max |-> max]
Type(kind, members) == [kind |-> kind, members |-> members]
A == Member("a", "Text", 1, 1)

MCRoot == Member("request", "Request", 1, 1)

Base ==
  [Text |-> Type("STRING", <<>>), Word |-> Type("ENUMERATION", <<>>),
   Count |-> Type("INT32", <<>>), Char |-> Type("CHAR", <<>>),
   Leg |-> Type("SEQUENCE", <<A>>)]

PlainTypes == Base @@
  [Request |-> Type("SEQUENCE",
     <<A, Member("l", "Word", 0, 2), Member("s", "Leg", 1, Unbounded)>>)]
AliasTypes == Base @@
  [Request |-> Type("SEQUENCE",
     <<[A EXCEPT !.alias = "b"], Member("l", "Count", 0, 1),
       Member("s", "Leg", 0, 1)>>)]
ChoiceTypes == Base @@
  [Either |-> Type("CHOICE", <<Member("a", "Char", 1, 1),
                               Member("x", "Count", 0, 2)>>),
   Request |-> Type("SEQUENCE",
     <<Member("c", "Either", 0, 1), Member("a", "Char", 0, 1),
       Member("l", "Count", 0, 2)>>)]
InnerTypes == Base @@
  [Either |-> Type("CHOICE", <<A, Member("l", "Word", 0, 2)>>),
   Node |-> Type("SEQUENCE", <<Member("c", "Either", 0, 1)>>),
   Request |-> Type("SEQUENCE", <<Member("s", "Node", 0, 1)>>)]
NestedTypes == Base @@
  [Either |-> Type("CHOICE", <<A, Member("s", "Leg", 0, 1)>>),
   Request |-> Type("SEQUENCE", <<Member("c", "Either", 0, 1)>>)]
CyclicTypes == Base @@
  [Node |-> Type("SEQUENCE",
     <<Member("a", "Text", 0, 1), Member("s", "Node", 0, 1)>>),
   Request |-> Type("SEQUENCE",
     <<Member("s", "Node", 0, 1), Member("l", "Leg", 0, 1)>>)]
CyclicChoiceTypes == Base @@
  [Either |-> Type("CHOICE", <<A, Member("c", "Either", 0, 1)>>),
   Request |-> Type("SEQUENCE", <<Member("c", "Either", 0, 1)>>)]

MCTypes ==
  [plain |-> PlainTypes, alias |-> AliasTypes, choice |-> ChoiceTypes,
   inner |-> InnerTypes, nested |-> NestedTypes, cyclic |-> CyclicTypes,
   cyclicChoice |-> CyclicChoiceTypes]
MCVersions == DOMAIN MCTypes
MCChanges ==
  {<<"plain", "alias">>, <<"alias", "plain">>, <<"choice", "nested">>,
   <<"nested", "inner">>, <<"inner", "choice">>, <<"cyclic", "cyclicChoice">>,
   <<"cyclicChoice", "plain">>}

-----------------------------------------------------------------------------
(* Parameters: objects of one key or two, with what may be in them *)

One(key, value) == Object([k \in {key} |-> value])
Two(k1, v1, k2, v2) ==
  Object([k \in {k1, k2} |-> IF k = k1 THEN v1 ELSE v2])

Scalars ==
  {Scalar(t) : t \in {"TEXT", "WORD", "EMPTY", "NUMBER", "HUGE", "NULL"}}
Text == Scalar("TEXT")
Lists(S) == {List(<<>>)} \cup {List(<<v>>) : v \in S}
Small == {One(k, v) : k \in {"a", "x"}, v \in {Text, Scalar("NULL")}}
Objects ==
  {Object(<<>>), Two("a", Text, "x", Text), Two("a", Text, "b", Text)}
    \cup {One(k, v) : k \in {"a", "l", "x"}, v \in Scalars}
    \cup {One(k, v) : k \in {"c", "s"}, v \in Small \cup {Text}}
    \cup {One("s", One(k, v)) : k \in {"c", "s"}, v \in Small}
Words == {List(<<Scalar("WORD"), v>>) : v \in Scalars}
           \cup {List(<<Scalar("WORD"), Scalar("WORD"), Scalar("WORD")>>)}
Pieces ==
  Scalars \cup Lists(Scalars) \cup Words \cup Objects \cup Lists(Objects)
    \cup {List(<<One("a", Text), v>>) : v \in Small}

MCRawParameters ==
  {Object(<<>>)}
    \cup {One(k, v) : k \in {"a", "b", "c", "l", "s", "x"}, v \in Pieces}
    \cup {Two("a", Scalar("WORD"), "l", v) :
            v \in Scalars \cup Lists(Scalars) \cup Words}
    \cup {Two("a", Text, "s", v) : v \in Pieces}
    \cup {Two("a", Text, k, v) : k \in {"b", "x"}, v \in Scalars}
    \cup {Object([k \in {"a", "l", "s"} |->
            IF k = "a" THEN Text ELSE IF k = "l" THEN v
            ELSE List([i \in 1..n |-> One("a", w)])]) :
          v \in Words, n \in {1, 3}, w \in {Text, Scalar("NULL")}}

MCValues == UNION {PartsOf(v) : v \in MCRawParameters}

\* What holds of every schema and every request, whatever happens to them.
ASSUME SchemasChecked == SchemasComplete /\ Published /\ CyclesAreCut
ASSUME RequestsChecked == WithinLimits
=============================================================================

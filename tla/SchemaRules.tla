----------------------------- MODULE SchemaRules -----------------------------
(***************************************************************************)
(* What a configuration's structures and enums must satisfy, and what is   *)
(* computed from them: the rules and walks of entity/schema.go.            *)
(*                                                                         *)
(* A definition is a structure or an enum.  The two have separate names;   *)
(* here their keys are disjoint sets, so the key says which one it is.  A  *)
(* field is told apart from another by what it refers to, so the fields of *)
(* a structure are the set of types they have.  A JSON document is the set *)
(* of its paths: a scalar is one path, an object holds the empty path and  *)
(* the paths of its members.  Lists are checked item by item in the code   *)
(* and are left out.                                                       *)
(***************************************************************************)
EXTENDS Naturals, Sequences, FiniteSets, FiniteSetsExt

CONSTANTS
    StructureKeys,
    EnumKeys,
    Options,  \* values an enum can offer
    BaseTypes \* the base types in use

ASSUME SchemaNames ==
    /\ IsFiniteSet(StructureKeys)
    /\ StructureKeys # {}
    /\ StructureKeys \cap EnumKeys = {}
    /\ BaseTypes \cap (StructureKeys \cup EnumKeys) = {}

\* IMAGE, VIDEO and FILE are judged as STRING is, DECIMAL as INT, TIME and
\* DATETIME as DATE, and their ranges as DATE_RANGE, up to the layout of a value.
ASSUME BaseTypesAssumption ==
    /\ BaseTypes \subseteq {"STRING", "INT", "BOOLEAN", "DATE", "DATE_RANGE"}
    /\ BaseTypes # {}

Keys == StructureKeys \cup EnumKeys

Types == Keys \cup BaseTypes

Definitions == [id : Nat, key : Keys, fields : SUBSET Types, options : Seq(Options)]

Defined(defs) == {d.key : d \in defs}

DefinitionOf(defs, key) == CHOOSE d \in defs : d.key = key

FieldsOf(defs, key) == DefinitionOf(defs, key).fields

\* field.GetType().GetStructureKey() of every field of a structure.
Dependencies(defs, key) == FieldsOf(defs, key) \cap StructureKeys

validateType(defs, type) == type \in BaseTypes \cup Defined(defs)

\* An enum has options instead of fields.
validateStructureFields(defs, d) ==
    IF d.key \in StructureKeys
    THEN \A type \in d.fields : validateType(defs, type)
    ELSE d.options # <<>>

UniqueKeys(defs) == \A c, d \in defs : c.key = d.key => c = d

\* The depth-first search: the keys to walk next (all structures, or those the
\* fields of one refer to), the keys on the path to them, the keys walked before.
Walks ==
    [todo : SUBSET StructureKeys, visiting : SUBSET StructureKeys, visited : SUBSET StructureKeys]

\* A key met again on the current path is a cycle, one met after its walk ended is
\* not walked again; the first cycle ends the search.
WalkStep(defs, walk, w) ==
    LET key == CHOOSE k \in w.todo : TRUE
        rest == [w EXCEPT !.todo = @ \ {key}]
        below == walk[[w EXCEPT !.todo = Dependencies(defs, key), !.visiting = @ \cup {key}]]
    IN IF w.todo = {} THEN [ok |-> TRUE, visited |-> w.visited]
       ELSE IF key \in w.visiting THEN [ok |-> FALSE, visited |-> w.visited]
       ELSE IF key \in w.visited THEN walk[rest]
       ELSE IF ~below.ok THEN below
       ELSE walk[[rest EXCEPT !.visited = below.visited \cup {key}]]

Walk(defs) == LET walk[w \in Walks] == WalkStep(defs, walk, w) IN walk

validateCycles(defs) ==
    Walk(defs)[[todo |-> Defined(defs) \cap StructureKeys, visiting |-> {}, visited |-> {}]].ok

\* Whether the definitions make a schema.
NewSchema(defs) ==
    /\ UniqueKeys(defs)
    /\ \A d \in defs : validateStructureFields(defs, d)
    /\ validateCycles(defs)

Under(field, doc) == {<<field>> \o path : path \in doc}

Member(doc, field) == {Tail(path) : path \in {p \in doc : p # <<>> /\ Head(p) = field}}

Members(doc) == {Head(path) : path \in doc \ {<<>>}}

\* The types that resolve.
TypesOf(defs) == Defined(defs) \cup BaseTypes

\* JSON values of base types: what a value starts from ("", 0, false, []), and a
\* date and a range someone typed in.
Scalars == {"empty", "zero", "false", "list", "date", "range"}

\* The defaults of the base types.
BaseDefault ==
    [t \in BaseTypes |->
        CASE t = "INT" -> "zero" [] t = "BOOLEAN" -> "false" [] t = "DATE_RANGE" -> "list"
          [] OTHER -> "empty"]

\* The scalars validateBaseValue accepts: any text is a string, but a date must
\* parse and a range must have two of them.
BaseValues ==
    [t \in BaseTypes |->
        CASE t = "INT" -> {"zero"} [] t = "BOOLEAN" -> {"false"} [] t = "DATE" -> {"date"}
          [] t = "DATE_RANGE" -> {"range"} [] OTHER -> {"empty", "date"}]

\* A document of a type, in a schema NewSchema accepted, given the scalars of the
\* base types; an enum starts with its first option.
Composed(defs, scalars, type) ==
    LET value[t \in TypesOf(defs)] ==
          IF t \in BaseTypes THEN {<<scalars[t]>>}
          ELSE IF t \in EnumKeys THEN {<<Head(DefinitionOf(defs, t).options)>>}
          ELSE {<<>>} \cup UNION {Under(field, value[field]) : field \in FieldsOf(defs, t)}
    IN value[type]

\* The document the editor of a value starts from.
DefaultValue(defs, type) == Composed(defs, BaseDefault, type)

Documents == SUBSET Seq(Types \cup Options \cup Scalars)

validateBaseValue(type, doc) == \E scalar \in BaseValues[type] : doc = {<<scalar>>}

\* validateValue and the validators it chooses from: an object has the members
\* its structure declares and no other.
validateValue(defs, type, value) ==
    LET valid[v \in TypesOf(defs) \X Documents] ==
          LET t == v[1]
              doc == v[2]
          IN IF t \in BaseTypes THEN validateBaseValue(t, doc)
             ELSE IF t \in EnumKeys
             THEN \E i \in DOMAIN DefinitionOf(defs, t).options : doc = {<<DefinitionOf(defs, t).options[i]>>}
             ELSE /\ <<>> \in doc
                  /\ Members(doc) = FieldsOf(defs, t)
                  /\ \A field \in FieldsOf(defs, t) : valid[<<field, Member(doc, field)>>]
    IN valid[<<type, value>>]

ValidateConfig(defs, type, value) == validateType(defs, type) /\ validateValue(defs, type, value)

\* The keys that refer to a rejected one are rejected too.
rejectDependentStructures(defs, keys) ==
    keys \cup {d.key : d \in {c \in defs : c.fields \cap keys # {}}}

\* Passes until one changes nothing.
Rejected(defs) ==
    LET rejected[keys \in SUBSET StructureKeys] ==
          LET more == rejectDependentStructures(defs, keys)
          IN IF more = keys THEN keys ELSE rejected[more]
    IN rejected

Bug_FilterDirectOnly(defs, ignored) ==
    LET key == (CHOOSE d \in defs : d.id = ignored).key
    IN (Defined(defs) \cap StructureKeys) \ {key}

\* The structures the editor of one structure offers as the type of a field.
FilterStructureChoices(defs, ignored) ==
    LET key == (CHOOSE d \in defs : d.id = ignored).key
    IN (Defined(defs) \cap StructureKeys) \ Rejected(defs)[{key}]

-----------------------------------------------------------------------------
(* What these are meant to be *)

\* No set of structures in which each one refers to another one of the set.
Acyclic(defs) ==
    \A keys \in (SUBSET (Defined(defs) \cap StructureKeys)) \ {{}} :
        \E key \in keys : Dependencies(defs, key) \cap keys = {}

Resolved(defs) ==
    \A d \in defs : \A type \in d.fields : type \in BaseTypes \cup Defined(defs)
=============================================================================

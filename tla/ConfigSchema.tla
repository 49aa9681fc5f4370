---------------------------- MODULE ConfigSchema ----------------------------
(***************************************************************************)
(* Concurrent edits of one configuration's definitions: structures, enums, *)
(* the configuration's type and its draft value.                           *)
(*                                                                         *)
(* An editor works from what its page showed, then its transaction locks   *)
(* the configuration row (configResources.lock), reads the definitions,    *)
(* validates the whole schema the edit would leave, and writes.  The       *)
(* logics of structures and enums have the same steps and share them here. *)
(***************************************************************************)
EXTENDS SchemaRules

CONSTANTS
    Ids,          \* ids of rows of the structures and config_enums tables
    OptionLists,  \* what an enum can be given
    FieldTypes,   \* the types an edit gives to fields
    Seeds,        \* lists of definitions earlier edits can have left
    Editors,
    MaxVersion,   \* bound on the edit versions
    MaxEdits,     \* bound on the edits begun
    Nobody

ASSUME EditorsAssumption == Nobody \notin Editors

ASSUME EditBounds ==
    /\ Ids \subseteq Nat
    /\ Ids # {}
    /\ FieldTypes \subseteq Types
    /\ OptionLists \subseteq Seq(Options)
    /\ <<>> \notin OptionLists
    /\ MaxVersion \in Nat \ {0}
    /\ MaxEdits \in Nat

VARIABLES
    rows,    \* the definitions, deleted ones included, by id
    config,  \* the configuration's type, draft value and edit version
    saved,   \* the content of a snapshot that can be loaded
    holder,  \* the editor whose transaction holds the configuration row
    step, call, view,  \* the edits: control, arguments, what was read under the lock
    edits

vars == <<rows, config, saved, holder, step, call, view, edits>>

Contents == {[fields |-> f, options |-> <<>>] : f \in SUBSET Types}
            \cup {[fields |-> {}, options |-> o] : o \in OptionLists}

ContentsFor(key) ==
    IF key \in StructureKeys THEN {c \in Contents : c.options = <<>>}
                             ELSE {c \in Contents : c.options # <<>>}

\* The unique key (config_id, key), and an enum is no structure.
ASSUME SeedsAssumption ==
    \A seed \in Seeds :
        /\ seed \in Seq([key : Keys, content : Contents])
        /\ \A i \in DOMAIN seed : seed[i].content \in ContentsFor(seed[i].key)
        /\ \A i, j \in DOMAIN seed : seed[i].key = seed[j].key => i = j

Rows == [state : {"absent", "live", "deleted"}, key : Keys, content : Contents, version : 0..MaxVersion]

Configs == [type : Types, value : Documents, version : 0..MaxVersion]

Live(table) == {i \in Ids : table[i].state = "live"}

\* ListForConfig and the conversion to definitions: live rows only.
ListForConfig(table) ==
    {[id |-> i, key |-> table[i].key, fields |-> table[i].content.fields,
      options |-> table[i].content.options] : i \in Live(table)}

\* The definitions of a snapshot have no row ids.
ContentOf(table) == {[key |-> table[i].key, content |-> table[i].content] : i \in Live(table)}

Operations == {"create", "update", "delete", "type", "value", "load"}

Calls == [op : Operations, id : Ids, key : Keys, content : Contents, type : Types,
          value : Documents, version : 0..MaxVersion, base : Rows]

TypeOK ==
    /\ rows \in [Ids -> Rows]
    /\ \A i, j \in Ids : rows[i].state # "absent" /\ rows[j].state # "absent" /\ rows[i].key = rows[j].key
                          => i = j
    /\ config \in Configs
    /\ saved \in [type : Types, value : Documents, definitions : SUBSET [key : Keys, content : Contents]]
    /\ holder \in Editors \cup {Nobody}
    /\ step \in [Editors -> {"idle", "begun", "locked"}]
    /\ call \in [Editors -> Calls]
    /\ view \in [Editors -> [rows : [Ids -> Rows], config : Configs]]
    /\ edits \in 0..MaxEdits

SomeKey == CHOOSE k \in StructureKeys : TRUE

SomeBase == CHOOSE t \in BaseTypes : TRUE

NoContent == [fields |-> {}, options |-> <<>>]

NoRow == [state |-> "absent", key |-> SomeKey, content |-> NoContent, version |-> 0]

NoRows == [i \in Ids |-> NoRow]

NoView == [rows |-> NoRows, config |-> [type |-> SomeBase, value |-> {}, version |-> 0]]

\* What a finished call leaves behind.
NoCall == [op |-> "load", id |-> CHOOSE i \in Ids : TRUE, key |-> SomeKey, content |-> NoContent,
           type |-> SomeBase, value |-> {}, version |-> 0, base |-> NoRow]

Bug_RestoredRow(old, key, content) == [state |-> "live", key |-> key, content |-> content, version |-> 1]

\* The deleted row of the key comes back; its version goes on counting.
RestoredRow(old, key, content) ==
    [state |-> "live", key |-> key, content |-> content, version |-> old.version + 1]

\* What an editor types in where the default of a base type is not accepted.
FilledIn ==
    [t \in BaseTypes |-> CASE t = "DATE" -> "date" [] t = "DATE_RANGE" -> "range" [] OTHER -> BaseDefault[t]]

\* A configuration whose definitions were made by earlier edits, with a value
\* that was saved since, and a snapshot of both.
Init ==
    /\ \E seed \in Seeds :
          rows = [i \in Ids |-> IF i \in DOMAIN seed THEN RestoredRow(NoRow, seed[i].key, seed[i].content)
                                                    ELSE NoRow]
    /\ NewSchema(ListForConfig(rows))
    /\ \E type \in Types :
          /\ validateType(ListForConfig(rows), type)
          /\ config = [type |-> type, value |-> Composed(ListForConfig(rows), FilledIn, type), version |-> 1]
          /\ saved = [type |-> type, value |-> config.value, definitions |-> ContentOf(rows)]
    /\ holder = Nobody
    /\ step = [e \in Editors |-> "idle"]
    /\ call = [e \in Editors |-> NoCall]
    /\ view = [e \in Editors |-> NoView]
    /\ edits = 0

-----------------------------------------------------------------------------
(* An edit begins from what the page shows *)

Begin(e, arguments) ==
    /\ step[e] = "idle"
    /\ edits < MaxEdits
    /\ edits' = edits + 1
    /\ call' = [call EXCEPT ![e] = arguments]
    /\ step' = [step EXCEPT ![e] = "begun"]
    /\ UNCHANGED <<rows, config, saved, holder, view>>

\* A structure is created without fields, an enum with its options.
BeginCreate(e) ==
    \E key \in Keys :
        \E content \in ContentsFor(key) :
            /\ content.fields = {}
            /\ Begin(e, [NoCall EXCEPT !.op = "create", !.key = key, !.content = content])

\* prepareUpdate finds the row; the version is the one the client was shown.
BeginUpdate(e) ==
    \E i \in Live(rows), key \in Keys :
        \E content \in ContentsFor(key) :
            /\ key \in StructureKeys <=> rows[i].key \in StructureKeys
            /\ content.fields \subseteq FieldTypes
            /\ Begin(e, [NoCall EXCEPT !.op = "update", !.id = i, !.key = key, !.content = content,
                                       !.version = rows[i].version, !.base = rows[i]])

BeginDelete(e) ==
    \E i \in Live(rows) : Begin(e, [NoCall EXCEPT !.op = "delete", !.id = i])

BeginConfigUpdate(e) ==
    \E type \in Types \ {config.type} :
        Begin(e, [NoCall EXCEPT !.op = "type", !.type = type, !.version = config.version])

\* The editor saves the default of the schema it was shown, or fills it in first.
BeginUpdateValue(e) ==
    \E scalars \in {BaseDefault, FilledIn} :
        Begin(e, [NoCall EXCEPT !.op = "value", !.version = config.version,
                                !.value = Composed(ListForConfig(rows), scalars, config.type)])

BeginLoad(e) == Begin(e, [NoCall EXCEPT !.op = "load"])

-----------------------------------------------------------------------------
(* The transaction *)

Bug_LockNotExclusive(e) ==
    /\ step[e] = "begun"
    /\ holder' = e
    /\ view' = [view EXCEPT ![e] = [rows |-> rows, config |-> config]]
    /\ step' = [step EXCEPT ![e] = "locked"]
    /\ UNCHANGED <<rows, config, saved, call, edits>>

\* configResources.lock: the configuration row, then its definitions.
Lock(e) ==
    /\ step[e] = "begun"
    /\ holder = Nobody
    /\ holder' = e
    /\ view' = [view EXCEPT ![e] = [rows |-> rows, config |-> config]]
    /\ step' = [step EXCEPT ![e] = "locked"]
    /\ UNCHANGED <<rows, config, saved, call, edits>>

End(e) ==
    /\ step[e] = "locked"
    /\ holder' = Nobody
    /\ step' = [step EXCEPT ![e] = "idle"]
    /\ call' = [call EXCEPT ![e] = NoCall]
    /\ view' = [view EXCEPT ![e] = NoView]
    /\ UNCHANGED <<saved, edits>>

\* A refused edit, a failed statement, a cancelled request: nothing is written.
RollBack(e) ==
    /\ End(e)
    /\ UNCHANGED <<rows, config>>

Seen(e) == ListForConfig(view[e].rows)

SeenType(e) == view[e].config.type

\* referencedStructure and referencedEnum: by the configuration or by another
\* definition than the one itself.
Referenced(e, i) ==
    LET key == view[e].rows[i].key
    IN \/ SeenType(e) = key
       \/ \E d \in Seen(e) : d.id # i /\ key \in d.fields

Replaced(e, i, key, content) ==
    {d \in Seen(e) : d.id # i}
    \cup {[id |-> i, key |-> key, fields |-> content.fields, options |-> content.options]}

\* Ids are handed out in order.
Absent(table) == {i \in Ids : table[i].state = "absent"}

NextId(table) == Min(Absent(table))

\* The unique key (config_id, key) counts deleted rows too.
KeyTaken(i, key) == \E j \in Ids \ {i} : rows[j].state # "absent" /\ rows[j].key = key

\* The row a new definition takes: the deleted one of its key, or a new one.
RowFor(i, key) ==
    \/ rows[i].state = "deleted" /\ rows[i].key = key
    \/ /\ rows[i].state = "absent"
       /\ ~KeyTaken(i, key)
       /\ i = NextId(rows)

Create(e) ==
    /\ call[e].op = "create"
    /\ NewSchema(Seen(e) \cup {[id |-> 0, key |-> call[e].key, fields |-> call[e].content.fields,
                                options |-> call[e].content.options]})
    /\ \E i \in Ids :
          /\ RowFor(i, call[e].key)
          /\ rows[i].version < MaxVersion
          /\ rows' = [rows EXCEPT ![i] = RestoredRow(rows[i], call[e].key, call[e].content)]
    /\ End(e)
    /\ UNCHANGED config

\* structureForUpdate: the row still lives, and a key others use stays.
UpdateAllowed(e) ==
    /\ call[e].id \in Live(view[e].rows)
    /\ view[e].rows[call[e].id].key = call[e].key \/ ~Referenced(e, call[e].id)

\* The row the client's update leaves, one version later.
Updated(c) ==
    [state |-> "live", key |-> c.key, content |-> c.content, version |-> c.version + 1]

\* An update writes only over the version the client was shown.
Update(e) ==
    LET i == call[e].id
    IN /\ call[e].op = "update"
       /\ UpdateAllowed(e)
       /\ NewSchema(Replaced(e, i, call[e].key, call[e].content))
       /\ rows[i].state = "live"
       /\ rows[i].version = call[e].version
       /\ rows[i].version < MaxVersion
       /\ ~KeyTaken(i, call[e].key)
       /\ rows' = [rows EXCEPT ![i] = Updated(call[e])]
       /\ End(e)
       /\ UNCHANGED config

Deleted(row) ==
    [state |-> "deleted", key |-> row.key, content |-> row.content, version |-> row.version + 1]

Delete(e) ==
    LET i == call[e].id
    IN /\ call[e].op = "delete"
       /\ i \in Live(view[e].rows)
       /\ ~Referenced(e, i)
       /\ NewSchema({d \in Seen(e) : d.id # i})
       /\ rows[i].state = "live"
       /\ rows[i].version < MaxVersion
       /\ rows' = [rows EXCEPT ![i] = Deleted(rows[i])]
       /\ End(e)
       /\ UNCHANGED config

\* The draft value is left as it is, whether or not it fits the new type.
ConfigUpdate(e) ==
    /\ call[e].op = "type"
    /\ NewSchema(Seen(e))
    /\ validateType(Seen(e), call[e].type)
    /\ config.version = call[e].version
    /\ config.version < MaxVersion
    /\ config' = [config EXCEPT !.type = call[e].type, !.version = @ + 1]
    /\ End(e)
    /\ UNCHANGED rows

\* The value is judged by the definitions read under the lock.
ValueAccepted(e) == ValidateConfig(Seen(e), SeenType(e), call[e].value)

UpdateValue(e) ==
    /\ call[e].op = "value"
    /\ NewSchema(Seen(e))
    /\ ValueAccepted(e)
    /\ config.version = call[e].version
    /\ config.version < MaxVersion
    /\ config' = [config EXCEPT !.value = call[e].value, !.version = @ + 1]
    /\ End(e)
    /\ UNCHANGED rows

Desired == {d.key : d \in saved.definitions}

DesiredContent(key) == (CHOOSE d \in saved.definitions : d.key = key).content

Bug_KeepObsolete(table) ==
    [i \in Ids |-> IF table[i].key \in Desired /\ table[i].state # "absent"
                   THEN RestoredRow(table[i], table[i].key, DesiredContent(table[i].key))
                   ELSE table[i]]

\* reconcileItem and removeObsolete, on the rows whose key exists already:
\* rewritten and live again, or deleted.
Reconciled(table) ==
    [i \in Ids |->
        IF table[i].state # "absent" /\ table[i].key \in Desired
        THEN RestoredRow(table[i], table[i].key, DesiredContent(table[i].key))
        ELSE IF table[i].state = "live" THEN Deleted(table[i]) ELSE table[i]]

\* reconcileItem on the keys that have no row yet: new rows, in some order.
Missing(table) == {k \in Desired : \A i \in Ids : table[i].state = "absent" \/ table[i].key # k}

Placements(table) ==
    {ids \in Injection(Missing(table), Absent(table)) :
        \A i, j \in Absent(table) : i < j /\ j \in Range(ids) => i \in Range(ids)}

Inserted(table, ids) ==
    [i \in Ids |->
        IF i \in Range(ids)
        THEN LET key == CHOOSE k \in DOMAIN ids : ids[k] = i
             IN RestoredRow(NoRow, key, DesiredContent(key))
        ELSE table[i]]

\* loadSnapshot: the draft must be valid to be saved first; two writes of the
\* configuration row, then both reconciliations.
Load(e) ==
    /\ call[e].op = "load"
    /\ NewSchema(Seen(e))
    /\ ValidateConfig(Seen(e), SeenType(e), view[e].config.value)
    /\ config.version + 1 < MaxVersion
    /\ \A i \in Ids : rows[i].version < MaxVersion
    /\ config' = [type |-> saved.type, value |-> saved.value, version |-> config.version + 2]
    /\ \E ids \in Placements(rows) : rows' = Inserted(Reconciled(rows), ids)
    /\ End(e)

Next ==
    \E e \in Editors :
        \/ BeginCreate(e) \/ BeginUpdate(e) \/ BeginDelete(e)
        \/ BeginConfigUpdate(e) \/ BeginUpdateValue(e) \/ BeginLoad(e)
        \/ Lock(e) \/ RollBack(e)
        \/ Create(e) \/ Update(e) \/ Delete(e)
        \/ ConfigUpdate(e) \/ UpdateValue(e) \/ Load(e)

Spec == Init /\ [][Next]_vars

-----------------------------------------------------------------------------
(* Properties *)

\* Whatever two editors do at the same time, every key a live definition or
\* the configuration uses is defined once, and no structure contains itself
\* (entity.NewSchema, enforced at every write under the configuration lock).
SchemaSound ==
    LET defs == ListForConfig(rows)
    IN /\ \A c, d \in defs : c.key = d.key => c.id = d.id
       /\ Resolved(defs)
       /\ Acyclic(defs)
       /\ config.type \in BaseTypes \cup Defined(defs)

\* The structures FilterStructureChoices offers for a field of a structure are
\* exactly those that, used there, leave a schema the save accepts.
ChoicesExact ==
    LET defs == ListForConfig(rows)
    IN \A d \in defs :
          d.key \in StructureKeys =>
             FilterStructureChoices(defs, d.id) =
                {k \in Defined(defs) \cap StructureKeys :
                    NewSchema((defs \ {d}) \cup {[d EXCEPT !.fields = @ \cup {k}]})}

\* An update never overwrites what its author was not shown, even when the
\* definition was deleted and created again, or reloaded, in between.
NoLostEdit ==
    [][\A e \in Editors : Update(e) => rows[call[e].id] = call[e].base]_vars

\* After a load the definitions are those of the snapshot, no more and no less.
LoadRestores ==
    [][\A e \in Editors : Load(e) => ContentOf(rows') = saved.definitions]_vars
=============================================================================

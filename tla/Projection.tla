------------------------------- MODULE Projection -------------------------------
(* What --select, --compact and --agent make of a command's JSON before it is *)
(* printed, as operators on the values of ResponseShapes.                     *)
EXTENDS ResponseShapes

CONSTANT Spelled   \* Spelled[k]: the segments that name field k, lower and kebab case

(* envelopeMetadataArrayKeys: lists beside a list, never the list.            *)
SidecarKeys == {"errors", "Errors", "warnings", "Warnings"}

(* What a compact list keeps whatever its frequency, and drops all the same.  *)
HighGravity == {"id", "name", "title", "identifier", "code", "slug", "key", "status", "state",
    "type", "kind", "priority", "url", "email", "price", "amount", "cost", "fare", "rate",
    "currency", "rating", "score", "count", "language", "locale", "country", "region", "city",
    "domain", "created_at", "updated_at", "createdAt", "updatedAt", "date", "version"}
VerboseInLists == {"description", "body", "content", "comments", "attachments", "html",
    "markdown", "_links", "links"}
VerboseInObjects == {"description", "comments", "attachments"}

(* The envelopes an agent gets flattened.                                     *)
CollectionKeys == {"results", "data", "items", "nodes", "entries", "records"}

Null      == [tag |-> "null"]
IsNull(v) == v.tag = "null"

Only(obj, keys) == Obj([k \in keys |-> obj.fields[k]])

--------------------------------------------------------------------------------
(* --select: a set of paths, each a sequence of segments.                     *)

(* The segment of some path that names field k, the lower-case one first.     *)
Segment(k, heads) == SelectSeq(Spelled[k], LAMBDA s : s \in heads)

(* Besides the value: did a path end at a field, and was an empty list met    *)
(* where one might have, below a named field or only in an envelope.          *)
Outcome(value, matched, anchoredEmpty, looseEmpty) ==
    [value |-> value, matched |-> matched, anchoredEmpty |-> anchoredEmpty,
     looseEmpty |-> looseEmpty]

Joined(value, parts) ==
    LET Some(P(_)) == \E i \in DOMAIN parts : P(parts[i])
    IN  Outcome(value, Some(LAMBDA x : x.matched), Some(LAMBDA x : x.anchoredEmpty),
                Some(LAMBDA x : x.looseEmpty))

RECURSIVE Filter(_, _, _), Envelope(_, _)

(* An object none of whose fields is named, but with a list: the paths are    *)
(* about the items of its lists, and everything else stays.                   *)
Envelope(obj, paths) ==
    LET lists  == {k \in DOMAIN obj.fields \ SidecarKeys : IsArray(obj.fields[k])}
        nested == {k \in DOMAIN obj.fields \cap {"_embedded"} :
                      IsObject(obj.fields[k]) /\ Envelope(obj.fields[k], paths).found}
        part   == [k \in lists \cup nested |->
                      IF k \in lists THEN Filter(obj.fields[k], paths, FALSE)
                      ELSE Envelope(obj.fields[k], paths).outcome]
    IN  [found |-> lists \cup nested # {},
         outcome |-> Joined(Obj([k \in DOMAIN obj.fields |->
                        IF k \in DOMAIN part THEN part[k].value ELSE obj.fields[k]]), part)]

(* filterFieldsRec.  Go reads null as the empty list.                         *)
Filter(v, paths, anchored) ==
    CASE IsArray(v) \/ IsNull(v) ->
           LET items == IF IsNull(v) THEN <<>> ELSE v.items
               part  == [i \in DOMAIN items |-> Filter(items[i], paths, anchored)]
           IN  IF items = <<>> THEN Outcome(Arr(<<>>), FALSE, anchored, ~anchored)
               ELSE Joined(Arr([i \in DOMAIN items |-> part[i].value]), part)
      [] IsObject(v) ->
           LET heads == {p[1] : p \in paths}
               whole == {p[1] : p \in {q \in paths : Len(q) = 1}}
               Subs(s) == {Tail(p) : p \in {q \in paths : q[1] = s /\ Len(q) > 1}}
               named == {k \in DOMAIN v.fields : Segment(k, heads) # <<>>}
               part  == [k \in named |-> LET s == Segment(k, heads)[1] IN
                            IF s \in whole THEN Outcome(v.fields[k], TRUE, FALSE, FALSE)
                            ELSE Filter(v.fields[k], Subs(s), TRUE)]
               env   == Envelope(v, paths)
           IN  IF named = {} /\ env.found THEN env.outcome
               ELSE Joined(Obj([k \in named |-> part[k].value]), part)
      [] OTHER -> Outcome(v, FALSE, FALSE, FALSE)

(* filterFields: a selector that meets nothing leaves everything.             *)
Selected(v, paths) ==
    LET f == Filter(v, paths, TRUE)
    IN  IF f.matched \/ f.anchoredEmpty \/ f.looseEmpty THEN f.value ELSE v

(* The paths it warns about on stderr, each tried alone.                      *)
Warned(v, paths) ==
    {p \in paths : LET f == Filter(v, {p}, TRUE)
                   IN  ~f.matched /\ ~f.anchoredEmpty /\ ~(paths = {p} /\ f.looseEmpty)}

--------------------------------------------------------------------------------
(* --compact.                                                                 *)

(* Four rows in five, and never all of two rows or more.                      *)
Often(n) == LET most == (n * 4 + 4) \div 5 IN IF n >= 2 /\ most > n - 1 THEN n - 1 ELSE most

FieldsOf(item) == IF IsNull(item) THEN {} ELSE DOMAIN item.fields

CompactListFields(items) ==
    LET frequent == {k \in UNION {FieldsOf(items[i]) : i \in DOMAIN items} \ VerboseInLists :
                        Cardinality({i \in DOMAIN items : k \in FieldsOf(items[i])})
                            >= Often(Len(items))}
        Kept(item) == FieldsOf(item) \cap (HighGravity \cup frequent)
    IN  [i \in DOMAIN items |-> IF Kept(items[i]) = {} THEN items[i]
                                ELSE Only(items[i], Kept(items[i]))]

AllObjects(items) == \A i \in DOMAIN items : IsObject(items[i])

RECURSIVE CompactEnvelope(_)

(* <<>> for an object without a list of objects.                              *)
CompactEnvelope(obj) ==
    LET kept   == DOMAIN obj.fields \ VerboseInObjects
        lists  == {k \in kept \ SidecarKeys :
                      NonEmpty(obj.fields[k]) /\ AllObjects(obj.fields[k].items)}
        nested == {k \in kept \cap {"_embedded"} :
                      IsObject(obj.fields[k]) /\ CompactEnvelope(obj.fields[k]) # <<>>}
    IN  IF lists \cup nested = {} THEN <<>>
        ELSE << Obj([k \in kept |->
                    IF k \in lists THEN Arr(CompactListFields(obj.fields[k].items))
                    ELSE IF k \in nested THEN CompactEnvelope(obj.fields[k])[1]
                    ELSE obj.fields[k]]) >>

CompactObjectFields(obj) ==
    IF CompactEnvelope(obj) # <<>> THEN CompactEnvelope(obj)[1]
    ELSE Only(obj, DOMAIN obj.fields \ VerboseInObjects)

CompactFields(v) ==
    CASE IsNull(v) -> Arr(<<>>)
      [] IsArray(v) /\ \A i \in DOMAIN v.items : IsObject(v.items[i]) \/ IsNull(v.items[i])
           -> Arr(CompactListFields(v.items))
      [] IsObject(v) -> CompactObjectFields(v)
      [] OTHER -> v

--------------------------------------------------------------------------------
(* --agent, and the order of it all.                                          *)

UnwrapSingleKeyArray(v) ==
    IF IsObject(v) /\ \E k \in CollectionKeys : DOMAIN v.fields = {k} /\ IsArray(v.fields[k])
    THEN v.fields[CHOOSE k \in DOMAIN v.fields : TRUE] ELSE v

WrapAgentOutput(v, source) ==
    Obj([meta |-> Obj([source |-> Text(source)]),
         results |-> IF source = "live" THEN UnwrapSingleKeyArray(v) ELSE v])

(* printOutputWithFlagsMeta: a selection is not compacted.                    *)
Printed(v, flags, source) ==
    LET chosen == CASE flags.select # {} -> Selected(v, flags.select)
                    [] flags.select = {} /\ flags.compact -> CompactFields(v)
                    [] OTHER -> v
    IN  IF flags.agent THEN WrapAgentOutput(chosen, source) ELSE chosen
=================================================================================

----------------------------- MODULE ResponseShapes -----------------------------
(* What of an API response is worth a row of the resources table: the shapes  *)
(* writeThroughCache tells apart, and the ids UpsertBatch finds in the items. *)
(* A JSON value is an object, an array or a text; numbers, booleans and null  *)
(* take part only as what they are not.                                       *)
EXTENDS Sequences, Naturals, FiniteSets

CONSTANTS
    WrapperKeys,    \* sequence: keys that wrap a list, first match first
    NestedKeys,     \* sequence: keys that wrap an envelope of their own
    MetadataKeys,   \* keys that only describe a list (pages, counts, status)
    IdKeys          \* sequence: genericIDFieldFallbacks, then theater_id and its like

Keys(seq) == {seq[k] : k \in 1 .. Len(seq)}

Obj(fields) == [tag |-> "object", fields |-> fields]
Arr(items)  == [tag |-> "array", items |-> items]
Text(s)     == [tag |-> "text", text |-> s]

IsObject(v) == v.tag = "object"
IsArray(v)  == v.tag = "array"
NonEmpty(v) == IsArray(v) /\ v.items # <<>>

(* Of the keys of a sequence the first that holds for the object, if any.     *)
FirstKey(seq, Holds(_)) ==
    LET hits == {k \in 1 .. Len(seq) : Holds(seq[k])}
    IN  IF hits = {} THEN <<>> ELSE <<seq[CHOOSE k \in hits : \A j \in hits : k <= j]>>

(* Which arrays count: where empties holds, the empty ones too.               *)
Accepted(v, empties) == IF empties THEN IsArray(v) ELSE NonEmpty(v)

(* A list found is <<items>>, none is <<>>.                                   *)
WrappedList(obj, empties) ==
    LET IsList(k) == k \in DOMAIN obj.fields /\ Accepted(obj.fields[k], empties)
        key       == FirstKey(WrapperKeys, IsList)
    IN  IF key = <<>> THEN <<>> ELSE <<obj.fields[key[1]].items>>

(* The only array next to metadata, whatever its key; an array of texts is    *)
(* passed over, any other value makes the object a resource of its own.       *)
OnlyArray(obj, empties) ==
    LET rest  == DOMAIN obj.fields \ MetadataKeys
        lists == {k \in rest : LET v == obj.fields[k]
                               IN  v.items = <<>> \/ IsObject(v.items[1])}
    IN  IF (\A k \in rest : Accepted(obj.fields[k], empties)) /\ Cardinality(lists) = 1
        THEN <<obj.fields[CHOOSE k \in lists : TRUE].items>> ELSE <<>>

ListIn(obj, empties) ==
    LET wrapped == WrappedList(obj, empties)
    IN  IF wrapped # <<>> THEN wrapped ELSE OnlyArray(obj, empties)

(* extractWriteThroughListItems: an empty list counts only one level down.    *)
ListItems(obj) ==
    LET wrapped == WrappedList(obj, FALSE)
        IsEnvelope(k) == /\ k \in DOMAIN obj.fields /\ IsObject(obj.fields[k])
                         /\ ListIn(obj.fields[k], TRUE) # <<>>
        nested  == FirstKey(NestedKeys, IsEnvelope)
    IN  CASE wrapped # <<>> -> wrapped
          [] wrapped = <<>> /\ nested # <<>> -> ListIn(obj.fields[nested[1]], TRUE)
          [] OTHER -> OnlyArray(obj, FALSE)

(* An empty page: a wrapper with an array and otherwise metadata only.        *)
LooksLikeListEnvelope(obj) ==
    /\ \E k \in DOMAIN obj.fields \cap Keys(WrapperKeys) : IsArray(obj.fields[k])
    /\ DOMAIN obj.fields \subseteq MetadataKeys

(* The items writeThroughCache hands to UpsertBatch.                          *)
Items(v) ==
    CASE NonEmpty(v) -> v.items
      [] IsObject(v) /\ DOMAIN v.fields # {} ->
            LET list == ListItems(v)
            IN  IF list # <<>> THEN list[1]
                ELSE IF LooksLikeListEnvelope(v) THEN <<>> ELSE <<v>>
      [] OTHER -> <<>>

(* ExtractResourceID, "" for none.                                            *)
ResourceId(obj) ==
    LET Names(k) == k \in DOMAIN obj.fields /\ obj.fields[k].tag = "text"
                                             /\ obj.fields[k].text # ""
        key == FirstKey(IdKeys, Names)
    IN  IF key = <<>> THEN "" ELSE obj.fields[key[1]].text

(* An item without an id gives way to its one object field, if that has one.  *)
Unwrapped(obj) ==
    LET inner == {k \in DOMAIN obj.fields : IsObject(obj.fields[k])}
    IN  IF Cardinality(inner) = 1 THEN obj.fields[CHOOSE k \in inner : TRUE] ELSE obj

(* The rows UpsertBatch writes, in order: items that are no objects, or have  *)
(* no id, are skipped.                                                        *)
Row(item) == IF ResourceId(item) # "" THEN item ELSE Unwrapped(item)
Rows(items) ==
    LET rows == [k \in 1 .. Len(items) |-> IF IsObject(items[k]) THEN Row(items[k]) ELSE items[k]]
        Storable(v) == IsObject(v) /\ ResourceId(v) # ""
    IN  SelectSeq(rows, Storable)
=================================================================================

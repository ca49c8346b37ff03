-------------------------- MODULE MCSchemaMigration --------------------------
(* Instances of SchemaMigration for TLC: p1 and p2 run this binary, p3 the    *)
(* next one.                                                                  *)
EXTENDS SchemaMigration

CONSTANTS p1, p2, p3

MCProcs  == {p1, p2, p3}
MCTarget == [p \in MCProcs |-> IF p = p3 THEN StoreSchemaVersion + 1 ELSE StoreSchemaVersion]
==============================================================================

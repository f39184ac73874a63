------------------------------- MODULE MCSchema -------------------------------
(* Schema for TLC: two base tables and two migrations, the second of which *)
(* adds an index as 004_instance_sweep.mysql.sql does.                     *)
EXTENDS Schema, TLC

MCBase == <<"users", "naming_instance">>
MCVersions == {2, 4}

Guarded(object) == [object |-> object, guarded |-> TRUE]

MCTables == <<Guarded("application"), Guarded("route_binding")>>

MCMySQL == (2 :> MCTables) @@ (4 :> <<[object |-> "idx_instance_sweep", guarded |-> FALSE]>>)
=============================================================================

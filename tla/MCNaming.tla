------------------------------- MODULE MCNaming -------------------------------
(* Naming for TLC: one ephemeral and one persistent configuration, clocks  *)
(* that agree or are one unit apart.                                       *)
EXTENDS Naming, TLC

CONSTANTS n1, n2

MCConfs == { [ephemeral |-> TRUE, data |-> "a"], [ephemeral |-> FALSE, data |-> "b"] }

MCExact == [n \in Nodes |-> 0]

MCSkewed == (n1 :> 0) @@ (n2 :> 1)

(* A beat that misses goes through all of register, and createService      *)
(* through updateService.                                                  *)
MCOps == { o \in Operations :
             /\ o.kind # "updateService"
             /\ o.kind = "beat" => o.conf.ephemeral
             /\ o.kind = "register" => ~o.conf.ephemeral }

Symmetry == Permutations(Endpoints) \cup Permutations(Requests)
=============================================================================

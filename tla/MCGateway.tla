------------------------------- MODULE MCGateway -------------------------------
(* Gateway for TLC: two components of one service, one of them in a        *)
(* cluster, and three instances, one of them a stand-by on another port.   *)
EXTENDS Gateway, TLC

MCComponents == {
    [name |-> "api", rank |-> 1, service |-> "s", cluster |-> None, alg |-> "least_conn",
     port |-> None, delivery |-> "proxy"],
    [name |-> "web", rank |-> 2, service |-> "s", cluster |-> "east", alg |-> "round_robin",
     port |-> 80, delivery |-> "auto"] }

MCRoutes == {
    [domain |-> "d", prefix |-> << >>, priority |-> 1, comp |-> "web"],
    [domain |-> "d", prefix |-> <<"api">>, priority |-> 1, comp |-> "api"] }

MCInstance(addr, rank, port, cluster, weight, role) ==
    [addr |-> addr, rank |-> rank, port |-> port, service |-> "s", cluster |-> cluster,
     enabled |-> TRUE, weight |-> weight, role |-> role, lane |-> None]

MCInstances == {
    MCInstance("a1", 1, 80, "east", 0, "primary"),
    MCInstance("a2", 2, 80, "east", 5, "primary"),
    MCInstance("a3", 3, 81, "west", 1, "backup") }

MCPolicy(force, deny, websocket) ==
    [force |-> force, allow |-> {}, deny |-> deny, websocket |-> websocket, maxBody |-> 0, blocked |-> {}]

MCPolicies == { MCPolicy(TRUE, {}, TRUE), MCPolicy(FALSE, {"c"}, TRUE), MCPolicy(FALSE, {}, FALSE) }
MCDefaultPolicy == [MCPolicy(FALSE, {}, TRUE) EXCEPT !.maxBody = 1, !.blocked = {<<"git">>}]

MCKind(secure, path, upgrade, body) ==
    [secure |-> secure, domain |-> "d", path |-> path, client |-> "c", cookie |-> None,
     lane |-> None, upgrade |-> upgrade, body |-> body]

MCKinds == { MCKind(TRUE, <<"api", "x">>, FALSE, 0),
             MCKind(FALSE, << >>, TRUE, 1) }

MCHashIndex == [k \in {"c"} |-> 7]

Symmetry == Permutations(Requests)
=============================================================================

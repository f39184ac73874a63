---------------------------- MODULE GatewayRouting ----------------------------
(***************************************************************************)
(* The pure part of the gateway (internal/gateway): how a routing table    *)
(* resolves a request to instances (routetable.go, storage/portpool.go),   *)
(* whom a domain's policy admits (policy.go, security.go), and how one     *)
(* instance is picked (lb.go).                                             *)
(*                                                                         *)
(* A path is a sequence of segments, so that a prefix ends at a segment.   *)
(* Names have a rank, which stands for the order of the strings.  The      *)
(* group is part of the service's name.  Weights are integers.             *)
(***************************************************************************)
EXTENDS Integers, FiniteSets, Sequences, SequencesExt, FiniteSetsExt

CONSTANTS
    Components,     \* [name, rank, service, cluster, alg, port, delivery]: see TypeAssumption
    Routes,         \* [domain, prefix, priority, comp]
    Instances,      \* [addr, rank, port, service, cluster, enabled, weight, role, lane]
    Policies,       \* the rows of gateway_vhost that the model uses
    DefaultPolicy,  \* what the process is configured with
    None,           \* no policy row, no lane, no cluster, no port
    HashIndex       \* FNV-1a of a sticky key, before the modulo

Addrs == { i.addr : i \in Instances }
Algorithms == {"round_robin", "least_conn", "ip_hash", "cookie_sticky"}

ASSUME RoutingAssumption ==
    /\ \A c \in Components :
          /\ {c.rank} \subseteq Nat /\ c.alg \in Algorithms
          /\ c.delivery \in {"proxy", "static", "auto"}
    /\ IsFiniteSet(Routes) /\ IsFiniteSet(Instances)
    /\ \A r \in Routes : /\ r.comp \in { c.name : c \in Components } /\ r.priority \in Int
                         /\ Len(r.prefix) \in Nat
    /\ \A i \in Instances : /\ {i.weight, i.rank} \subseteq Int /\ i.enabled \in BOOLEAN
                            /\ i.role \in {"primary", "backup"}
    /\ \A i, j \in Instances : i.addr = j.addr \/ i.rank = j.rank => i = j
    /\ \A p \in Policies \cup {DefaultPolicy} : p.websocket \in BOOLEAN
    /\ {"force", "websocket", "allow", "deny", "maxBody"} \subseteq DOMAIN DefaultPolicy
    /\ \A c, d \in Components : c.name = d.name => c = d

Component(name) == CHOOSE c \in Components : c.name = name
Instance(addr) == CHOOSE i \in Instances : i.addr = addr

-----------------------------------------------------------------------------
(***************************************************************************)
(* The snapshot: the entries of a domain in order, the instances of a      *)
(* service, the policy of a domain.                                        *)
(***************************************************************************)

(* A route to a component that does not exist is dropped.                  *)
Entries(routes, comps) == { r \in routes : r.comp \in comps }

(* Longest prefix first, then the lower priority, then the component name. *)
RouteBefore(r, s) ==
    \/ Len(r.prefix) > Len(s.prefix)
    \/ Len(r.prefix) = Len(s.prefix) /\ r.priority < s.priority
    \/ Len(r.prefix) = Len(s.prefix) /\ r.priority = s.priority
       /\ Component(r.comp).rank < Component(s.comp).rank

(* ListInstances of one component's cluster, healthy ones only.            *)
Healthy(healthy, c) ==
    { i \in healthy : i.service = c.service /\ (c.cluster = None \/ i.cluster = c.cluster) }

(* Refresh asks once for a service, with the cluster of the component that *)
(* it comes to first: the domains are visited in the order of a Go map.    *)
ServiceLoads(entries, healthy) ==
    LET served == { Component(r.comp) : r \in entries }
        names == { c.service : c \in served }
        leaders == { f \in [names -> served] : \A s \in names : f[s].service = s }
    IN  { [s \in names |-> Healthy(healthy, f[s])] : f \in leaders }

NoTable == [entries |-> {}, services |-> << >>, vhosts |-> << >>]

Domains(table) == { r.domain : r \in table.entries }

-----------------------------------------------------------------------------
(***************************************************************************)
(* The instances that a component forwards to.                             *)
(***************************************************************************)

InstanceBefore(i, j) ==
    i.weight > j.weight \/ (i.weight = j.weight /\ i.rank < j.rank)

(* In the place n is the one that n - 1 others come before.                *)
SortInstances(instances) ==
    [n \in 1..Cardinality(instances) |->
        CHOOSE i \in instances : Cardinality({ j \in instances : InstanceBefore(j, i) }) = n - 1]

(* The instances of the component's cluster that are enabled.              *)
SelectInstances(instances, c) ==
    { i \in instances :
        i.enabled /\ (c.cluster = None \/ i.cluster = None \/ i.cluster = c.cluster) }

DropBackupsWhenPrimaryExists(instances) ==
    LET primaries == { i \in instances : i.role # "backup" }
    IN  IF primaries = {} THEN instances ELSE primaries

SelectPortPool(instances, declared) ==
    IF declared = None THEN instances ELSE { i \in instances : i.port = declared }

(* more ports than one, or another port than the declared one              *)
PortConflict(instances, declared) ==
    LET ports == { i.port : i \in instances }
    IN  instances # {} /\ (Cardinality(ports) > 1 \/ (declared # None /\ ports # {declared}))

FilterInstancesByMeta(instances, lane) ==
    IF lane = None THEN instances ELSE { i \in instances : i.lane = lane }

ServiceInstances(table, c) ==
    IF c.service \in DOMAIN table.services THEN table.services[c.service] ELSE {}

(* selectForwardable, then the lane that the request asks for.             *)
Forwardable(table, c, lane) ==
    LET eligible == SelectInstances(ServiceInstances(table, c), c)
        pool == SelectPortPool(DropBackupsWhenPrimaryExists(eligible), c.port)
    IN  SortInstances(FilterInstancesByMeta(pool, lane))

PathPrefixMatches(prefix, path) == IsPrefix(prefix, path)

(* The entries of the domain that match, and the first of them in order.   *)
Hits(table, domain, path) ==
    { r \in table.entries : r.domain = domain /\ PathPrefixMatches(r.prefix, path) }

FirstHit(hits) == CHOOSE r \in hits : \A s \in hits : ~RouteBefore(s, r)

(* The target of that entry, or None.                                      *)
Lookup(table, domain, path, lane) ==
    LET hits == Hits(table, domain, path)
        c == Component(FirstHit(hits).comp)
    IN  IF hits = {} THEN None
        ELSE [comp |-> c.name,
              instances |-> Forwardable(table, c, lane),
              conflict |-> PortConflict(SelectInstances(ServiceInstances(table, c), c), c.port)]

(* allTargets and liveAddresses: stand-bys and other ports included.       *)
LiveAddresses(table) ==
    { i.addr : i \in UNION { SelectInstances(ServiceInstances(table, Component(r.comp)), Component(r.comp))
                             : r \in table.entries } }

(* A target's counters belong to its component.                            *)
TargetKeys(table) == { r.comp : r \in table.entries }

-----------------------------------------------------------------------------
(***************************************************************************)
(* Admission.                                                              *)
(***************************************************************************)

VHost(table, domain) ==
    IF domain \in DOMAIN table.vhosts THEN table.vhosts[domain] ELSE None

(* A row replaces force and websocket, and brings its own lists; a limit   *)
(* of 0 keeps the default.                                                 *)
ResolvePolicy(row) ==
    IF row = None THEN DefaultPolicy
    ELSE [DefaultPolicy EXCEPT !.force = row.force, !.websocket = row.websocket,
                               !.allow = row.allow, !.deny = row.deny,
                               !.maxBody = IF row.maxBody > 0 THEN row.maxBody ELSE @]

(* Deny first; an address that cannot be read is matched by no rule.       *)
Allowed(pol, client) ==
    IF client = None THEN pol.allow = {}
    ELSE client \notin pol.deny /\ (pol.allow = {} \/ client \in pol.allow)

Admits(pol, client, path) ==
    /\ path \notin pol.blocked
    /\ (pol.allow = {} /\ pol.deny = {}) \/ Allowed(pol, client)

-----------------------------------------------------------------------------
(***************************************************************************)
(* Picking.                                                                *)
(***************************************************************************)

WeightOf(i) == IF i.weight <= 0 THEN 1 ELSE i.weight

WeightSums(instances) ==
    LET sum[n \in 0..Len(instances)] == IF n = 0 THEN 0 ELSE sum[n - 1] + WeightOf(instances[n])
    IN  sum

TotalWeight(instances) == WeightSums(instances)[Len(instances)]

(* Every candidate gains its weight, and the first of the highest ones is  *)
(* picked.                                                                 *)
Gained(current, instances) ==
    [a \in DOMAIN current |->
        IF a \in { i.addr : i \in Range(instances) } THEN current[a] + WeightOf(Instance(a)) ELSE current[a]]

FirstHighest(current, instances) ==
    Min({ n \in DOMAIN instances :
            \A m \in DOMAIN instances : current[instances[m].addr] <= current[instances[n].addr] })

(* A faulty pickRoundRobin, for the sensitivity checks: the winner gives   *)
(* back its own weight.                                                    *)
PickRoundRobinOwnWeight(current, instances) ==
    LET gained == Gained(current, instances)
        best == instances[FirstHighest(gained, instances)]
    IN  [instance |-> best, current |-> [gained EXCEPT ![best.addr] = @ - WeightOf(best)]]

(* Smooth weighted round robin: the winner gives back the total.           *)
PickRoundRobin(current, instances) ==
    LET gained == Gained(current, instances)
        best == instances[FirstHighest(gained, instances)]
    IN  [instance |-> best, current |-> [gained EXCEPT ![best.addr] = @ - TotalWeight(instances)]]

(* The fewest requests in flight, then the higher weight, then the first.  *)
PickLeastConn(inflight, instances) ==
    LET better(i, j) == \/ inflight[i.addr] < inflight[j.addr]
                        \/ inflight[i.addr] = inflight[j.addr] /\ WeightOf(i) > WeightOf(j)
    IN  instances[Min({ n \in DOMAIN instances :
                          \A m \in DOMAIN instances : ~better(instances[m], instances[n]) })]

PickHashed(sticky, instances) == instances[(HashIndex[sticky] % Len(instances)) + 1]

(* A round: as many round robin picks as the weights sum up to, and how    *)
(* often each address was picked.                                          *)
CountedPick(x, instances) ==
    LET p == PickRoundRobin(x.current, instances)
    IN  [current |-> p.current, got |-> [x.got EXCEPT ![p.instance.addr] = @ + 1]]

Round(current, instances) ==
    LET run[t \in 0..TotalWeight(instances)] ==
            IF t = 0 THEN [current |-> current, got |-> [a \in Addrs |-> 0]]
            ELSE CountedPick(run[t - 1], instances)
    IN  run

=============================================================================

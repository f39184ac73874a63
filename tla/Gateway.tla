-------------------------------- MODULE Gateway --------------------------------
(***************************************************************************)
(* The data plane (internal/gateway: gateway.go, proxy.go, lb.go,          *)
(* routetable.go): concurrent requests, each admitted, routed and          *)
(* forwarded with failover, while the routing table is reloaded by the     *)
(* timer and by the management API, and the database changes.              *)
(*                                                                         *)
(* An action is what happens under one lock, or between two.  What an      *)
(* instance answers, whether a file exists and whether a query fails are   *)
(* nondeterministic.                                                       *)
(***************************************************************************)
EXTENDS GatewayRouting

CONSTANTS
    Requests,       \* the requests of the behaviour
    Kinds,          \* what a request may be: see KindAssumption
    Refreshers,     \* the timer and the API calls that reload the table
    Stable,         \* names of routed components whose routes are never changed
    MaxAttempts,    \* const maxAttempts
    MaxChanges      \* bound: changes of the database

ASSUME KindAssumption ==
    /\ MaxAttempts \in Nat \ {0} /\ MaxChanges \in Nat
    /\ IsFiniteSet(Requests) /\ Stable \subseteq { r.comp : r \in Routes }
    /\ \A k \in Kinds : /\ {k.secure, k.upgrade} \subseteq BOOLEAN /\ k.body \in Nat
                        /\ HashIndex[k.client] \in Nat
                        /\ k.cookie # None => HashIndex[k.cookie] \in Nat

VARIABLES
    db,         \* the tables: routes, component names, healthy instances, vhosts
    changes,    \* how often db has changed
    table,      \* Gateway.table
    refresh,    \* [Refreshers -> ...] a reload in progress
    picker,     \* Picker.stats
    pool,       \* the keys of transportPool.entries
    req,        \* [Requests -> ...]
    aborted,    \* requests whose handler panicked, by target and address
    up          \* the listeners accept requests

vars == <<db, changes, table, refresh, picker, pool, req, aborted, up>>

Names == { c.name : c \in Components }
NoState == [lb |-> "none"]
FreshState == [lb |-> "state", current |-> [a \in Addrs |-> 0], inflight |-> [a \in Addrs |-> 0]]
NewRequest == [pc |-> "new"]
Idle == [pc |-> "idle"]

(* serving a and not yet returned, for target k                            *)
Open(k, a) == { q \in Requests : req[q].pc = "serving" /\ req[q].target.comp = k /\ req[q].upstream = a }

TypeOK ==
    /\ db.routes \subseteq Routes /\ db.comps \subseteq Names /\ db.healthy \subseteq Instances
    /\ changes \in 0..MaxChanges
    /\ table.entries \subseteq Routes
    /\ \A s \in DOMAIN table.services : table.services[s] \subseteq Instances
    /\ \A k \in Names : picker[k] # NoState =>
          picker[k].inflight \in [Addrs -> 0..Cardinality(Requests)] /\ picker[k].current \in [Addrs -> Int]
    /\ pool \subseteq [addr : Addrs, websocket : BOOLEAN]
    /\ \A q \in Requests : req[q].pc \in {"new", "dispatch", "lookup", "pick", "send", "serving", "done"}
    /\ aborted \in [Names -> [Addrs -> Nat]]
    /\ up \in BOOLEAN

(* New loads the table or refuses to start.                                *)
Init ==
    /\ db = [routes |-> Routes, comps |-> Names, healthy |-> Instances, vhosts |-> << >>]
    /\ changes = 0
    /\ \E services \in ServiceLoads(Routes, Instances) :
          table = [entries |-> Routes, services |-> services, vhosts |-> << >>]
    /\ refresh = [p \in Refreshers |-> Idle]
    /\ picker = [k \in Names |-> NoState]
    /\ pool = {}
    /\ req = [q \in Requests |-> NewRequest]
    /\ aborted = [k \in Names |-> [a \in Addrs |-> 0]]
    /\ up = TRUE

-----------------------------------------------------------------------------
(***************************************************************************)
(* The database: routes, components, registrations and policies change.    *)
(***************************************************************************)

Toggle(set, e) == IF e \in set THEN set \ {e} ELSE set \cup {e}

Changed == changes < MaxChanges /\ changes' = changes + 1
ChangeRest == <<table, refresh, picker, pool, req, aborted, up>>

(* an operator declares or removes a route ...                             *)
ChangeRoute ==
    /\ Changed
    /\ \E r \in Routes : r.comp \notin Stable /\ db' = [db EXCEPT !.routes = Toggle(@, r)]
    /\ UNCHANGED ChangeRest

(* ... or a component, ...                                                 *)
ChangeComponent ==
    /\ Changed
    /\ \E k \in Names \ Stable : db' = [db EXCEPT !.comps = Toggle(@, k)]
    /\ UNCHANGED ChangeRest

(* ... or writes the policy of a domain; ...                               *)
ChangePolicy ==
    /\ Changed
    /\ \E d \in { r.domain : r \in Routes }, p \in Policies :
          db' = [db EXCEPT !.vhosts = [e \in DOMAIN @ \cup {d} |-> IF e = d THEN p ELSE @[e]]]
    /\ UNCHANGED ChangeRest

(* ... an instance comes or falls silent: module Naming has the detail.    *)
ChangeHealth ==
    /\ Changed
    /\ \E i \in Instances : db' = [db EXCEPT !.healthy = Toggle(@, i)]
    /\ UNCHANGED ChangeRest

-----------------------------------------------------------------------------
(***************************************************************************)
(* refresh: Table.Refresh query by query, the swap, prune and Forget.      *)
(***************************************************************************)

RefreshRoutes(p) ==
    /\ refresh[p].pc = "idle" /\ up
    /\ refresh' = [refresh EXCEPT ![p] = [pc |-> "routes", routes |-> db.routes]]
    /\ UNCHANGED <<db, changes, table, picker, pool, req, aborted, up>>

(* applications, virtual hosts, components                                 *)
RefreshComponents(p) ==
    /\ refresh[p].pc = "routes"
    /\ refresh' = [refresh EXCEPT ![p] = [pc |-> "components", vhosts |-> db.vhosts,
                                          entries |-> Entries(refresh[p].routes, db.comps)]]
    /\ UNCHANGED <<db, changes, table, picker, pool, req, aborted, up>>

RefreshInstances(p) ==
    /\ refresh[p].pc = "components"
    /\ \E services \in ServiceLoads(refresh[p].entries, db.healthy) :
          refresh' = [refresh EXCEPT ![p] =
              [pc |-> "loaded", entries |-> @.entries, vhosts |-> @.vhosts, services |-> services]]
    /\ UNCHANGED <<db, changes, table, picker, pool, req, aborted, up>>

(* A faulty RefreshFails, for the sensitivity checks: the table is emptied *)
(* first.                                                                  *)
RefreshFailsEmpty(p) ==
    /\ refresh[p].pc \in {"routes", "components"}
    /\ refresh' = [refresh EXCEPT ![p] = Idle]
    /\ table' = NoTable
    /\ UNCHANGED <<db, changes, picker, pool, req, aborted, up>>

(* A query fails: the table stays, and nothing is pruned.                  *)
RefreshFails(p) ==
    /\ refresh[p].pc \in {"routes", "components"}
    /\ refresh' = [refresh EXCEPT ![p] = Idle]
    /\ UNCHANGED <<db, changes, table, picker, pool, req, aborted, up>>

RefreshSwap(p) ==
    /\ refresh[p].pc = "loaded"
    /\ table' = [entries |-> refresh[p].entries, services |-> refresh[p].services,
                 vhosts |-> refresh[p].vhosts]
    /\ refresh' = [refresh EXCEPT ![p] = [pc |-> "prune"]]
    /\ UNCHANGED <<db, changes, picker, pool, req, aborted, up>>

RefreshPrune(p) ==
    /\ refresh[p].pc = "prune"
    /\ pool' = { e \in pool : e.addr \in LiveAddresses(table) }
    /\ refresh' = [refresh EXCEPT ![p] = [pc |-> "keys"]]
    /\ UNCHANGED <<db, changes, table, picker, req, aborted, up>>

(* A faulty RefreshKeys, for the sensitivity checks: the domains.          *)
RefreshKeysDomains(p) ==
    /\ refresh[p].pc = "keys"
    /\ refresh' = [refresh EXCEPT ![p] = [pc |-> "forget", live |-> Domains(table)]]
    /\ UNCHANGED <<db, changes, table, picker, pool, req, aborted, up>>

RefreshKeys(p) ==
    /\ refresh[p].pc = "keys"
    /\ refresh' = [refresh EXCEPT ![p] = [pc |-> "forget", live |-> TargetKeys(table)]]
    /\ UNCHANGED <<db, changes, table, picker, pool, req, aborted, up>>

(* Forget drops the whole state of the others, requests in flight or not.  *)
RefreshForget(p) ==
    /\ refresh[p].pc = "forget"
    /\ picker' = [k \in Names |-> IF k \in refresh[p].live THEN picker[k] ELSE NoState]
    /\ refresh' = [refresh EXCEPT ![p] = Idle]
    /\ UNCHANGED <<db, changes, table, pool, req, aborted, up>>

-----------------------------------------------------------------------------
(***************************************************************************)
(* A request up to its target.                                             *)
(***************************************************************************)

Done(q, answer) == [req EXCEPT ![q] = [pc |-> "done", answer |-> answer]]

(* HTTPServe judges by the policy first; TLSServe goes on to dispatch.     *)
Arrive(q) ==
    /\ req[q].pc = "new" /\ up
    /\ \E k \in Kinds :
          LET pol == ResolvePolicy(VHost(table, k.domain))
          IN  req' = IF k.secure \/ (Admits(pol, k.client, k.path) /\ ~pol.force)
                        THEN [req EXCEPT ![q] = [pc |-> "dispatch", kind |-> k]]
                     ELSE Done(q, IF Admits(pol, k.client, k.path) THEN "redirect" ELSE "rejected")
    /\ UNCHANGED <<db, changes, table, refresh, picker, pool, aborted, up>>

(* dispatch reads the policy again.                                        *)
Dispatch(q) ==
    /\ req[q].pc = "dispatch"
    /\ LET k == req[q].kind
           pol == ResolvePolicy(VHost(table, k.domain))
       IN  req' = IF Admits(pol, k.client, k.path)
                     THEN [req EXCEPT ![q] = [pc |-> "lookup", kind |-> k, pol |-> pol]]
                  ELSE Done(q, "rejected")
    /\ UNCHANGED <<db, changes, table, refresh, picker, pool, aborted, up>>

Forwarding(q, target) ==
    [req EXCEPT ![q] = [pc |-> "pick", kind |-> @.kind, pol |-> @.pol, target |-> target,
                        tried |-> {}, attempt |-> 0, written |-> FALSE]]

(* Lookup, the last checks, static delivery, or the start of Forward.  A   *)
(* static component is served from disk when its directory is there.       *)
Route(q) ==
    /\ req[q].pc = "lookup"
    /\ LET k == req[q].kind
           pol == req[q].pol
           target == Lookup(table, k.domain, k.path, k.lane)
       IN  \/ target = None /\ req' = Done(q, "noRoute")
           \/ /\ target # None
              /\ IF ~k.secure /\ pol.force THEN req' = Done(q, "redirect")
                 ELSE IF pol.maxBody > 0 /\ k.body > pol.maxBody THEN req' = Done(q, "tooLarge")
                 ELSE \/ Component(target.comp).delivery # "proxy" /\ req' = Done(q, "static")
                      \/ /\ Component(target.comp).delivery # "static"
                         /\ req' = IF target.instances = << >>
                                      THEN Done(q, IF target.conflict THEN "portConflict" ELSE "noInstance")
                                   ELSE Forwarding(q, target)
    /\ UNCHANGED <<db, changes, table, refresh, picker, pool, aborted, up>>

-----------------------------------------------------------------------------
(***************************************************************************)
(* Forward.                                                                *)
(***************************************************************************)

State(k) == IF picker[k] = NoState THEN FreshState ELSE picker[k]

(* A faulty Candidates, for the sensitivity checks: every instance again.  *)
CandidatesAll(q) == req[q].target.instances

(* The instances not tried yet; a sole instance is tried again.            *)
Candidates(q) ==
    LET all == req[q].target.instances
        rest == { i \in Range(all) : i.addr \notin req[q].tried }
    IN  IF rest = {} /\ Len(all) = 1 THEN all ELSE SortInstances(rest)

(* What Pick chooses, and the target's state afterwards: a sole candidate  *)
(* is not entered anywhere.                                                *)
Picked(q, candidates) ==
    LET k == req[q].target.comp
        alg == Component(k).alg
        s == State(k)
        hashed(key) == [instance |-> PickHashed(key, candidates), state |-> s]
        rr == PickRoundRobin(s.current, candidates)
    IN  CASE Len(candidates) = 1 -> [instance |-> candidates[1], state |-> picker[k]]
          [] Len(candidates) > 1 /\ alg = "ip_hash" -> hashed(req[q].kind.client)
          [] Len(candidates) > 1 /\ alg = "cookie_sticky" /\ req[q].kind.cookie # None ->
                hashed(req[q].kind.cookie)
          [] Len(candidates) > 1 /\ alg = "least_conn" ->
                [instance |-> PickLeastConn(s.inflight, candidates), state |-> s]
          [] OTHER -> [instance |-> rr.instance, state |-> [s EXCEPT !.current = rr.current]]

(* 502, and what had been tried                                            *)
BadGateway(q) ==
    [req EXCEPT ![q] = [pc |-> "done", answer |-> "badGateway", tried |-> @.tried,
                        attempt |-> @.attempt, known |-> Len(@.target.instances)]]

Pick(q) ==
    /\ req[q].pc = "pick"
    /\ LET candidates == Candidates(q)
           p == Picked(q, candidates)
           upstream == p.instance.addr
           again == upstream \in req[q].tried /\ Len(req[q].target.instances) > 1
       IN  IF candidates = << >> THEN req' = BadGateway(q) /\ UNCHANGED picker
           ELSE /\ picker' = [picker EXCEPT ![req[q].target.comp] = p.state]
                /\ req' = IF again THEN BadGateway(q)
                          ELSE IF req[q].kind.upgrade /\ ~req[q].pol.websocket THEN Done(q, "forbidden")
                          ELSE [req EXCEPT ![q] = [pc |-> "send", upstream |-> upstream,
                                    kind |-> @.kind, pol |-> @.pol, target |-> @.target,
                                    tried |-> @.tried \cup {upstream}, attempt |-> @.attempt,
                                    written |-> @.written]]
    /\ UNCHANGED <<db, changes, table, refresh, pool, aborted, up>>

(* The instance's transport is taken from the pool, and Acquire.           *)
Send(q) ==
    /\ req[q].pc = "send"
    /\ pool' = pool \cup {[addr |-> req[q].upstream, websocket |-> req[q].pol.websocket]}
    /\ picker' = [picker EXCEPT ![req[q].target.comp] =
                     [State(req[q].target.comp) EXCEPT !.inflight[req[q].upstream] = @ + 1]]
    /\ req' = [req EXCEPT ![q].pc = "serving"]
    /\ UNCHANGED <<db, changes, table, refresh, aborted, up>>

(* Release, of the state as it is by now.                                  *)
Release(q) ==
    picker' = [picker EXCEPT ![req[q].target.comp] =
                  [State(req[q].target.comp) EXCEPT !.inflight[req[q].upstream] = IF @ > 0 THEN @ - 1 ELSE 0]]

(* The instance answers.  The body of a request can be sent only once: the *)
(* first attempt closes it.                                                *)
Respond(q) ==
    /\ req[q].pc = "serving"
    /\ req[q].kind.body > 0 => req[q].attempt = 0
    /\ Release(q)
    /\ req' = Done(q, "answered")
    /\ UNCHANGED <<db, changes, table, refresh, pool, aborted, up>>

(* The connection is taken over for an upgrade: the client has bytes.      *)
Hijack(q) ==
    /\ req[q].pc = "serving" /\ req[q].kind.upgrade /\ ~req[q].written
    /\ req' = [req EXCEPT ![q].written = TRUE]
    /\ UNCHANGED <<db, changes, table, refresh, picker, pool, aborted, up>>

(* After a failed attempt: the end if the client has bytes, else the next  *)
(* instance, or 502 after the last attempt.                                *)
AfterFailure(q) ==
    IF req[q].written THEN Done(q, "broken")
    ELSE IF req[q].attempt + 1 = MaxAttempts THEN BadGateway(q)
    ELSE [req EXCEPT ![q].pc = "pick", ![q].attempt = @ + 1]

(* A faulty Fail, for the sensitivity checks: the next attempt without a   *)
(* Release.                                                                *)
FailNoRelease(q) ==
    /\ req[q].pc = "serving"
    /\ req' = AfterFailure(q)
    /\ UNCHANGED <<db, changes, table, refresh, picker, pool, aborted, up>>

(* Another: whatever the client has.                                       *)
FailRetriesAlways(q) ==
    /\ req[q].pc = "serving"
    /\ Release(q)
    /\ req' = IF req[q].attempt + 1 = MaxAttempts THEN BadGateway(q)
              ELSE [req EXCEPT ![q].pc = "pick", ![q].attempt = @ + 1]
    /\ UNCHANGED <<db, changes, table, refresh, pool, aborted, up>>

(* It cannot be reached, does not answer in time, or the upgrade fails.    *)
Fail(q) ==
    /\ req[q].pc = "serving"
    /\ Release(q)
    /\ req' = AfterFailure(q)
    /\ UNCHANGED <<db, changes, table, refresh, pool, aborted, up>>

(* The body breaks off, on either side: ReverseProxy panics, and the       *)
(* Release after it is not reached.                                        *)
Abort(q) ==
    /\ req[q].pc = "serving"
    /\ req[q].kind.body > 0 => req[q].attempt = 0
    /\ aborted' = [aborted EXCEPT ![req[q].target.comp][req[q].upstream] = @ + 1]
    /\ req' = Done(q, "broken")
    /\ UNCHANGED <<db, changes, table, refresh, picker, pool, up>>

(* shutdown releases the connections, then lets the requests finish.       *)
Shutdown ==
    /\ up /\ up' = FALSE
    /\ pool' = {}
    /\ UNCHANGED <<db, changes, table, refresh, picker, req, aborted>>

-----------------------------------------------------------------------------
Next ==
    \/ ChangeRoute \/ ChangeComponent \/ ChangePolicy \/ ChangeHealth
    \/ Shutdown
    \/ \E p \in Refreshers :
          \/ RefreshRoutes(p) \/ RefreshComponents(p) \/ RefreshInstances(p) \/ RefreshFails(p)
          \/ RefreshSwap(p) \/ RefreshPrune(p) \/ RefreshKeys(p) \/ RefreshForget(p)
    \/ \E q \in Requests :
          \/ Arrive(q) \/ Dispatch(q) \/ Route(q)
          \/ Pick(q) \/ Send(q) \/ Respond(q) \/ Hijack(q) \/ Fail(q) \/ Abort(q)

Spec == Init /\ [][Next]_vars

-----------------------------------------------------------------------------
(***************************************************************************)
(* Properties.                                                             *)
(***************************************************************************)

(* Every request in flight to a component that stays declared is in the    *)
(* count that least_conn compares, however often the table is reloaded     *)
(* meanwhile, and no count goes below zero, or above the requests there    *)
(* are, when a request returns to a target that was forgotten (gateway.go, *)
(* refresh; lb.go, Forget).                                                *)
OpenRequestsCounted ==
    /\ \A k \in Names : State(k).inflight \in [Addrs -> 0..Cardinality(Requests)]
    /\ \A k \in Stable, a \in Addrs : State(k).inflight[a] >= Cardinality(Open(k, a))

(* No instance is avoided as busy for requests that are over: a count is   *)
(* never above the requests in flight, whatever was forgotten, reloaded    *)
(* and released in between, except for those whose handler panicked        *)
(* (proxy.go, Forward; lb.go, Release).                                    *)
NoPhantomRequests ==
    \A k \in Names, a \in Addrs :
       State(k).inflight[a] <= Cardinality(Open(k, a)) + aborted[k][a]

(* A client gets 502 only after every instance that its target had, up to  *)
(* maxAttempts of them, was tried, for every algorithm and with other      *)
(* requests moving the counters (proxy.go, untried and Forward).           *)
EveryCandidateTried ==
    \A q \in Requests : req[q].pc = "done" /\ req[q].answer = "badGateway" =>
       Cardinality(req[q].tried) = Min({MaxAttempts, req[q].known})

(* Once the client has bytes of an answer, or its connection belongs to an *)
(* upgrade, no other instance is tried (proxy.go, responseRecorder and     *)
(* Forward): the request would be carried out twice, for one client.       *)
NoReplayAfterBytes ==
    \A q \in Requests : req[q].pc \in {"pick", "send"} => ~req[q].written

(* A table that routes a component that stays declared is never replaced   *)
(* by one that does not: a reload that fails or that overlaps another one  *)
(* takes no site off the air (routetable.go, Refresh).                     *)
StableStaysRouted ==
    \A r \in Routes : r.comp \in Stable => r \in table.entries

(* "A weight of 5 against 1 really does get five requests" (lb.go): from   *)
(* balances that are even, over as many picks as the weights of a target's *)
(* instances sum up to, each gets as many as its weight, and the balances  *)
(* are even again.  (With TypeOK: balances are integers, for every weight.) *)
RoundRobinShares ==
    TypeOK /\ \A q \in Requests :
       /\ req[q].pc = "pick" /\ Component(req[q].target.comp).alg = "round_robin"
       /\ State(req[q].target.comp).current = FreshState.current
       => LET instances == req[q].target.instances
              shares == Round(FreshState.current, instances)[TotalWeight(instances)]
          IN  /\ shares.current = FreshState.current
              /\ \A i \in Range(instances) : shares.got[i.addr] = WeightOf(i)
=============================================================================

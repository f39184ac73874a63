----------------------------- MODULE GatewayProofs -----------------------------
(***************************************************************************)
(* Proofs about Gateway, for any components, routes, instances, policies   *)
(* and kinds of requests, any number of concurrent reloads and requests:   *)
(* the counts of requests in flight, no replay after the client has bytes, *)
(* no reload that takes a declared route away, no 502 before every         *)
(* instance was tried, and the shares of weighted round robin.             *)
(***************************************************************************)
EXTENDS Gateway, GatewayRoutingProofs

(* The shape of the variables, as far as the proofs need it.               *)
IsState(s) == s = [lb |-> "state", current |-> s.current, inflight |-> s.inflight]

ToPick(x) ==
    x = [pc |-> x.pc, kind |-> x.kind, pol |-> x.pol, target |-> x.target, tried |-> x.tried,
         attempt |-> x.attempt, written |-> x.written]

WithUpstream(x) ==
    x = [pc |-> x.pc, upstream |-> x.upstream, kind |-> x.kind, pol |-> x.pol,
         target |-> x.target, tried |-> x.tried, attempt |-> x.attempt, written |-> x.written]

PickerShape ==
    /\ picker = [k \in Names |-> picker[k]]
    /\ \A k \in Names : picker[k] # NoState =>
          IsState(picker[k]) /\ picker[k].inflight \in [Addrs -> Nat]

RequestShape(x) ==
    /\ x.pc = "pick" => ToPick(x) \/ WithUpstream(x)
    /\ x.pc \in {"send", "serving"} => WithUpstream(x)

Shape ==
    /\ db = [routes |-> db.routes, comps |-> db.comps, healthy |-> db.healthy, vhosts |-> db.vhosts]
    /\ refresh = [p \in Refreshers |-> refresh[p]]
    /\ PickerShape
    /\ req = [q \in Requests |-> req[q]]
    /\ \A q \in Requests : RequestShape(req[q])
    /\ aborted \in [Names -> [Addrs -> Nat]]

(* Wherever a reload is, it has the routes that stay.                      *)
StableRoutes == { r \in Routes : r.comp \in Stable }

RoutesKept ==
    /\ StableRoutes \subseteq db.routes /\ Stable \subseteq db.comps
    /\ StableRoutes \subseteq table.entries
    /\ \A p \in Refreshers :
          /\ refresh[p].pc = "routes" => StableRoutes \subseteq refresh[p].routes
          /\ refresh[p].pc \in {"components", "loaded"} => StableRoutes \subseteq refresh[p].entries
          /\ refresh[p].pc = "forget" => Stable \subseteq refresh[p].live

(* The requests that are over                                              *)
Over == { q \in Requests : req[q].pc = "done" }

Count(k, a) == State(k).inflight[a]

Counts ==
    /\ \A k \in Stable, a \in Addrs : Count(k, a) >= Cardinality(Open(k, a))
    /\ \A k \in Names, a \in Addrs :
          /\ Count(k, a) <= Cardinality(Open(k, a)) + aborted[k][a]
          /\ aborted[k][a] <= Cardinality(Over)

(* The inductive invariant.                                                *)
Inv == Shape /\ RoutesKept /\ Counts /\ NoReplayAfterBytes

-----------------------------------------------------------------------------
LEMMA FreshShape ==
    /\ IsState(FreshState) /\ FreshState.inflight = [a \in Addrs |-> 0]
    /\ FreshState.inflight \in [Addrs -> Nat] /\ ~IsState(NoState)
  BY DEF IsState, FreshState, NoState

LEMMA StateShape ==
    ASSUME PickerShape, NEW k \in Names
    PROVE  IsState(State(k)) /\ State(k).inflight \in [Addrs -> Nat]
  BY FreshShape DEF PickerShape, State

LEMMA StableNames == Stable \subseteq Names
  BY KindAssumption, RoutingAssumption DEF Names

(* The sets that are counted are finite.                                   *)
LEMMA Finite ==
    ASSUME NEW S \in SUBSET Requests
    PROVE  IsFiniteSet(S) /\ Cardinality(S) \in Nat /\ Cardinality(S) <= Cardinality(Requests)
  BY KindAssumption, FS_Subset, FS_CardinalityType

LEMMA OpenType ==
    ASSUME NEW k, NEW a
    PROVE  /\ IsFiniteSet(Open(k, a)) /\ Cardinality(Open(k, a)) \in Nat
           /\ Open(k, a) \subseteq Requests
  BY Finite DEF Open

LEMMA OverType == IsFiniteSet(Over) /\ Cardinality(Over) \in Nat /\ Over \subseteq Requests
  BY Finite DEF Over

-----------------------------------------------------------------------------
LEMMA InitInv == Init => Inv
  <1> SUFFICES ASSUME Init PROVE Inv
    OBVIOUS
  <1>1. PickerShape
    BY DEF Init, PickerShape
  <1>2. Shape
    BY <1>1 DEF Init, Shape, RequestShape, NewRequest
  <1>3. RoutesKept
    BY StableNames DEF Init, RoutesKept, StableRoutes, Idle
  <1>4. Counts
    <2>1. \A k, a : Open(k, a) = {}
      BY DEF Init, Open, NewRequest
    <2>2. \A k \in Names, a \in Addrs : Count(k, a) = 0 /\ aborted[k][a] = 0
      BY FreshShape DEF Init, Count, State
    <2>3. \A k, a : Cardinality(Open(k, a)) = 0
      BY <2>1, FS_EmptySet
    <2> QED
      BY <2>2, <2>3, StableNames, OverType DEF Counts
  <1>5. NoReplayAfterBytes
    BY DEF Init, NoReplayAfterBytes, NewRequest
  <1> QED
    BY <1>2, <1>3, <1>4, <1>5 DEF Inv

-----------------------------------------------------------------------------
(* The requests and the counts stay as they are.                           *)
LEMMA CountsKept ==
    ASSUME Inv, UNCHANGED <<req, aborted>>,
           \A k \in Names, a \in Addrs : Count(k, a)' = Count(k, a)
    PROVE  Counts'
  BY StableNames DEF Inv, Counts, Open, Over

(* A change of the database leaves the routes that stay.                   *)
LEMMA ChangeInv ==
    ASSUME Inv, ChangeRoute \/ ChangeComponent \/ ChangePolicy \/ ChangeHealth PROVE Inv'
  <1>1. UNCHANGED <<table, refresh, picker, req, aborted>>
    BY DEF ChangeRoute, ChangeComponent, ChangePolicy, ChangeHealth, ChangeRest
  <1>2. /\ db' = [routes |-> db'.routes, comps |-> db'.comps, healthy |-> db'.healthy,
                  vhosts |-> db'.vhosts]
        /\ StableRoutes \subseteq db'.routes /\ Stable \subseteq db'.comps
    <2>1. CASE ChangeRoute
      BY <2>1 DEF ChangeRoute, Toggle, Inv, Shape, RoutesKept, StableRoutes
    <2>2. CASE ChangeComponent
      BY <2>2 DEF ChangeComponent, Toggle, Inv, Shape, RoutesKept
    <2>3. CASE ChangePolicy
      BY <2>3 DEF ChangePolicy, Inv, Shape, RoutesKept
    <2>4. CASE ChangeHealth
      BY <2>4 DEF ChangeHealth, Inv, Shape, RoutesKept
    <2> QED
      BY <2>1, <2>2, <2>3, <2>4
  <1>3. Shape'
    BY <1>1, <1>2 DEF Inv, Shape, PickerShape
  <1>4. RoutesKept'
    BY <1>1, <1>2 DEF Inv, RoutesKept
  <1>5. Counts'
    BY <1>1, CountsKept DEF Count, State
  <1>6. NoReplayAfterBytes'
    BY <1>1 DEF Inv, NoReplayAfterBytes
  <1> QED
    BY <1>3, <1>4, <1>5, <1>6 DEF Inv

(* What a step of a reload has to show: it keeps the routes that stay.     *)
LEMMA RefreshMoves ==
    ASSUME Inv, NEW p \in Refreshers, NEW x, refresh' = [refresh EXCEPT ![p] = x],
           x.pc = "routes" => StableRoutes \subseteq x.routes,
           x.pc \in {"components", "loaded"} => StableRoutes \subseteq x.entries,
           x.pc = "forget" => Stable \subseteq x.live,
           StableRoutes \subseteq table'.entries,
           PickerShape', \A k \in Stable : picker'[k] = picker[k],
           \A k \in Names : picker'[k] \in {picker[k], NoState},
           UNCHANGED <<db, req, aborted>>
    PROVE  Inv'
  <1>1. refresh'[p] = x /\ \A r \in Refreshers \ {p} : refresh'[r] = refresh[r]
    BY DEF Inv, Shape
  <1>2. Shape'
    BY DEF Inv, Shape
  <1>3. RoutesKept'
    BY <1>1 DEF Inv, RoutesKept
  <1>4. Counts'
    <2>1. \A k \in Stable, a \in Addrs : Count(k, a)' = Count(k, a)
      BY DEF Count, State
    <2>2. ASSUME NEW k \in Names, NEW a \in Addrs
          PROVE  Count(k, a)' <= Cardinality(Open(k, a)) + aborted[k][a]
      <3>1. CASE picker'[k] = picker[k]
        BY <3>1 DEF Count, State, Inv, Counts
      <3>2. CASE picker'[k] = NoState
        <4>1. Count(k, a)' = 0
          BY <3>2, FreshShape DEF Count, State
        <4> QED
          BY <4>1, OpenType DEF Inv, Shape
      <3> QED
        BY <3>1, <3>2
    <2> QED
      BY <2>1, <2>2 DEF Inv, Counts, Open, Over
  <1>5. NoReplayAfterBytes'
    BY DEF Inv, NoReplayAfterBytes
  <1> QED
    BY <1>2, <1>3, <1>4, <1>5 DEF Inv

LEMMA RefreshInv ==
    ASSUME Inv, NEW p \in Refreshers,
           \/ RefreshRoutes(p) \/ RefreshComponents(p) \/ RefreshInstances(p) \/ RefreshFails(p)
           \/ RefreshSwap(p) \/ RefreshPrune(p) \/ RefreshKeys(p)
    PROVE  Inv'
  <1>1. UNCHANGED <<db, req, aborted, picker>>
    BY DEF RefreshRoutes, RefreshComponents, RefreshInstances, RefreshFails, RefreshSwap,
           RefreshPrune, RefreshKeys
  <1>2. PickerShape' /\ \A k : picker'[k] = picker[k]
    BY <1>1 DEF Inv, Shape, PickerShape
  <1>3. StableRoutes \subseteq table.entries
    BY DEF Inv, RoutesKept
  <1>4. CASE RefreshRoutes(p)
    BY <1>1, <1>2, <1>3, <1>4, RefreshMoves DEF RefreshRoutes, Inv, RoutesKept
  <1>5. CASE RefreshComponents(p)
    <2>1. StableRoutes \subseteq Entries(refresh[p].routes, db.comps)
      BY <1>5 DEF RefreshComponents, Entries, Inv, RoutesKept, StableRoutes
    <2> QED
      BY <1>1, <1>2, <1>3, <1>5, <2>1, RefreshMoves DEF RefreshComponents
  <1>6. CASE RefreshInstances(p)
    <2>1. PICK services :
             refresh' = [refresh EXCEPT ![p] = [pc |-> "loaded", entries |-> refresh[p].entries,
                                                vhosts |-> refresh[p].vhosts, services |-> services]]
      BY <1>6 DEF RefreshInstances
    <2>2. StableRoutes \subseteq refresh[p].entries
      BY <1>6 DEF RefreshInstances, Inv, RoutesKept
    <2> QED
      BY <1>1, <1>2, <1>3, <1>6, <2>1, <2>2, RefreshMoves DEF RefreshInstances
  <1>7. CASE RefreshFails(p)
    BY <1>1, <1>2, <1>3, <1>7, RefreshMoves DEF RefreshFails, Idle
  <1>8. CASE RefreshSwap(p)
    <2>1. StableRoutes \subseteq table'.entries
      BY <1>8 DEF RefreshSwap, Inv, RoutesKept
    <2> QED
      BY <1>1, <1>2, <1>8, <2>1, RefreshMoves DEF RefreshSwap
  <1>9. CASE RefreshPrune(p)
    BY <1>1, <1>2, <1>3, <1>9, RefreshMoves DEF RefreshPrune
  <1>10. CASE RefreshKeys(p)
    <2>1. Stable \subseteq TargetKeys(table)
      BY <1>3, KindAssumption DEF TargetKeys, StableRoutes
    <2> QED
      BY <1>1, <1>2, <1>3, <1>10, <2>1, RefreshMoves DEF RefreshKeys
  <1> QED
    BY <1>4, <1>5, <1>6, <1>7, <1>8, <1>9, <1>10

(* Forget keeps the counts of the components that stay: their keys were    *)
(* taken from a table that routes them.                                    *)
LEMMA RefreshForgetInv ==
    ASSUME Inv, NEW p \in Refreshers, RefreshForget(p) PROVE Inv'
  <1>1. Stable \subseteq refresh[p].live
    BY DEF RefreshForget, Inv, RoutesKept
  <1>2. /\ \A k \in Names : picker'[k] \in {picker[k], NoState}
        /\ \A k \in Stable : picker'[k] = picker[k]
        /\ picker' = [k \in Names |-> picker'[k]]
    BY <1>1, StableNames DEF RefreshForget
  <1>3. PickerShape'
    BY <1>2 DEF Inv, Shape, PickerShape
  <1>4. StableRoutes \subseteq table'.entries
    BY DEF RefreshForget, Inv, RoutesKept
  <1> QED
    BY <1>2, <1>3, <1>4, RefreshMoves DEF RefreshForget, Idle

-----------------------------------------------------------------------------
(* What a step of a request has to show, beside the counts.                *)
LEMMA RequestMoves ==
    ASSUME Inv, NEW q \in Requests, NEW x, req' = [req EXCEPT ![q] = x],
           RequestShape(x), x.pc \in {"pick", "send"} => ~x.written,
           UNCHANGED <<db, table, refresh>>,
           PickerShape', aborted' \in [Names -> [Addrs -> Nat]], Counts'
    PROVE  Inv'
  <1>1. req'[q] = x /\ \A r \in Requests \ {q} : req'[r] = req[r]
    BY DEF Inv, Shape
  <1>2. Shape'
    BY <1>1 DEF Inv, Shape
  <1>3. RoutesKept'
    BY DEF Inv, RoutesKept
  <1>4. NoReplayAfterBytes'
    BY <1>1 DEF Inv, NoReplayAfterBytes
  <1> QED
    BY <1>2, <1>3, <1>4 DEF Inv

(* A request that is not in flight before or afterwards is not counted.    *)
LEMMA RequestQuiet ==
    ASSUME Inv, NEW q \in Requests, NEW x, req' = [req EXCEPT ![q] = x],
           req[q].pc \notin {"serving", "done"}, x.pc # "serving",
           RequestShape(x), x.pc \in {"pick", "send"} => ~x.written,
           UNCHANGED <<db, table, refresh, aborted>>,
           PickerShape', \A k \in Names, a \in Addrs : Count(k, a)' = Count(k, a)
    PROVE  Inv'
  <1>1. req'[q] = x /\ \A r \in Requests \ {q} : req'[r] = req[r]
    BY DEF Inv, Shape
  <1>2. \A k, a : Open(k, a)' = Open(k, a)
    BY <1>1 DEF Open
  <1>3. Cardinality(Over) <= Cardinality(Over') /\ Cardinality(Over') \in Nat
    <2>1. Over \subseteq Over' /\ Over' \subseteq Requests
      BY <1>1 DEF Over
    <2> QED
      BY <2>1, Finite, FS_Subset
  <1>4. Counts'
    <2>1. ASSUME NEW k \in Names, NEW a \in Addrs
          PROVE  aborted[k][a] <= Cardinality(Over')
      <3>1. aborted[k][a] \in Nat /\ aborted[k][a] <= Cardinality(Over)
        BY DEF Inv, Shape, Counts
      <3> QED
        BY <1>3, <3>1, OverType
    <2> QED
      BY <1>2, <2>1, StableNames DEF Inv, Counts
  <1> QED
    BY <1>4, RequestMoves DEF Inv, Shape

LEMMA ArriveInv ==
    ASSUME Inv, NEW q \in Requests, Arrive(q) \/ Dispatch(q) PROVE Inv'
  <1>1. PICK x : /\ req' = [req EXCEPT ![q] = x]
                 /\ x.pc \in {"dispatch", "lookup", "done"}
    <2>1. CASE Arrive(q)
      <3>1. PICK k, answer :
               \/ req' = [req EXCEPT ![q] = [pc |-> "dispatch", kind |-> k]]
               \/ req' = [req EXCEPT ![q] = [pc |-> "done", answer |-> answer]]
        BY <2>1, Zenon DEF Arrive, Done
      <3> DEFINE goOn == [pc |-> "dispatch", kind |-> k]
                 stop == [pc |-> "done", answer |-> answer]
      <3>2. goOn.pc = "dispatch" /\ stop.pc = "done"
        OBVIOUS
      <3>3. req' = [req EXCEPT ![q] = goOn] \/ req' = [req EXCEPT ![q] = stop]
        BY <3>1
      <3> HIDE DEF goOn, stop
      <3> QED
        BY <3>2, <3>3
    <2>2. CASE Dispatch(q)
      <3>1. PICK k, pol :
               \/ req' = [req EXCEPT ![q] = [pc |-> "lookup", kind |-> k, pol |-> pol]]
               \/ req' = [req EXCEPT ![q] = [pc |-> "done", answer |-> "rejected"]]
        BY <2>2, Zenon DEF Dispatch, Done
      <3> DEFINE goOn == [pc |-> "lookup", kind |-> k, pol |-> pol]
                 stop == [pc |-> "done", answer |-> "rejected"]
      <3>2. goOn.pc = "lookup" /\ stop.pc = "done"
        OBVIOUS
      <3>3. req' = [req EXCEPT ![q] = goOn] \/ req' = [req EXCEPT ![q] = stop]
        BY <3>1
      <3> HIDE DEF goOn, stop
      <3> QED
        BY <3>2, <3>3
    <2> QED
      BY <2>1, <2>2
  <1>2. RequestShape(x)
    BY <1>1 DEF RequestShape
  <1>3. /\ req[q].pc \notin {"serving", "done"}
        /\ UNCHANGED <<db, table, refresh, aborted, picker>>
    BY DEF Arrive, Dispatch
  <1>4. PickerShape' /\ \A k \in Names, a \in Addrs : Count(k, a)' = Count(k, a)
    BY <1>3 DEF Inv, Shape, PickerShape, Count, State
  <1> QED
    BY <1>1, <1>2, <1>3, <1>4, RequestQuiet

LEMMA RouteInv ==
    ASSUME Inv, NEW q \in Requests, Route(q) PROVE Inv'
  <1>1. \/ \E answer : req' = Done(q, answer)
        \/ \E target : req' = Forwarding(q, target)
    BY DEF Route
  <1>2. /\ req[q].pc \notin {"serving", "done"}
        /\ UNCHANGED <<db, table, refresh, aborted, picker>>
    BY DEF Route
  <1>3. PickerShape' /\ \A k \in Names, a \in Addrs : Count(k, a)' = Count(k, a)
    BY <1>2 DEF Inv, Shape, PickerShape, Count, State
  <1>4. ASSUME NEW answer, req' = Done(q, answer) PROVE Inv'
    <2> DEFINE x == [pc |-> "done", answer |-> answer]
    <2>1. req' = [req EXCEPT ![q] = x] /\ RequestShape(x)
      BY <1>4 DEF Done, RequestShape
    <2> QED
      BY <1>2, <1>3, <2>1, RequestQuiet
  <1>5. ASSUME NEW target, req' = Forwarding(q, target) PROVE Inv'
    <2> DEFINE x == [pc |-> "pick", kind |-> req[q].kind, pol |-> req[q].pol, target |-> target,
                     tried |-> {}, attempt |-> 0, written |-> FALSE]
    <2>1. req' = [req EXCEPT ![q] = x]
      BY <1>5 DEF Forwarding
    <2>2. RequestShape(x)
      BY DEF RequestShape, ToPick
    <2> QED
      BY <1>2, <1>3, <2>1, <2>2, RequestQuiet
  <1> QED
    BY <1>1, <1>4, <1>5

-----------------------------------------------------------------------------
(* Picking an instance moves the balances of a target at most.             *)
LEMMA PickedState ==
    ASSUME NEW q, NEW candidates
    PROVE  LET k == req[q].target.comp
               state == Picked(q, candidates).state
           IN  \/ state = picker[k] \/ state = State(k)
               \/ \E c : state = [State(k) EXCEPT !.current = c]
  <1> DEFINE k == req[q].target.comp
             s == State(k)
             rr == PickRoundRobin(s.current, candidates)
  <1>1. Picked(q, candidates) \in
           { [instance |-> candidates[1], state |-> picker[k]],
             [instance |-> PickHashed(req[q].kind.client, candidates), state |-> s],
             [instance |-> PickHashed(req[q].kind.cookie, candidates), state |-> s],
             [instance |-> PickLeastConn(s.inflight, candidates), state |-> s],
             [instance |-> rr.instance, state |-> [s EXCEPT !.current = rr.current]] }
    BY Zenon DEF Picked
  <1>2. Picked(q, candidates).state \in {picker[k], s, [s EXCEPT !.current = rr.current]}
    BY <1>1
  <1> QED
    BY <1>2, Zenon

LEMMA PickInv ==
    ASSUME Inv, NEW q \in Requests, Pick(q) PROVE Inv'
  <1> DEFINE k == req[q].target.comp
  <1>1. req[q].pc = "pick" /\ UNCHANGED <<db, table, refresh, aborted>>
    BY DEF Pick
  <1>2. ~req[q].written
    BY <1>1 DEF Inv, NoReplayAfterBytes
  <1>3. PickerShape' /\ \A j \in Names, a \in Addrs : Count(j, a)' = Count(j, a)
    <2>1. CASE picker' = picker
      BY <2>1 DEF Inv, Shape, PickerShape, Count, State
    <2>2. ASSUME NEW s, picker' = [picker EXCEPT ![k] = s],
                 \/ s = picker[k] \/ s = State(k) \/ \E c : s = [State(k) EXCEPT !.current = c]
          PROVE  PickerShape' /\ \A j \in Names, a \in Addrs : Count(j, a)' = Count(j, a)
      <3>1. PickerShape
        BY DEF Inv, Shape
      <3>2. \A j \in Names : picker'[j] = IF j = k THEN s ELSE picker[j]
        BY <2>2, <3>1 DEF PickerShape
      <3>3. ASSUME k \in Names
            PROVE  \/ s = NoState /\ picker[k] = NoState
                   \/ IsState(s) /\ s.inflight = State(k).inflight
        <4>1. IsState(State(k))
          BY <3>1, <3>3, StateShape
        <4>2. CASE s = picker[k]
          BY <4>1, <4>2 DEF State
        <4>3. CASE s = State(k)
          BY <4>1, <4>3
        <4>4. ASSUME NEW c, s = [State(k) EXCEPT !.current = c]
              PROVE  IsState(s) /\ s.inflight = State(k).inflight
          BY <4>1, <4>4 DEF IsState
        <4> QED
          BY <2>2, <4>2, <4>3, <4>4
      <3>4. PickerShape'
        <4>1. picker' = [j \in Names |-> picker'[j]]
          BY <2>2, <3>1 DEF PickerShape
        <4>2. ASSUME NEW j \in Names, picker'[j] # NoState
              PROVE  IsState(picker'[j]) /\ picker'[j].inflight \in [Addrs -> Nat]
          BY <3>1, <3>2, <3>3, <4>2, StateShape DEF PickerShape
        <4> QED
          BY <4>1, <4>2 DEF PickerShape
      <3>5. ASSUME NEW j \in Names, NEW a \in Addrs PROVE Count(j, a)' = Count(j, a)
        <4>1. CASE j # k
          BY <3>2, <4>1 DEF Count, State
        <4>2. CASE j = k
          <5>1. picker'[k] = s
            BY <3>2, <4>2
          <5>2. CASE s = NoState /\ picker[k] = NoState
            BY <4>2, <5>1, <5>2 DEF Count, State
          <5>3. CASE IsState(s) /\ s.inflight = State(k).inflight
            <6>1. s # NoState
              BY <5>3, FreshShape
            <6> QED
              BY <4>2, <5>1, <5>3, <6>1 DEF Count, State
          <5> QED
            BY <3>3, <4>2, <5>2, <5>3
        <4> QED
          BY <4>1, <4>2
      <3> QED
        BY <3>4, <3>5
    <2> QED
      BY <2>1, <2>2, PickedState DEF Pick
  <1>4. PICK x : /\ req' = [req EXCEPT ![q] = x]
                 /\ x.pc \in {"send", "done"} /\ RequestShape(x)
                 /\ x.pc = "send" => x.written = req[q].written
    <2> DEFINE sent(u) == [pc |-> "send", upstream |-> u, kind |-> req[q].kind,
                           pol |-> req[q].pol, target |-> req[q].target,
                           tried |-> req[q].tried \cup {u}, attempt |-> req[q].attempt,
                           written |-> req[q].written]
               bad == [pc |-> "done", answer |-> "badGateway", tried |-> req[q].tried,
                       attempt |-> req[q].attempt, known |-> Len(req[q].target.instances)]
               no == [pc |-> "done", answer |-> "forbidden"]
    <2>1. \A u : sent(u).pc = "send" /\ RequestShape(sent(u)) /\ sent(u).written = req[q].written
      BY DEF RequestShape, WithUpstream
    <2>2. bad.pc = "done" /\ RequestShape(bad) /\ no.pc = "done" /\ RequestShape(no)
      BY DEF RequestShape
    <2>3. \/ req' = BadGateway(q) \/ req' = Done(q, "forbidden")
          \/ req' = [req EXCEPT ![q] = sent(Picked(q, Candidates(q)).instance.addr)]
      BY DEF Pick
    <2>4. \/ req' = [req EXCEPT ![q] = bad] \/ req' = [req EXCEPT ![q] = no]
          \/ \E u : req' = [req EXCEPT ![q] = sent(u)]
      BY <2>3 DEF BadGateway, Done
    <2> HIDE DEF sent, bad, no
    <2> QED
      BY <2>1, <2>2, <2>4
  <1> QED
    BY <1>1, <1>2, <1>3, <1>4, RequestQuiet

-----------------------------------------------------------------------------
(* Acquire and Release replace one count of one target.                    *)
WithCount(k, u, n) == [picker EXCEPT ![k] = [State(k) EXCEPT !.inflight[u] = n]]

LEMMA CountMoves ==
    ASSUME PickerShape, NEW k, NEW u, NEW n, k \in Names /\ u \in Addrs => n \in Nat,
           picker' = WithCount(k, u, n)
    PROVE  /\ PickerShape'
           /\ \A j \in Names, a \in Addrs :
                 Count(j, a)' = IF j = k /\ a = u THEN n ELSE Count(j, a)
  <1> DEFINE s == [State(k) EXCEPT !.inflight[u] = n]
  <1>1. /\ picker' = [j \in Names |-> picker'[j]]
        /\ \A j \in Names : picker'[j] = IF j = k THEN s ELSE picker[j]
    BY DEF PickerShape, WithCount
  <1>2. ASSUME k \in Names
        PROVE  /\ IsState(s) /\ s.inflight \in [Addrs -> Nat]
               /\ \A a \in Addrs : s.inflight[a] = IF a = u THEN n ELSE State(k).inflight[a]
    <2>1. IsState(State(k)) /\ State(k).inflight \in [Addrs -> Nat]
      BY <1>2, StateShape
    <2>2. /\ s = [lb |-> "state", current |-> State(k).current,
                  inflight |-> [State(k).inflight EXCEPT ![u] = n]]
      BY <2>1 DEF IsState
    <2> HIDE DEF s
    <2>3. IsState(s) /\ s.inflight = [State(k).inflight EXCEPT ![u] = n]
      BY <2>2 DEF IsState
    <2> QED
      BY <1>2, <2>1, <2>3
  <1> HIDE DEF s
  <1>3. PickerShape'
    BY <1>1, <1>2 DEF PickerShape
  <1>4. ASSUME NEW j \in Names, NEW a \in Addrs
        PROVE  Count(j, a)' = IF j = k /\ a = u THEN n ELSE Count(j, a)
    <2>1. CASE j # k
      BY <1>1, <2>1 DEF Count, State
    <2>2. CASE j = k
      <3>1. picker'[j] = s /\ s # NoState
        BY <1>1, <1>2, <2>2, FreshShape
      <3> QED
        BY <1>2, <2>2, <3>1 DEF Count, State
    <2> QED
      BY <2>1, <2>2
  <1> QED
    BY <1>3, <1>4

(* Acquire counts a request as it becomes one in flight.                   *)
LEMMA SendInv ==
    ASSUME Inv, NEW q \in Requests, Send(q) PROVE Inv'
  <1> DEFINE k == req[q].target.comp
             u == req[q].upstream
             x == [req[q] EXCEPT !.pc = "serving"]
             mine(j, a) == j = k /\ a = u
  <1>1. /\ req[q].pc = "send" /\ WithUpstream(req[q])
        /\ UNCHANGED <<db, table, refresh, aborted>> /\ PickerShape
    BY DEF Send, Inv, Shape, RequestShape
  <1>2. /\ x = [pc |-> "serving", upstream |-> u, kind |-> req[q].kind, pol |-> req[q].pol,
                target |-> req[q].target, tried |-> req[q].tried,
                attempt |-> req[q].attempt, written |-> req[q].written]
        /\ req' = [req EXCEPT ![q] = x]
    BY <1>1 DEF Send, WithUpstream, Inv, Shape
  <1> HIDE DEF x
  <1>3. RequestShape(x) /\ x.pc = "serving" /\ x.target.comp = k /\ x.upstream = u
    BY <1>2 DEF RequestShape, WithUpstream
  <1>4. req'[q] = x /\ \A r \in Requests \ {q} : req'[r] = req[r]
    BY <1>2 DEF Inv, Shape
  <1>5. \A j \in Names, a \in Addrs : Count(j, a) \in Nat
    BY <1>1, StateShape DEF Count
  <1>6. picker' = WithCount(k, u, Count(k, u) + 1)
    BY DEF Send, Count, WithCount
  <1>7. /\ PickerShape'
        /\ \A j \in Names, a \in Addrs :
              Count(j, a)' = IF mine(j, a) THEN Count(j, a) + 1 ELSE Count(j, a)
    <2>1. k \in Names /\ u \in Addrs => Count(k, u) + 1 \in Nat
      BY <1>5
    <2> QED
      BY <1>1, <1>6, <2>1, CountMoves
  <1>8. ASSUME NEW j \in Names, NEW a \in Addrs
        PROVE  Cardinality(Open(j, a)') =
                  IF mine(j, a) THEN Cardinality(Open(j, a)) + 1 ELSE Cardinality(Open(j, a))
    <2>1. q \notin Open(j, a)
      BY <1>1 DEF Open
    <2>2. Open(j, a)' = IF mine(j, a) THEN Open(j, a) \cup {q} ELSE Open(j, a)
      BY <1>3, <1>4, <2>1 DEF Open
    <2> QED
      BY <2>1, <2>2, OpenType, FS_AddElement
  <1>9. Over' = Over
    BY <1>1, <1>3, <1>4 DEF Over
  <1>10. Counts'
    <2>1. ASSUME NEW j \in Names, NEW a \in Addrs
          PROVE  /\ j \in Stable => Count(j, a)' >= Cardinality(Open(j, a)')
                 /\ Count(j, a)' <= Cardinality(Open(j, a)') + aborted[j][a]
                 /\ aborted[j][a] <= Cardinality(Over')
      <3>1. /\ j \in Stable => Count(j, a) >= Cardinality(Open(j, a))
            /\ Count(j, a) <= Cardinality(Open(j, a)) + aborted[j][a]
            /\ aborted[j][a] <= Cardinality(Over) /\ aborted[j][a] \in Nat
        BY DEF Inv, Counts, Shape
      <3>2. Cardinality(Open(j, a)) \in Nat
        BY OpenType
      <3> QED
        BY <1>5, <1>7, <1>8, <1>9, <3>1, <3>2
    <2> QED
      BY <1>1, <2>1, StableNames DEF Counts
  <1>11. aborted' \in [Names -> [Addrs -> Nat]]
    BY <1>1 DEF Inv, Shape
  <1> QED
    BY <1>1, <1>2, <1>3, <1>7, <1>10, <1>11, RequestMoves

(* A request that returns is in flight no longer.                          *)
LEMMA Returns ==
    ASSUME Inv, NEW q \in Requests, req[q].pc = "serving",
           NEW x, req' = [req EXCEPT ![q] = x], x.pc # "serving"
    PROVE  LET mine(j, a) == j = req[q].target.comp /\ a = req[q].upstream
           IN  /\ \A j \in Names, a \in Addrs :
                     /\ mine(j, a) => Cardinality(Open(j, a)) > 0
                     /\ Cardinality(Open(j, a)') =
                          IF mine(j, a) THEN Cardinality(Open(j, a)) - 1 ELSE Cardinality(Open(j, a))
               /\ Cardinality(Over') \in Nat
               /\ Cardinality(Over') = IF x.pc = "done" THEN Cardinality(Over) + 1 ELSE Cardinality(Over)
  <1> DEFINE mine(j, a) == j = req[q].target.comp /\ a = req[q].upstream
  <1>1. req'[q] = x /\ \A r \in Requests \ {q} : req'[r] = req[r]
    BY DEF Inv, Shape
  <1>2. ASSUME NEW j \in Names, NEW a \in Addrs
        PROVE  /\ mine(j, a) => Cardinality(Open(j, a)) > 0
               /\ Cardinality(Open(j, a)') =
                    IF mine(j, a) THEN Cardinality(Open(j, a)) - 1 ELSE Cardinality(Open(j, a))
    <2>1. mine(j, a) <=> q \in Open(j, a)
      BY DEF Open
    <2>2. Open(j, a)' = IF mine(j, a) THEN Open(j, a) \ {q} ELSE Open(j, a)
      BY <1>1, <2>1 DEF Open
    <2>3. IsFiniteSet(Open(j, a)) /\ Cardinality(Open(j, a)) \in Nat
      BY OpenType
    <2>4. CASE mine(j, a)
      <3>1. Cardinality(Open(j, a)) # 0
        BY <2>1, <2>3, <2>4, FS_EmptySet
      <3>2. Cardinality(Open(j, a) \ {q}) = Cardinality(Open(j, a)) - 1
        BY <2>1, <2>3, <2>4, FS_RemoveElement
      <3> QED
        BY <2>2, <2>3, <2>4, <3>1, <3>2
    <2>5. CASE ~mine(j, a)
      BY <2>2, <2>5
    <2> QED
      BY <2>4, <2>5
  <1>3. q \notin Over /\ Over' = IF x.pc = "done" THEN Over \cup {q} ELSE Over
    BY <1>1 DEF Over
  <1>4. /\ Cardinality(Over') \in Nat
        /\ Cardinality(Over') = IF x.pc = "done" THEN Cardinality(Over) + 1 ELSE Cardinality(Over)
    BY <1>3, OverType, FS_AddElement
  <1> QED
    BY <1>2, <1>4

(* Release lowers the count of the request that returns, if the target was *)
(* not forgotten meanwhile, and never below zero.                          *)
LEMMA ReleaseInv ==
    ASSUME Inv, NEW q \in Requests, req[q].pc = "serving", Release(q),
           NEW x, req' = [req EXCEPT ![q] = x], x.pc \in {"pick", "done"},
           RequestShape(x), x.pc = "pick" => ~x.written,
           UNCHANGED <<db, table, refresh, aborted>>
    PROVE  Inv'
  <1> DEFINE k == req[q].target.comp
             u == req[q].upstream
             mine(j, a) == j = k /\ a = u
             less(n) == IF n > 0 THEN n - 1 ELSE 0
  <1>1. PickerShape /\ aborted' \in [Names -> [Addrs -> Nat]]
    BY DEF Inv, Shape
  <1>2. \A j \in Names, a \in Addrs : Count(j, a) \in Nat
    BY <1>1, StateShape DEF Count
  <1>3. picker' = WithCount(k, u, less(Count(k, u)))
    BY DEF Release, Count, WithCount
  <1>4. k \in Names /\ u \in Addrs => less(Count(k, u)) \in Nat
    BY <1>2
  <1>5. /\ PickerShape'
        /\ \A j \in Names, a \in Addrs :
              Count(j, a)' = IF mine(j, a) THEN less(Count(j, a)) ELSE Count(j, a)
    BY <1>1, <1>3, <1>4, CountMoves
  <1>6. Counts'
    <2>1. ASSUME NEW j \in Names, NEW a \in Addrs
          PROVE  /\ j \in Stable => Count(j, a)' >= Cardinality(Open(j, a)')
                 /\ Count(j, a)' <= Cardinality(Open(j, a)') + aborted[j][a]
                 /\ aborted[j][a] <= Cardinality(Over')
      <3>1. /\ j \in Stable => Count(j, a) >= Cardinality(Open(j, a))
            /\ Count(j, a) <= Cardinality(Open(j, a)) + aborted[j][a]
            /\ aborted[j][a] <= Cardinality(Over) /\ aborted[j][a] \in Nat
        BY DEF Inv, Counts, Shape
      <3>2. Cardinality(Open(j, a)) \in Nat /\ Cardinality(Over) \in Nat
        BY OpenType, OverType
      <3>3. /\ mine(j, a) => Cardinality(Open(j, a)) > 0
            /\ Cardinality(Open(j, a)') =
                 IF mine(j, a) THEN Cardinality(Open(j, a)) - 1 ELSE Cardinality(Open(j, a))
            /\ Cardinality(Over') \in {Cardinality(Over), Cardinality(Over) + 1}
        BY Returns
      <3>4. Count(j, a)' = IF mine(j, a) THEN less(Count(j, a)) ELSE Count(j, a)
        BY <1>5
      <3> QED
        BY <1>2, <3>1, <3>2, <3>3, <3>4
    <2> QED
      BY <2>1, StableNames DEF Counts
  <1> QED
    BY <1>1, <1>5, <1>6, RequestMoves

LEMMA RespondInv ==
    ASSUME Inv, NEW q \in Requests, Respond(q) PROVE Inv'
  <1> DEFINE x == [pc |-> "done", answer |-> "answered"]
  <1>1. req' = [req EXCEPT ![q] = x] /\ x.pc = "done" /\ RequestShape(x)
    BY DEF Respond, Done, RequestShape
  <1> HIDE DEF x
  <1> QED
    BY <1>1, ReleaseInv DEF Respond

(* What a retry and an upgrade leave of a request in flight                *)
LEMMA RetriedShape ==
    ASSUME NEW y, WithUpstream(y), NEW z, z = [y EXCEPT !.pc = "pick", !.attempt = @ + 1]
    PROVE  WithUpstream(z) /\ z.pc = "pick" /\ z.written = y.written
  BY DEF WithUpstream

LEMMA HijackedShape ==
    ASSUME NEW y, WithUpstream(y), NEW z, z = [y EXCEPT !.written = TRUE]
    PROVE  /\ WithUpstream(z) /\ z.pc = y.pc
           /\ z.target = y.target /\ z.upstream = y.upstream
  BY DEF WithUpstream

LEMMA FailInv ==
    ASSUME Inv, NEW q \in Requests, Fail(q) PROVE Inv'
  <1> DEFINE broken == [pc |-> "done", answer |-> "broken"]
             bad == [pc |-> "done", answer |-> "badGateway", tried |-> req[q].tried,
                     attempt |-> req[q].attempt, known |-> Len(req[q].target.instances)]
             again == [req[q] EXCEPT !.pc = "pick", !.attempt = @ + 1]
  <1>1. /\ req[q].pc = "serving" /\ WithUpstream(req[q]) /\ Release(q)
        /\ UNCHANGED <<db, table, refresh, aborted>>
    BY DEF Fail, Inv, Shape, RequestShape
  <1>2. \/ req' = [req EXCEPT ![q] = broken] \/ req' = [req EXCEPT ![q] = bad]
        \/ ~req[q].written /\ req' = [req EXCEPT ![q] = again]
    BY DEF Fail, AfterFailure, Done, BadGateway, Inv, Shape
  <1>3. broken.pc = "done" /\ RequestShape(broken) /\ bad.pc = "done" /\ RequestShape(bad)
    BY DEF RequestShape
  <1>4. again.pc = "pick" /\ RequestShape(again) /\ again.written = req[q].written
    <2>1. WithUpstream(again) /\ again.pc = "pick" /\ again.written = req[q].written
      BY <1>1, RetriedShape
    <2> HIDE DEF again
    <2> QED
      BY <2>1 DEF RequestShape
  <1> HIDE DEF broken, bad, again
  <1> QED
    BY <1>1, <1>2, <1>3, <1>4, ReleaseInv

(* A connection that is taken over stays in flight.                        *)
LEMMA HijackInv ==
    ASSUME Inv, NEW q \in Requests, Hijack(q) PROVE Inv'
  <1> DEFINE x == [req[q] EXCEPT !.written = TRUE]
  <1>1. /\ req[q].pc = "serving" /\ WithUpstream(req[q])
        /\ UNCHANGED <<db, table, refresh, picker, aborted>>
    BY DEF Hijack, Inv, Shape, RequestShape
  <1>2. /\ req' = [req EXCEPT ![q] = x] /\ x.pc = "serving" /\ RequestShape(x)
        /\ x.target = req[q].target /\ x.upstream = req[q].upstream
    <2>1. req' = [req EXCEPT ![q] = x]
      BY DEF Hijack, Inv, Shape
    <2>2. /\ WithUpstream(x) /\ x.pc = req[q].pc
          /\ x.target = req[q].target /\ x.upstream = req[q].upstream
      BY <1>1, HijackedShape
    <2> HIDE DEF x
    <2> QED
      BY <1>1, <2>1, <2>2 DEF RequestShape
  <1> HIDE DEF x
  <1>3. req'[q] = x /\ \A r \in Requests \ {q} : req'[r] = req[r]
    BY <1>2 DEF Inv, Shape
  <1>4. Over' = Over /\ \A j, a : Open(j, a)' = Open(j, a)
    BY <1>1, <1>2, <1>3 DEF Over, Open
  <1>5. \A j \in Names, a \in Addrs : Count(j, a)' = Count(j, a)
    BY <1>1 DEF Count, State
  <1>6. Counts'
    BY <1>1, <1>4, <1>5, StableNames DEF Inv, Counts
  <1>7. PickerShape' /\ aborted' \in [Names -> [Addrs -> Nat]]
    BY <1>1 DEF Inv, Shape, PickerShape
  <1> QED
    BY <1>1, <1>2, <1>6, <1>7, RequestMoves

(* A handler that panics leaves its count behind.                          *)
LEMMA AbortInv ==
    ASSUME Inv, NEW q \in Requests, Abort(q) PROVE Inv'
  <1> DEFINE k == req[q].target.comp
             u == req[q].upstream
             mine(j, a) == j = k /\ a = u
             x == [pc |-> "done", answer |-> "broken"]
  <1>1. /\ req[q].pc = "serving" /\ UNCHANGED <<db, table, refresh, picker>>
        /\ aborted' = [aborted EXCEPT ![k][u] = @ + 1]
        /\ aborted \in [Names -> [Addrs -> Nat]]
    BY DEF Abort, Inv, Shape
  <1>2. req' = [req EXCEPT ![q] = x] /\ x.pc = "done" /\ RequestShape(x)
    BY DEF Abort, Done, RequestShape
  <1> HIDE DEF x
  <1>3. /\ aborted' \in [Names -> [Addrs -> Nat]]
        /\ \A j \in Names, a \in Addrs :
              aborted'[j][a] = IF mine(j, a) THEN aborted[j][a] + 1 ELSE aborted[j][a]
    <2>1. /\ aborted' = [j \in Names |-> aborted'[j]]
          /\ \A j \in Names : aborted'[j] = IF j = k THEN [aborted[k] EXCEPT ![u] = aborted[k][u] + 1]
                                            ELSE aborted[j]
      BY <1>1
    <2>2. \A j \in Names : aborted[j] \in [Addrs -> Nat]
      BY <1>1
    <2>3. ASSUME NEW j \in Names
          PROVE  /\ aborted'[j] \in [Addrs -> Nat]
                 /\ \A a \in Addrs :
                       aborted'[j][a] = IF mine(j, a) THEN aborted[j][a] + 1 ELSE aborted[j][a]
      BY <2>1, <2>2
    <2> QED
      BY <2>1, <2>3
  <1>4. /\ PickerShape'
        /\ \A j \in Names, a \in Addrs : Count(j, a)' = Count(j, a) /\ Count(j, a) \in Nat
    BY <1>1, StateShape DEF Inv, Shape, PickerShape, Count, State
  <1>5. Counts'
    <2>1. ASSUME NEW j \in Names, NEW a \in Addrs
          PROVE  /\ j \in Stable => Count(j, a)' >= Cardinality(Open(j, a)')
                 /\ Count(j, a)' <= Cardinality(Open(j, a)') + aborted'[j][a]
                 /\ aborted'[j][a] <= Cardinality(Over')
      <3>1. /\ j \in Stable => Count(j, a) >= Cardinality(Open(j, a))
            /\ Count(j, a) <= Cardinality(Open(j, a)) + aborted[j][a]
            /\ aborted[j][a] <= Cardinality(Over) /\ aborted[j][a] \in Nat
        BY DEF Inv, Counts, Shape
      <3>2. Cardinality(Open(j, a)) \in Nat /\ Cardinality(Over) \in Nat
        BY OpenType, OverType
      <3>3. /\ mine(j, a) => Cardinality(Open(j, a)) > 0
            /\ Cardinality(Open(j, a)') =
                 IF mine(j, a) THEN Cardinality(Open(j, a)) - 1 ELSE Cardinality(Open(j, a))
            /\ Cardinality(Over') = Cardinality(Over) + 1
        BY <1>1, <1>2, Returns
      <3> QED
        BY <1>3, <1>4, <3>1, <3>2, <3>3
    <2> QED
      BY <2>1, StableNames DEF Counts
  <1> QED
    BY <1>1, <1>2, <1>3, <1>4, <1>5, RequestMoves

-----------------------------------------------------------------------------
LEMMA NextInv == Inv /\ [Next]_vars => Inv'
  <1> SUFFICES ASSUME Inv, [Next]_vars PROVE Inv'
    OBVIOUS
  <1>1. CASE ChangeRoute \/ ChangeComponent \/ ChangePolicy \/ ChangeHealth
    BY <1>1, ChangeInv
  <1>2. ASSUME UNCHANGED <<db, table, refresh, picker, req, aborted>> PROVE Inv'
    <2>1. Shape' /\ RoutesKept' /\ NoReplayAfterBytes'
      BY <1>2 DEF Inv, Shape, PickerShape, RoutesKept, NoReplayAfterBytes
    <2>2. Counts'
      BY <1>2, CountsKept DEF Count, State
    <2> QED
      BY <2>1, <2>2 DEF Inv
  <1>3. CASE Shutdown
    BY <1>2, <1>3 DEF Shutdown
  <1>4. CASE UNCHANGED vars
    BY <1>2, <1>4 DEF vars
  <1>5. ASSUME NEW p \in Refreshers,
               \/ RefreshRoutes(p) \/ RefreshComponents(p) \/ RefreshInstances(p) \/ RefreshFails(p)
               \/ RefreshSwap(p) \/ RefreshPrune(p) \/ RefreshKeys(p) \/ RefreshForget(p)
        PROVE  Inv'
    BY <1>5, RefreshInv, RefreshForgetInv
  <1>6. ASSUME NEW q \in Requests,
               \/ Arrive(q) \/ Dispatch(q) \/ Route(q)
               \/ Pick(q) \/ Send(q) \/ Respond(q) \/ Hijack(q) \/ Fail(q) \/ Abort(q)
        PROVE  Inv'
    BY <1>6, ArriveInv, RouteInv, PickInv, SendInv, RespondInv, HijackInv, FailInv, AbortInv
  <1> QED
    BY <1>1, <1>3, <1>4, <1>5, <1>6 DEF Next

LEMMA Invariance == Spec => []Inv
  BY InitInv, NextInv, PTL DEF Spec

-----------------------------------------------------------------------------
(* No client's request is carried out twice because an attempt failed      *)
(* after the client had bytes (proxy.go, Forward).                         *)
THEOREM NoReplay == Spec => []NoReplayAfterBytes
  <1>1. Inv => NoReplayAfterBytes
    BY DEF Inv
  <1> QED
    BY <1>1, Invariance, PTL

(* No reload, whatever it overlaps and wherever a query of it fails, takes *)
(* a component off the air that stays declared (routetable.go, Refresh).   *)
THEOREM StableRoutesStay == Spec => []StableStaysRouted
  <1>1. Inv => StableStaysRouted
    BY DEF Inv, RoutesKept, StableRoutes, StableStaysRouted
  <1> QED
    BY <1>1, Invariance, PTL

(* An instance is never avoided for requests that are over, except those   *)
(* whose handler panicked (lb.go, Release; proxy.go, Forward).             *)
THEOREM NoPhantoms == Spec => []NoPhantomRequests
  <1>1. Inv => NoPhantomRequests
    BY DEF Inv, Counts, Count, NoPhantomRequests
  <1> QED
    BY <1>1, Invariance, PTL

(* A count is within the requests there are: those in flight and those     *)
(* that panicked are different ones.                                       *)
LEMMA CountsInRange == ASSUME Inv PROVE OpenRequestsCounted
  <1>1. PickerShape
    BY DEF Inv, Shape
  <1>2. ASSUME NEW k \in Names, NEW a \in Addrs PROVE Count(k, a) <= Cardinality(Requests)
    <2>1. /\ Count(k, a) <= Cardinality(Open(k, a)) + aborted[k][a]
          /\ aborted[k][a] <= Cardinality(Over) /\ aborted[k][a] \in Nat
      BY DEF Inv, Counts, Shape
    <2>2. Open(k, a) \cap Over = {} /\ Open(k, a) \cup Over \in SUBSET Requests
      BY DEF Open, Over
    <2>3. /\ Cardinality(Open(k, a) \cup Over) = Cardinality(Open(k, a)) + Cardinality(Over)
          /\ Cardinality(Open(k, a)) \in Nat /\ Cardinality(Over) \in Nat
      <3>1. /\ IsFiniteSet(Open(k, a)) /\ Cardinality(Open(k, a)) \in Nat
            /\ IsFiniteSet(Over) /\ Cardinality(Over) \in Nat
        BY OpenType, OverType
      <3>2. Cardinality(Open(k, a) \cup Over) =
               Cardinality(Open(k, a)) + Cardinality(Over) - Cardinality(Open(k, a) \cap Over)
        BY <3>1, FS_Union
      <3>3. Cardinality(Open(k, a) \cap Over) = 0
        BY <2>2, FS_EmptySet
      <3> QED
        BY <3>1, <3>2, <3>3
    <2>4. Cardinality(Open(k, a)) + Cardinality(Over) <= Cardinality(Requests)
      BY <2>2, <2>3, Finite
    <2>5. Count(k, a) \in Nat /\ Cardinality(Requests) \in Nat
      BY <1>1, StateShape, Finite DEF Count
    <2> QED
      BY <2>1, <2>3, <2>4, <2>5
  <1>3. ASSUME NEW k \in Names
        PROVE  State(k).inflight \in [Addrs -> 0..Cardinality(Requests)]
    <2>1. State(k).inflight \in [Addrs -> Nat] /\ Cardinality(Requests) \in Nat
      BY <1>1, StateShape, Finite
    <2>2. \A a \in Addrs : State(k).inflight[a] <= Cardinality(Requests)
      BY <1>2 DEF Count
    <2> QED
      BY <2>1, <2>2
  <1> QED
    BY <1>3 DEF Inv, Counts, Count, OpenRequestsCounted

(* The requests in flight to a component that stays declared are counted,  *)
(* through every reload, and no count leaves the range of the requests     *)
(* there are (lb.go, Acquire, Release and Forget).                         *)
THEOREM OpenAreCounted == Spec => []OpenRequestsCounted
  <1>1. Inv => OpenRequestsCounted
    BY CountsInRange
  <1> QED
    BY <1>1, Invariance, PTL

-----------------------------------------------------------------------------
(***************************************************************************)
(* The second invariant: the types of what is loaded and counted, and what *)
(* a request has tried.  It needs the shapes of the first.                 *)
(***************************************************************************)

VHostsTyped(vhosts) == \A d \in DOMAIN vhosts : vhosts[d] \in Policies
ServicesTyped(services) == \A s \in DOMAIN services : services[s] \subseteq Instances

DbTyped ==
    /\ db.routes \subseteq Routes /\ db.comps \subseteq Names /\ db.healthy \subseteq Instances
    /\ VHostsTyped(db.vhosts) /\ changes \in 0..MaxChanges

TableTyped ==
    table.entries \subseteq Routes /\ ServicesTyped(table.services) /\ VHostsTyped(table.vhosts)

ReloadTyped(x) ==
    /\ x.pc = "routes" => x.routes \subseteq Routes
    /\ x.pc \in {"components", "loaded"} => x.entries \subseteq Routes /\ VHostsTyped(x.vhosts)
    /\ x.pc = "loaded" => ServicesTyped(x.services)

BalancesTyped == \A k \in Names : picker[k] # NoState => picker[k].current \in [Addrs -> Int]
PoolTyped == pool \subseteq [addr : Addrs, websocket : BOOLEAN]

(* How many attempts a request has made, the one under way included.       *)
Made(x) == IF x.pc = "pick" THEN x.attempt ELSE x.attempt + 1

Fewer(m, n) == IF m <= n THEN m ELSE n

(* Each attempt was at another instance, while there was one.              *)
Forwarded(x) ==
    /\ x.target.comp \in Names /\ IsPool(x.target.instances) /\ Len(x.target.instances) > 0
    /\ x.attempt \in Nat /\ x.attempt < MaxAttempts
    /\ x.tried \subseteq AddressesOf(x.target.instances)
    /\ Cardinality(x.tried) = Fewer(Len(x.target.instances), Made(x))
    /\ x.pc # "pick" => x.upstream \in Addrs

GaveUp(x) == Cardinality(x.tried) = Fewer(MaxAttempts, x.known) /\ x.known \in Nat

RequestTyped(x) ==
    /\ x.pc \in {"new", "dispatch", "lookup", "pick", "send", "serving", "done"}
    /\ x.pc \in {"dispatch", "lookup", "pick", "send", "serving"} => x.kind \in Kinds
    /\ x.pc \in {"lookup", "pick", "send", "serving"} => x.pol.websocket \in BOOLEAN
    /\ x.pc \in {"pick", "send", "serving"} => Forwarded(x)
    /\ x.pc = "done" /\ x.answer = "badGateway" => GaveUp(x)

Typed ==
    /\ DbTyped /\ TableTyped /\ up \in BOOLEAN
    /\ \A p \in Refreshers : ReloadTyped(refresh[p])
    /\ BalancesTyped /\ PoolTyped
    /\ \A q \in Requests : RequestTyped(req[q])

-----------------------------------------------------------------------------
LEMMA LoadsTyped ==
    ASSUME NEW entries, NEW healthy \in SUBSET Instances, NEW services \in ServiceLoads(entries, healthy)
    PROVE  ServicesTyped(services)
  <1>1. PICK names, f : services = [s \in names |-> Healthy(healthy, f[s])]
    BY DEF ServiceLoads
  <1>2. \A c : Healthy(healthy, c) \subseteq Instances
    BY DEF Healthy
  <1> QED
    BY <1>1, <1>2 DEF ServicesTyped

LEMMA PolicyTyped ==
    ASSUME TableTyped, NEW d
    PROVE  ResolvePolicy(VHost(table, d)).websocket \in BOOLEAN
  <1> DEFINE row == VHost(table, d)
  <1>1. row = None \/ row \in Policies
    BY DEF VHost, TableTyped, VHostsTyped
  <1>2. CASE row = None
    BY <1>2, RoutingAssumption DEF ResolvePolicy
  <1>3. CASE row # None /\ row \in Policies
    <2> HIDE DEF row
    <2>1. ResolvePolicy(row).websocket = row.websocket
      BY <1>3, RoutingAssumption DEF ResolvePolicy
    <2> QED
      BY <1>3, <2>1, RoutingAssumption DEF row
  <1> QED
    BY <1>1, <1>2, <1>3

LEMMA InitTyped == Init => Typed
  <1> SUFFICES ASSUME Init PROVE Typed
    OBVIOUS
  <1>1. DbTyped
    BY KindAssumption DEF Init, DbTyped, VHostsTyped
  <1>2. TableTyped
    BY LoadsTyped DEF Init, TableTyped, VHostsTyped
  <1>3. \A p \in Refreshers : ReloadTyped(refresh[p])
    BY DEF Init, ReloadTyped, Idle
  <1>4. \A q \in Requests : RequestTyped(req[q])
    BY DEF Init, RequestTyped, NewRequest
  <1>5. BalancesTyped /\ PoolTyped /\ up \in BOOLEAN
    BY DEF Init, BalancesTyped, PoolTyped
  <1> QED
    BY <1>1, <1>2, <1>3, <1>4, <1>5 DEF Typed

-----------------------------------------------------------------------------
LEMMA ChangeTyped ==
    ASSUME Inv, Typed, ChangeRoute \/ ChangeComponent \/ ChangePolicy \/ ChangeHealth
    PROVE  Typed'
  <1>1. UNCHANGED <<table, refresh, picker, pool, req, up>> /\ Changed
    BY DEF ChangeRoute, ChangeComponent, ChangePolicy, ChangeHealth, ChangeRest
  <1>2. changes' \in 0..MaxChanges
    BY <1>1, KindAssumption DEF Changed, Typed, DbTyped
  <1>3. db = [routes |-> db.routes, comps |-> db.comps, healthy |-> db.healthy, vhosts |-> db.vhosts]
    BY DEF Inv, Shape
  <1>4. /\ db'.routes \subseteq Routes /\ db'.comps \subseteq Names /\ db'.healthy \subseteq Instances
        /\ VHostsTyped(db'.vhosts)
    <2>1. CASE ChangeRoute
      BY <1>3, <2>1 DEF ChangeRoute, Toggle, Typed, DbTyped
    <2>2. CASE ChangeComponent
      BY <1>3, <2>2 DEF ChangeComponent, Toggle, Typed, DbTyped
    <2>3. CASE ChangePolicy
      <3>1. PICK d \in { r.domain : r \in Routes }, p \in Policies :
               db' = [db EXCEPT !.vhosts = [e \in DOMAIN db.vhosts \cup {d} |->
                                               IF e = d THEN p ELSE db.vhosts[e]]]
        BY <1>3, <2>3 DEF ChangePolicy
      <3> DEFINE v == [e \in DOMAIN db.vhosts \cup {d} |-> IF e = d THEN p ELSE db.vhosts[e]]
      <3>2. VHostsTyped(v)
        BY DEF VHostsTyped, Typed, DbTyped
      <3> HIDE DEF v
      <3>3. db' = [db EXCEPT !.vhosts = v]
        BY <3>1 DEF v
      <3> QED
        BY <1>3, <3>2, <3>3 DEF Typed, DbTyped
    <2>4. CASE ChangeHealth
      BY <1>3, <2>4 DEF ChangeHealth, Toggle, Typed, DbTyped
    <2> QED
      BY <2>1, <2>2, <2>3, <2>4
  <1> QED
    BY <1>1, <1>2, <1>4 DEF Typed, DbTyped, TableTyped, BalancesTyped, PoolTyped

(* What a step of a reload has to show.                                    *)
LEMMA ReloadMoves ==
    ASSUME Inv, Typed, NEW p \in Refreshers, NEW x, refresh' = [refresh EXCEPT ![p] = x],
           ReloadTyped(x), TableTyped', PoolTyped', BalancesTyped',
           UNCHANGED <<db, changes, req, up>>
    PROVE  Typed'
  <1>1. refresh'[p] = x /\ \A r \in Refreshers \ {p} : refresh'[r] = refresh[r]
    BY DEF Inv, Shape
  <1>2. \A r \in Refreshers : ReloadTyped(refresh'[r])
    BY <1>1 DEF Typed
  <1>3. DbTyped'
    BY DEF Typed, DbTyped
  <1> QED
    BY <1>2, <1>3 DEF Typed

LEMMA RefreshTyped ==
    ASSUME Inv, Typed, NEW p \in Refreshers,
           \/ RefreshRoutes(p) \/ RefreshComponents(p) \/ RefreshInstances(p) \/ RefreshFails(p)
           \/ RefreshSwap(p) \/ RefreshPrune(p) \/ RefreshKeys(p) \/ RefreshForget(p)
    PROVE  Typed'
  <1>1. UNCHANGED <<db, changes, req, up>>
    BY DEF RefreshRoutes, RefreshComponents, RefreshInstances, RefreshFails, RefreshSwap,
           RefreshPrune, RefreshKeys, RefreshForget
  <1>2. DbTyped /\ TableTyped /\ ReloadTyped(refresh[p]) /\ BalancesTyped /\ PoolTyped
    BY DEF Typed
  <1>3. BalancesTyped'
    <2>1. \A k \in Names : picker'[k] \in {picker[k], NoState}
      BY DEF RefreshRoutes, RefreshComponents, RefreshInstances, RefreshFails, RefreshSwap,
             RefreshPrune, RefreshKeys, RefreshForget
    <2> QED
      BY <1>2, <2>1 DEF BalancesTyped
  <1>4. PoolTyped'
    <2>1. pool' \subseteq pool
      BY DEF RefreshRoutes, RefreshComponents, RefreshInstances, RefreshFails, RefreshSwap,
             RefreshPrune, RefreshKeys, RefreshForget
    <2> QED
      BY <1>2, <2>1 DEF PoolTyped
  <1>5. table' = table => TableTyped'
    BY <1>2 DEF TableTyped
  <1>6. CASE RefreshRoutes(p)
    <2> DEFINE x == [pc |-> "routes", routes |-> db.routes]
    <2>1. refresh' = [refresh EXCEPT ![p] = x] /\ table' = table
      BY <1>6 DEF RefreshRoutes
    <2>2. ReloadTyped(x)
      BY <1>2 DEF ReloadTyped, DbTyped
    <2> HIDE DEF x
    <2> QED
      BY <1>1, <1>3, <1>4, <1>5, <2>1, <2>2, ReloadMoves
  <1>7. CASE RefreshComponents(p)
    <2> DEFINE x == [pc |-> "components", vhosts |-> db.vhosts,
                     entries |-> Entries(refresh[p].routes, db.comps)]
    <2>1. refresh' = [refresh EXCEPT ![p] = x] /\ table' = table
      BY <1>7 DEF RefreshComponents
    <2>2. Entries(refresh[p].routes, db.comps) \subseteq Routes
      BY <1>2, <1>7 DEF RefreshComponents, ReloadTyped, Entries
    <2>3. ReloadTyped(x)
      BY <1>2, <2>2 DEF ReloadTyped, DbTyped
    <2> HIDE DEF x
    <2> QED
      BY <1>1, <1>3, <1>4, <1>5, <2>1, <2>3, ReloadMoves
  <1>8. CASE RefreshInstances(p)
    <2>1. PICK services \in ServiceLoads(refresh[p].entries, db.healthy) :
             refresh' = [refresh EXCEPT ![p] = [pc |-> "loaded", entries |-> refresh[p].entries,
                                                vhosts |-> refresh[p].vhosts, services |-> services]]
      BY <1>8 DEF RefreshInstances
    <2> DEFINE x == [pc |-> "loaded", entries |-> refresh[p].entries,
                     vhosts |-> refresh[p].vhosts, services |-> services]
    <2>2. ServicesTyped(services)
      BY <1>2, LoadsTyped DEF DbTyped
    <2>3. ReloadTyped(x)
      BY <1>2, <1>8, <2>2 DEF RefreshInstances, ReloadTyped
    <2>4. refresh' = [refresh EXCEPT ![p] = x] /\ table' = table
      BY <1>8, <2>1 DEF RefreshInstances
    <2> HIDE DEF x
    <2> QED
      BY <1>1, <1>3, <1>4, <1>5, <2>3, <2>4, ReloadMoves
  <1>9. CASE RefreshFails(p) \/ RefreshForget(p)
    <2>1. refresh' = [refresh EXCEPT ![p] = Idle] /\ table' = table
      BY <1>9 DEF RefreshFails, RefreshForget
    <2>2. ReloadTyped(Idle)
      BY DEF ReloadTyped, Idle
    <2> QED
      BY <1>1, <1>3, <1>4, <1>5, <2>1, <2>2, ReloadMoves
  <1>10. CASE RefreshSwap(p)
    <2> DEFINE x == [pc |-> "prune"]
    <2>1. refresh' = [refresh EXCEPT ![p] = x] /\ ReloadTyped(x)
      BY <1>10 DEF RefreshSwap, ReloadTyped
    <2>2. TableTyped'
      BY <1>2, <1>10 DEF RefreshSwap, ReloadTyped, TableTyped
    <2> HIDE DEF x
    <2> QED
      BY <1>1, <1>3, <1>4, <2>1, <2>2, ReloadMoves
  <1>11. CASE RefreshPrune(p)
    <2> DEFINE x == [pc |-> "keys"]
    <2>1. refresh' = [refresh EXCEPT ![p] = x] /\ ReloadTyped(x) /\ table' = table
      BY <1>11 DEF RefreshPrune, ReloadTyped
    <2> HIDE DEF x
    <2> QED
      BY <1>1, <1>3, <1>4, <1>5, <2>1, ReloadMoves
  <1>12. CASE RefreshKeys(p)
    <2> DEFINE x == [pc |-> "forget", live |-> TargetKeys(table)]
    <2>1. refresh' = [refresh EXCEPT ![p] = x] /\ ReloadTyped(x) /\ table' = table
      BY <1>12 DEF RefreshKeys, ReloadTyped
    <2> HIDE DEF x
    <2> QED
      BY <1>1, <1>3, <1>4, <1>5, <2>1, ReloadMoves
  <1> QED
    BY <1>6, <1>7, <1>8, <1>9, <1>10, <1>11, <1>12

-----------------------------------------------------------------------------
(* What a step of a request has to show.                                   *)
LEMMA RequestSteps ==
    ASSUME Inv, Typed, NEW q \in Requests, NEW x, req' = [req EXCEPT ![q] = x], RequestTyped(x),
           UNCHANGED <<db, changes, table, refresh, up>>, BalancesTyped', PoolTyped'
    PROVE  Typed'
  <1>1. req'[q] = x /\ \A r \in Requests \ {q} : req'[r] = req[r]
    BY DEF Inv, Shape
  <1>2. \A r \in Requests : RequestTyped(req'[r])
    BY <1>1 DEF Typed
  <1>3. DbTyped' /\ TableTyped'
    BY DEF Typed, DbTyped, TableTyped
  <1> QED
    BY <1>2, <1>3 DEF Typed

LEMMA DoneTyped ==
    ASSUME NEW answer, answer # "badGateway"
    PROVE  RequestTyped([pc |-> "done", answer |-> answer])
  BY DEF RequestTyped

LEMMA ArriveTyped ==
    ASSUME Inv, Typed, NEW q \in Requests, Arrive(q) \/ Dispatch(q) PROVE Typed'
  <1>1. UNCHANGED <<db, changes, table, refresh, picker, pool, up>>
    BY DEF Arrive, Dispatch
  <1>2. BalancesTyped' /\ PoolTyped' /\ TableTyped
    BY <1>1 DEF Typed, BalancesTyped, PoolTyped
  <1>3. CASE Arrive(q)
    <2>1. PICK k \in Kinds, answer \in {"redirect", "rejected"} :
             \/ req' = [req EXCEPT ![q] = [pc |-> "dispatch", kind |-> k]]
             \/ req' = [req EXCEPT ![q] = [pc |-> "done", answer |-> answer]]
      BY <1>3, Zenon DEF Arrive, Done
    <2> DEFINE goOn == [pc |-> "dispatch", kind |-> k]
               stop == [pc |-> "done", answer |-> answer]
    <2>2. RequestTyped(goOn)
      BY DEF RequestTyped
    <2>3. RequestTyped(stop)
      BY DoneTyped
    <2>4. req' = [req EXCEPT ![q] = goOn] \/ req' = [req EXCEPT ![q] = stop]
      BY <2>1
    <2> HIDE DEF goOn, stop
    <2> QED
      BY <1>1, <1>2, <2>2, <2>3, <2>4, RequestSteps
  <1>4. CASE Dispatch(q)
    <2> DEFINE k == req[q].kind
               pol == ResolvePolicy(VHost(table, k.domain))
               goOn == [pc |-> "lookup", kind |-> k, pol |-> pol]
               stop == [pc |-> "done", answer |-> "rejected"]
    <2>1. req' = [req EXCEPT ![q] = goOn] \/ req' = [req EXCEPT ![q] = stop]
      BY <1>4, Zenon DEF Dispatch, Done
    <2>2. k \in Kinds /\ pol.websocket \in BOOLEAN
      <3>1. RequestTyped(req[q]) /\ req[q].pc = "dispatch"
        BY <1>4 DEF Dispatch, Typed
      <3> QED
        BY <1>2, <3>1, PolicyTyped DEF RequestTyped
    <2>3. RequestTyped(stop)
      BY DoneTyped
    <2> HIDE DEF k, pol
    <2>4. RequestTyped(goOn)
      BY <2>2 DEF RequestTyped
    <2> HIDE DEF goOn, stop
    <2> QED
      BY <1>1, <1>2, <2>1, <2>3, <2>4, RequestSteps
  <1> QED
    BY <1>3, <1>4

LEMMA EmptyPool ==
    ASSUME NEW instances, IsPool(instances)
    PROVE  /\ Len(instances) \in Nat
           /\ instances # << >> => Len(instances) > 0
           /\ instances = << >> => Len(instances) = 0
  <1>1. Len(instances) \in Nat /\ instances = [n \in 1..Len(instances) |-> instances[n]]
    BY DEF IsPool
  <1>2. Len(instances) = 0 => instances = << >>
    BY <1>1
  <1> QED
    BY <1>1, <1>2

(* A request that is forwarded has a component and instances of it.        *)
LEMMA RouteTyped ==
    ASSUME Inv, Typed, NEW q \in Requests, Route(q) PROVE Typed'
  <1> DEFINE k == req[q].kind
             target == Lookup(table, k.domain, k.path, k.lane)
             x == [pc |-> "pick", kind |-> k, pol |-> req[q].pol, target |-> target,
                   tried |-> {}, attempt |-> 0, written |-> FALSE]
  <1>1. UNCHANGED <<db, changes, table, refresh, picker, pool, up>> /\ req[q].pc = "lookup"
    BY DEF Route
  <1>2. BalancesTyped' /\ PoolTyped' /\ TableTyped /\ RequestTyped(req[q])
    BY <1>1 DEF Typed, BalancesTyped, PoolTyped
  <1>3. \/ \E answer \in {"noRoute", "redirect", "tooLarge", "static", "portConflict", "noInstance"} :
              req' = Done(q, answer)
        \/ target # None /\ target.instances # << >> /\ req' = [req EXCEPT ![q] = x]
    BY DEF Route, Forwarding
  <1>4. ASSUME NEW answer, answer # "badGateway", req' = Done(q, answer) PROVE Typed'
    <2> DEFINE y == [pc |-> "done", answer |-> answer]
    <2>1. RequestTyped(y) /\ req' = [req EXCEPT ![q] = y]
      BY <1>4, DoneTyped DEF Done
    <2> HIDE DEF y
    <2> QED
      BY <1>1, <1>2, <2>1, RequestSteps
  <1>5. ASSUME target # None, target.instances # << >>, req' = [req EXCEPT ![q] = x] PROVE Typed'
    <2> DEFINE hits == Hits(table, k.domain, k.path)
    <2>1. /\ table.entries \subseteq Routes
          /\ \A s \in DOMAIN table.services : table.services[s] \subseteq Instances
      BY <1>2 DEF TableTyped, ServicesTyped
    <2>2. hits # {} /\ IsPool(target.instances) /\ \E r \in hits : target.comp = r.comp
      BY <1>5, <2>1, LongestPrefixWins
    <2>3. hits \subseteq Routes
      BY <2>1 DEF Hits
    <2>4. target.comp \in Names
      BY <2>2, <2>3, RoutingAssumption DEF Names
    <2>5. Len(target.instances) \in Nat /\ Len(target.instances) > 0
      BY <1>5, <2>2, EmptyPool
    <2>6. k \in Kinds /\ req[q].pol.websocket \in BOOLEAN
      BY <1>1, <1>2 DEF RequestTyped
    <2> HIDE DEF k, target
    <2>7. Cardinality({}) = Fewer(Len(target.instances), 0)
      BY <2>5, FS_EmptySet DEF Fewer
    <2>8. Forwarded(x)
      BY <2>2, <2>4, <2>5, <2>7, KindAssumption DEF Forwarded, Made
    <2>9. RequestTyped(x)
      BY <2>6, <2>8 DEF RequestTyped
    <2> HIDE DEF x
    <2> QED
      BY <1>1, <1>2, <1>5, <2>9, RequestSteps
  <1> QED
    BY <1>3, <1>4, <1>5

-----------------------------------------------------------------------------
(* untried: instances of the target, none of them tried while there is     *)
(* another one, and none left only when all were.                          *)
LEMMA CandidatesFacts ==
    ASSUME NEW q, Forwarded(req[q])
    PROVE  LET all == req[q].target.instances
               c == Candidates(q)
           IN  /\ IsPool(c) /\ Range(c) \subseteq Range(all)
               /\ c = << >> => Len(all) > 1 /\ req[q].tried = AddressesOf(all)
               /\ Len(all) > 1 => \A i \in Range(c) : i.addr \notin req[q].tried
  <1> DEFINE all == req[q].target.instances
             rest == { i \in Range(all) : i.addr \notin req[q].tried }
             c == Candidates(q)
  <1>1. IsPool(all) /\ Len(all) > 0 /\ Len(all) \in Nat /\ req[q].tried \subseteq AddressesOf(all)
    BY PoolFacts DEF Forwarded
  <1>2. rest \in SUBSET Instances /\ rest \subseteq Range(all)
    BY <1>1, PoolFacts
  <1>3. rest = {} => req[q].tried = AddressesOf(all)
    BY <1>1 DEF AddressesOf
  <1>4. IsPool(SortInstances(rest)) /\ Range(SortInstances(rest)) = rest
    BY <1>2, SortedInstances
  <1>5. c = IF rest = {} /\ Len(all) = 1 THEN all ELSE SortInstances(rest)
    BY DEF Candidates
  <1>6. \A i \in rest : i.addr \notin req[q].tried
    OBVIOUS
  <1> HIDE DEF rest
  <1>7. CASE rest = {} /\ Len(all) = 1
    <2>1. c = all /\ all # << >>
      BY <1>1, <1>5, <1>7, EmptyPool
    <2> HIDE DEF c, all
    <2> QED
      BY <1>1, <1>7, <2>1 DEF c, all
  <1>8. CASE ~(rest = {} /\ Len(all) = 1)
    <2>1. IsPool(c) /\ Range(c) = rest
      BY <1>4, <1>5, <1>8
    <2>2. c = << >> => rest = {}
      <3>1. c = << >> => Range(c) = {}
        BY DEF Range
      <3> QED
        BY <2>1, <3>1
    <2>3. c = << >> => Len(all) > 1 /\ req[q].tried = AddressesOf(all)
      <3>1. Len(all) # 1 => Len(all) > 1
        <4>1. \A n \in Nat : n > 0 /\ n # 1 => n > 1
          OBVIOUS
        <4> QED
          BY <1>1, <4>1, Zenon
      <3> QED
        BY <1>3, <1>8, <2>2, <3>1, Zenon
    <2>4. \A i \in Range(c) : i.addr \notin req[q].tried
      BY <1>6, <2>1
    <2> QED
      BY <1>2, <2>1, <2>3, <2>4
  <1> QED
    BY <1>7, <1>8

(* Whatever the algorithm, a candidate is picked, and balances stay        *)
(* integers.                                                               *)
LEMMA PickedTyped ==
    ASSUME PickerShape, BalancesTyped, NEW q, req[q].target.comp \in Names, req[q].kind \in Kinds,
           NEW c, IsPool(c), Len(c) > 0
    PROVE  /\ Picked(q, c).instance \in Range(c)
           /\ Picked(q, c).state # NoState => Picked(q, c).state.current \in [Addrs -> Int]
  <1> DEFINE k == req[q].target.comp
             s == State(k)
             kind == req[q].kind
             rr == PickRoundRobin(s.current, c)
  <1>1. \/ Picked(q, c) = [instance |-> c[1], state |-> picker[k]]
        \/ Picked(q, c) = [instance |-> PickHashed(kind.client, c), state |-> s]
        \/ kind.cookie # None /\ Picked(q, c) = [instance |-> PickHashed(kind.cookie, c), state |-> s]
        \/ Picked(q, c) = [instance |-> PickLeastConn(s.inflight, c), state |-> s]
        \/ Picked(q, c) = [instance |-> rr.instance, state |-> [s EXCEPT !.current = rr.current]]
    BY DEF Picked
  <1>2. IsState(s) /\ s.inflight \in [Addrs -> Nat] /\ s.current \in [Addrs -> Int]
    <2>1. FreshState.current \in [Addrs -> Int]
      BY DEF FreshState
    <2> QED
      BY <2>1, StateShape DEF State, BalancesTyped
  <1>3. HashIndex[kind.client] \in Nat /\ (kind.cookie # None => HashIndex[kind.cookie] \in Nat)
    <2>1. \A j \in Kinds : HashIndex[j.client] \in Nat /\ (j.cookie # None => HashIndex[j.cookie] \in Nat)
      BY KindAssumption
    <2> QED
      BY <2>1
  <1>4. c[1] \in Range(c)
    BY PoolFacts
  <1>5. PickHashed(kind.client, c) \in Range(c)
    BY <1>3, PickHashedPicks
  <1>6. kind.cookie # None => PickHashed(kind.cookie, c) \in Range(c)
    BY <1>3, PickHashedPicks
  <1>7. PickLeastConn(s.inflight, c) \in Range(c)
    BY <1>2, PickLeastConnPicks
  <1>8. rr.instance \in Range(c) /\ rr.current \in [Addrs -> Int]
    BY <1>2, PickRoundRobinPicks
  <1>9. picker[k] # NoState => picker[k].current \in [Addrs -> Int]
    BY DEF BalancesTyped
  <1>10. [s EXCEPT !.current = rr.current].current = rr.current
    BY <1>2 DEF IsState
  <1> HIDE DEF k, s, kind, rr
  <1>11. Picked(q, c).instance \in Range(c)
    BY <1>1, <1>4, <1>5, <1>6, <1>7, <1>8
  <1>12. Picked(q, c).state \in {picker[k], s, [s EXCEPT !.current = rr.current]}
    BY <1>1
  <1> QED
    BY <1>2, <1>8, <1>9, <1>10, <1>11, <1>12

(* The attempt at another instance, or again at the only one.              *)
LEMMA OneMoreTried ==
    ASSUME NEW all, IsPool(all), Len(all) > 0, NEW tried, tried \subseteq AddressesOf(all),
           NEW attempt \in Nat, Cardinality(tried) = Fewer(Len(all), attempt),
           NEW u \in AddressesOf(all), Len(all) > 1 => u \notin tried
    PROVE  Cardinality(tried \cup {u}) = Fewer(Len(all), attempt + 1)
  <1> DEFINE more == tried \cup {u}
             n == Len(all)
  <1>1. /\ IsFiniteSet(AddressesOf(all)) /\ Cardinality(AddressesOf(all)) = n /\ n \in Nat
        /\ more \subseteq AddressesOf(all)
    BY PoolAddresses, PoolFacts
  <1>2. /\ IsFiniteSet(tried) /\ Cardinality(tried) \in Nat
        /\ IsFiniteSet(more) /\ Cardinality(more) \in Nat /\ Cardinality(more) <= n
    BY <1>1, FS_Subset, FS_CardinalityType
  <1>3. CASE n > 1
    <2>1. Cardinality(more) = Cardinality(tried) + 1
      BY <1>2, <1>3, FS_AddElement
    <2> HIDE DEF more
    <2> QED
      BY <1>1, <1>2, <1>3, <2>1 DEF Fewer, more
  <1>4. CASE n = 1
    <2>1. Cardinality(more) # 0
      BY <1>2, FS_EmptySet
    <2> HIDE DEF more
    <2> QED
      BY <1>1, <1>2, <1>4, <2>1 DEF Fewer, more
  <1> QED
    BY <1>1, <1>3, <1>4

LEMMA PickTyped ==
    ASSUME Inv, Typed, NEW q \in Requests, Pick(q) PROVE Typed'
  <1> DEFINE x == req[q]
             all == x.target.instances
             c == Candidates(q)
             p == Picked(q, c)
             u == p.instance.addr
             k == x.target.comp
             bad == [pc |-> "done", answer |-> "badGateway", tried |-> x.tried,
                     attempt |-> x.attempt, known |-> Len(all)]
             no == [pc |-> "done", answer |-> "forbidden"]
             sent == [pc |-> "send", upstream |-> u, kind |-> x.kind, pol |-> x.pol,
                      target |-> x.target, tried |-> x.tried \cup {u}, attempt |-> x.attempt,
                      written |-> x.written]
  <1>1. UNCHANGED <<db, changes, table, refresh, pool, up>> /\ x.pc = "pick"
    BY DEF Pick
  <1>2. /\ PickerShape /\ BalancesTyped /\ PoolTyped' /\ x.kind \in Kinds
        /\ x.pol.websocket \in BOOLEAN /\ Forwarded(x)
    <2>1. RequestTyped(x) /\ BalancesTyped /\ PoolTyped
      BY DEF Typed
    <2> QED
      BY <1>1, <2>1 DEF Inv, Shape, PoolTyped, RequestTyped
  <1>3. /\ IsPool(c) /\ Range(c) \subseteq Range(all)
        /\ c = << >> => Len(all) > 1 /\ x.tried = AddressesOf(all)
        /\ Len(all) > 1 => \A i \in Range(c) : i.addr \notin x.tried
    BY <1>2, CandidatesFacts
  <1>4. /\ k \in Names /\ IsPool(all) /\ Len(all) > 0 /\ Len(all) \in Nat
        /\ x.attempt \in Nat /\ x.attempt < MaxAttempts /\ x.tried \subseteq AddressesOf(all)
        /\ Cardinality(x.tried) = Fewer(Len(all), x.attempt)
    BY <1>1, <1>2, PoolFacts DEF Forwarded, Made
  <1>5. \/ c = << >> /\ req' = [req EXCEPT ![q] = bad] /\ picker' = picker
        \/ /\ c # << >> /\ picker' = [picker EXCEPT ![k] = p.state]
           /\ \/ u \in x.tried /\ Len(all) > 1
              \/ req' = [req EXCEPT ![q] = no] \/ req' = [req EXCEPT ![q] = sent]
    BY Zenon DEF Pick, BadGateway, Done
  <1> HIDE DEF c, p
  <1>6. CASE c = << >> /\ req' = [req EXCEPT ![q] = bad] /\ picker' = picker
    <2>1. BalancesTyped'
      BY <1>2, <1>6 DEF BalancesTyped
    <2>2. Cardinality(x.tried) = Len(all)
      BY <1>3, <1>4, <1>6, PoolAddresses
    <2>3. Fewer(MaxAttempts, Len(all)) = Len(all)
      BY <1>4, <2>2, KindAssumption DEF Fewer
    <2> HIDE DEF x, all
    <2>4. RequestTyped(bad)
      BY <1>4, <2>2, <2>3 DEF RequestTyped, GaveUp
    <2> HIDE DEF bad
    <2> QED
      BY <1>1, <1>2, <1>6, <2>1, <2>4, RequestSteps
  <1>7. CASE /\ c # << >> /\ picker' = [picker EXCEPT ![k] = p.state]
             /\ \/ u \in x.tried /\ Len(all) > 1
                \/ req' = [req EXCEPT ![q] = no] \/ req' = [req EXCEPT ![q] = sent]
    <2>1. Len(c) > 0
      BY <1>3, <1>7, EmptyPool
    <2>2. p.instance \in Range(c) /\ (p.state # NoState => p.state.current \in [Addrs -> Int])
      BY <1>2, <1>3, <1>4, <2>1, PickedTyped DEF p
    <2>3. u \in AddressesOf(all) /\ u \in Addrs /\ (Len(all) > 1 => u \notin x.tried)
      BY <1>3, <1>4, <2>2, PoolAddresses DEF AddressesOf
    <2>4. BalancesTyped'
      <3>1. \A j \in Names : picker'[j] = IF j = k THEN p.state ELSE picker[j]
        BY <1>2, <1>7 DEF PickerShape
      <3> QED
        BY <1>2, <2>2, <3>1 DEF BalancesTyped
    <2>5. Cardinality(x.tried \cup {u}) = Fewer(Len(all), x.attempt + 1)
      BY <1>4, <2>3, OneMoreTried
    <2>6. RequestTyped(no)
      BY DoneTyped
    <2> HIDE DEF u
    <2>7. Forwarded(sent)
      BY <1>4, <2>3, <2>5 DEF Forwarded, Made
    <2>8. RequestTyped(sent)
      BY <1>2, <2>7 DEF RequestTyped
    <2>9. req' = [req EXCEPT ![q] = no] \/ req' = [req EXCEPT ![q] = sent]
      BY <1>7, <2>3
    <2> HIDE DEF no, sent
    <2> QED
      BY <1>1, <1>2, <2>4, <2>6, <2>8, <2>9, RequestSteps
  <1> QED
    BY <1>5, <1>6, <1>7

-----------------------------------------------------------------------------
(* Acquire and Release leave the balances alone.                           *)
LEMMA BalancesKept ==
    ASSUME PickerShape, BalancesTyped, NEW k, NEW u, NEW n, picker' = WithCount(k, u, n)
    PROVE  BalancesTyped'
  <1> DEFINE s == [State(k) EXCEPT !.inflight[u] = n]
  <1>1. \A j \in Names : picker'[j] = IF j = k THEN s ELSE picker[j]
    BY DEF PickerShape, WithCount
  <1>2. ASSUME k \in Names PROVE s.current \in [Addrs -> Int]
    <2>1. IsState(State(k)) /\ State(k).current \in [Addrs -> Int]
      <3>1. FreshState.current \in [Addrs -> Int]
        BY DEF FreshState
      <3> QED
        BY <1>2, <3>1, StateShape DEF State, BalancesTyped
    <2>2. s = [lb |-> "state", current |-> State(k).current,
               inflight |-> [State(k).inflight EXCEPT ![u] = n]]
      BY <2>1 DEF IsState
    <2> HIDE DEF s
    <2> QED
      BY <2>1, <2>2
  <1> HIDE DEF s
  <1> QED
    BY <1>1, <1>2 DEF BalancesTyped

(* What a request in flight becomes                                        *)
LEMMA Served ==
    ASSUME NEW y, WithUpstream(y), RequestTyped(y), y.pc \in {"send", "serving"}, NEW z,
           \/ z = [y EXCEPT !.pc = "serving"] \/ z = [y EXCEPT !.written = TRUE]
    PROVE  RequestTyped(z)
  <1>1. /\ z.pc \in {"send", "serving"} /\ z.kind = y.kind /\ z.pol = y.pol
        /\ z.target = y.target /\ z.tried = y.tried /\ z.attempt = y.attempt
        /\ z.upstream = y.upstream
    BY DEF WithUpstream
  <1>2. Forwarded(y) /\ y.kind \in Kinds /\ y.pol.websocket \in BOOLEAN
    BY DEF RequestTyped
  <1>3. Forwarded(z)
    BY <1>1, <1>2 DEF Forwarded, Made
  <1> QED
    BY <1>1, <1>2, <1>3 DEF RequestTyped

(* The next attempt is not the last one yet.                               *)
LEMMA Retried ==
    ASSUME NEW y, WithUpstream(y), RequestTyped(y), y.pc = "serving", y.attempt + 1 # MaxAttempts,
           NEW z, z = [y EXCEPT !.pc = "pick", !.attempt = @ + 1]
    PROVE  RequestTyped(z)
  <1>1. /\ z.pc = "pick" /\ z.kind = y.kind /\ z.pol = y.pol /\ z.target = y.target
        /\ z.tried = y.tried /\ z.attempt = y.attempt + 1
    BY DEF WithUpstream
  <1>2. Forwarded(y) /\ y.kind \in Kinds /\ y.pol.websocket \in BOOLEAN
    BY DEF RequestTyped
  <1>3. z.attempt \in Nat /\ z.attempt < MaxAttempts
    BY <1>1, <1>2, KindAssumption DEF Forwarded
  <1>4. Made(z) = Made(y)
    BY <1>1 DEF Made
  <1>5. Forwarded(z)
    BY <1>1, <1>2, <1>3, <1>4 DEF Forwarded
  <1> QED
    BY <1>1, <1>2, <1>5 DEF RequestTyped

(* After the last attempt as many instances were tried as there were       *)
(* attempts, or all.                                                       *)
LEMMA LastFailed ==
    ASSUME NEW y, RequestTyped(y), y.pc = "serving", y.attempt + 1 = MaxAttempts,
           NEW z, z = [pc |-> "done", answer |-> "badGateway", tried |-> y.tried,
                       attempt |-> y.attempt, known |-> Len(y.target.instances)]
    PROVE  RequestTyped(z)
  <1> DEFINE n == Len(y.target.instances)
  <1>1. n \in Nat /\ Cardinality(y.tried) = Fewer(n, MaxAttempts)
    BY PoolFacts DEF RequestTyped, Forwarded, Made
  <1>2. z.pc = "done" /\ z.tried = y.tried /\ z.known = n
    OBVIOUS
  <1> HIDE DEF n
  <1>3. Fewer(n, MaxAttempts) = Fewer(MaxAttempts, n)
    BY <1>1, KindAssumption DEF Fewer
  <1>4. GaveUp(z)
    BY <1>1, <1>2, <1>3 DEF GaveUp
  <1> QED
    BY <1>2, <1>4 DEF RequestTyped

LEMMA SendTyped ==
    ASSUME Inv, Typed, NEW q \in Requests, Send(q) PROVE Typed'
  <1> DEFINE x == [req[q] EXCEPT !.pc = "serving"]
             k == req[q].target.comp
             u == req[q].upstream
  <1>1. UNCHANGED <<db, changes, table, refresh, up>> /\ req[q].pc = "send"
    BY DEF Send
  <1>2. /\ WithUpstream(req[q]) /\ RequestTyped(req[q]) /\ PickerShape /\ BalancesTyped
        /\ req' = [req EXCEPT ![q] = x] /\ PoolTyped
    BY <1>1 DEF Send, Inv, Shape, RequestShape, Typed
  <1>3. RequestTyped(x)
    BY <1>1, <1>2, Served
  <1>4. BalancesTyped'
    <2>1. picker' = WithCount(k, u, Count(k, u) + 1)
      BY DEF Send, WithCount, Count
    <2> QED
      BY <1>2, <2>1, BalancesKept
  <1>5. PoolTyped'
    <2>1. u \in Addrs /\ req[q].pol.websocket \in BOOLEAN
      BY <1>1, <1>2 DEF RequestTyped, Forwarded
    <2>2. pool' = pool \cup {[addr |-> u, websocket |-> req[q].pol.websocket]}
      BY DEF Send
    <2> HIDE DEF u
    <2> QED
      BY <1>2, <2>1, <2>2 DEF PoolTyped
  <1> HIDE DEF x
  <1> QED
    BY <1>1, <1>2, <1>3, <1>4, <1>5, RequestSteps

LEMMA ReturnTyped ==
    ASSUME Inv, Typed, NEW q \in Requests, Respond(q) \/ Fail(q) \/ Abort(q) PROVE Typed'
  <1> DEFINE k == req[q].target.comp
             u == req[q].upstream
             y == req[q]
             bad == [pc |-> "done", answer |-> "badGateway", tried |-> y.tried,
                     attempt |-> y.attempt, known |-> Len(y.target.instances)]
             again == [y EXCEPT !.pc = "pick", !.attempt = @ + 1]
             over(answer) == [pc |-> "done", answer |-> answer]
             less(n) == IF n > 0 THEN n - 1 ELSE 0
  <1>1. UNCHANGED <<db, changes, table, refresh, pool, up>> /\ y.pc = "serving"
    BY DEF Respond, Fail, Abort
  <1>2. WithUpstream(y) /\ RequestTyped(y) /\ PickerShape /\ BalancesTyped /\ PoolTyped'
    BY <1>1 DEF Inv, Shape, RequestShape, Typed, PoolTyped
  <1>3. BalancesTyped'
    <2>1. CASE picker' = picker
      BY <1>2, <2>1 DEF BalancesTyped
    <2>2. CASE Release(q)
      <3>1. picker' = WithCount(k, u, less(Count(k, u)))
        BY <2>2 DEF Release, WithCount, Count
      <3> QED
        BY <1>2, <3>1, BalancesKept
    <2> QED
      BY <2>1, <2>2 DEF Respond, Fail, Abort
  <1>4. \/ \E answer \in {"answered", "broken"} : req' = [req EXCEPT ![q] = over(answer)]
        \/ y.attempt + 1 = MaxAttempts /\ req' = [req EXCEPT ![q] = bad]
        \/ y.attempt + 1 # MaxAttempts /\ req' = [req EXCEPT ![q] = again]
    <2>1. CASE Respond(q) \/ Abort(q)
      BY <2>1 DEF Respond, Abort, Done
    <2>2. CASE Fail(q)
      BY <2>2 DEF Fail, AfterFailure, Done, BadGateway, Inv, Shape
    <2> QED
      BY <2>1, <2>2
  <1>5. \A answer \in {"answered", "broken"} : RequestTyped(over(answer))
    BY DoneTyped
  <1>6. y.attempt + 1 = MaxAttempts => RequestTyped(bad)
    BY <1>1, <1>2, LastFailed
  <1>7. y.attempt + 1 # MaxAttempts => RequestTyped(again)
    BY <1>1, <1>2, Retried
  <1> HIDE DEF bad, again, over, y
  <1>8. PICK x : req' = [req EXCEPT ![q] = x] /\ RequestTyped(x)
    BY <1>4, <1>5, <1>6, <1>7
  <1> QED
    BY <1>1, <1>2, <1>3, <1>8, RequestSteps

LEMMA HijackTyped ==
    ASSUME Inv, Typed, NEW q \in Requests, Hijack(q) PROVE Typed'
  <1> DEFINE x == [req[q] EXCEPT !.written = TRUE]
  <1>1. UNCHANGED <<db, changes, table, refresh, picker, pool, up>> /\ req[q].pc = "serving"
    BY DEF Hijack
  <1>2. /\ WithUpstream(req[q]) /\ RequestTyped(req[q]) /\ BalancesTyped' /\ PoolTyped'
        /\ req' = [req EXCEPT ![q] = x]
    BY <1>1 DEF Hijack, Inv, Shape, RequestShape, Typed, BalancesTyped, PoolTyped
  <1>3. RequestTyped(x)
    BY <1>1, <1>2, Served
  <1> HIDE DEF x
  <1> QED
    BY <1>1, <1>2, <1>3, RequestSteps

LEMMA NextTyped == Inv /\ Typed /\ [Next]_vars => Typed'
  <1> SUFFICES ASSUME Inv, Typed, [Next]_vars PROVE Typed'
    OBVIOUS
  <1>1. CASE ChangeRoute \/ ChangeComponent \/ ChangePolicy \/ ChangeHealth
    BY <1>1, ChangeTyped
  <1>2. ASSUME UNCHANGED <<db, changes, table, refresh, picker, req>>, pool' \in {pool, {}},
               up' \in {up, FALSE}
        PROVE  Typed'
    BY <1>2 DEF Typed, DbTyped, TableTyped, BalancesTyped, PoolTyped
  <1>3. CASE Shutdown
    BY <1>2, <1>3 DEF Shutdown
  <1>4. CASE UNCHANGED vars
    BY <1>2, <1>4 DEF vars
  <1>5. ASSUME NEW p \in Refreshers,
               \/ RefreshRoutes(p) \/ RefreshComponents(p) \/ RefreshInstances(p) \/ RefreshFails(p)
               \/ RefreshSwap(p) \/ RefreshPrune(p) \/ RefreshKeys(p) \/ RefreshForget(p)
        PROVE  Typed'
    BY <1>5, RefreshTyped
  <1>6. ASSUME NEW q \in Requests,
               \/ Arrive(q) \/ Dispatch(q) \/ Route(q)
               \/ Pick(q) \/ Send(q) \/ Respond(q) \/ Hijack(q) \/ Fail(q) \/ Abort(q)
        PROVE  Typed'
    BY <1>6, ArriveTyped, RouteTyped, PickTyped, SendTyped, HijackTyped, ReturnTyped
  <1> QED
    BY <1>1, <1>3, <1>4, <1>5, <1>6 DEF Next

LEMMA TypeInvariance == Spec => [](Inv /\ Typed)
  <1>1. Init => Inv /\ Typed
    BY InitInv, InitTyped
  <1>2. (Inv /\ Typed) /\ [Next]_vars => (Inv /\ Typed)'
    BY NextInv, NextTyped
  <1> QED
    BY <1>1, <1>2, PTL DEF Spec

-----------------------------------------------------------------------------
LEMMA FewerIsMin ==
    ASSUME NEW m \in Nat, NEW n \in Nat
    PROVE  Min({m, n}) = Fewer(m, n)
  <1> DEFINE S == {m, n}
             f == Fewer(m, n)
  <1>1. f \in S /\ \A y \in S : f <= y
    BY DEF Fewer
  <1>2. \A x \in S : (\A y \in S : x <= y) => x = f
    BY DEF Fewer
  <1> QED
    BY <1>1, <1>2 DEF Min

(* A 502 means that every instance the target had was tried, up to         *)
(* maxAttempts of them, for any algorithm, any number of requests and      *)
(* reloads in between (proxy.go, untried and Forward).                     *)
THEOREM AllTriedBefore502 == Spec => []EveryCandidateTried
  <1>1. ASSUME Typed PROVE EveryCandidateTried
    <2>1. ASSUME NEW q \in Requests, req[q].pc = "done", req[q].answer = "badGateway"
          PROVE  Cardinality(req[q].tried) = Min({MaxAttempts, req[q].known})
      <3>1. GaveUp(req[q])
        BY <1>1, <2>1 DEF Typed, RequestTyped
      <3> QED
        BY <3>1, FewerIsMin, KindAssumption DEF GaveUp
    <2> QED
      BY <2>1 DEF EveryCandidateTried
  <1> QED
    BY <1>1, TypeInvariance, PTL

LEMMA InvTypeOK == ASSUME Inv, Typed PROVE TypeOK
  <1>1. ASSUME NEW k \in Names, picker[k] # NoState
        PROVE  /\ picker[k].inflight \in [Addrs -> 0..Cardinality(Requests)]
               /\ picker[k].current \in [Addrs -> Int]
    <2>1. State(k).inflight \in [Addrs -> 0..Cardinality(Requests)]
      BY CountsInRange DEF OpenRequestsCounted
    <2> QED
      BY <1>1, <2>1 DEF State, Typed, BalancesTyped
  <1>2. aborted \in [Names -> [Addrs -> Nat]]
    BY DEF Inv, Shape
  <1>3. \A q \in Requests : req[q].pc \in {"new", "dispatch", "lookup", "pick", "send", "serving", "done"}
    BY DEF Typed, RequestTyped
  <1>4. /\ db.routes \subseteq Routes /\ db.comps \subseteq Names /\ db.healthy \subseteq Instances
        /\ changes \in 0..MaxChanges /\ table.entries \subseteq Routes
        /\ \A s \in DOMAIN table.services : table.services[s] \subseteq Instances
        /\ pool \subseteq [addr : Addrs, websocket : BOOLEAN] /\ up \in BOOLEAN
    BY DEF Typed, DbTyped, TableTyped, ServicesTyped, PoolTyped
  <1> QED
    BY <1>1, <1>2, <1>3, <1>4 DEF TypeOK

(* "A weight of 5 against 1 really does get five requests", for any        *)
(* weights and any number of instances of any target that a request may be *)
(* about to pick from (lb.go, pickRoundRobin); with the types.             *)
THEOREM RoundRobinIsFair == Spec => []RoundRobinShares
  <1>1. ASSUME Inv, Typed PROVE RoundRobinShares
    <2>1. ASSUME NEW q \in Requests, req[q].pc = "pick"
          PROVE  LET instances == req[q].target.instances
                     shares == Round(FreshState.current, instances)[TotalWeight(instances)]
                 IN  /\ shares.current = FreshState.current
                     /\ \A i \in Range(instances) : shares.got[i.addr] = WeightOf(i)
      <3>1. IsPool(req[q].target.instances) /\ Len(req[q].target.instances) > 0
        BY <1>1, <2>1 DEF Typed, RequestTyped, Forwarded
      <3>2. FreshState.current = [a \in Addrs |-> 0]
        BY DEF FreshState
      <3> DEFINE instances == req[q].target.instances
                 even == [a \in Addrs |-> 0]
                 fair(e) == LET end == Round(e, instances)[TotalWeight(instances)]
                            IN  /\ end.current = e
                                /\ \A i \in Range(instances) : end.got[i.addr] = WeightOf(i)
      <3>3. fair(even)
        BY <3>1, WeightedShares
      <3> HIDE DEF even
      <3>4. FreshState.current = even
        BY <3>2 DEF even
      <3>5. fair(FreshState.current)
        <4> HIDE DEF fair
        <4> QED
          BY <3>3, <3>4
      <3> QED
        BY <3>5
    <2>2. TypeOK
      BY <1>1, InvTypeOK
    <2> QED
      BY <2>1, <2>2, Zenon DEF RoundRobinShares
  <1> QED
    BY <1>1, TypeInvariance, PTL
=============================================================================

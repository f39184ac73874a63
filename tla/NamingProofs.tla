----------------------------- MODULE NamingProofs -----------------------------
(***************************************************************************)
(* Proofs about Naming, for any processes, clock errors, timeouts,         *)
(* endpoints and requests: only what has been silent for the whole timeout *)
(* is taken out of rotation, removed or left out of a list, and instances  *)
(* have their service.                                                     *)
(***************************************************************************)
EXTENDS Naming, FiniteSetTheorems, TLAPS

(* A list judges the rows it has fetched with a later reading of its own   *)
(* clock, so an answer names only what was fresh when it was fetched.      *)
ListFacts(r) ==
    /\ req[r].pc \in {"clock", "scan"} => req[r].asOf <= clock
    /\ req[r].pc = "scan" => req[r].now.node = req[r].node /\ req[r].asOf <= req[r].now.time
    /\ req[r].pc = "ok" /\ req[r].op.kind = "list" =>
          \A x \in req[r].list : x[2].conf.ephemeral => Fresh(x[2], r)

(* The statement a handler is at fits what it was asked for.               *)
AtStatement(r) ==
    /\ req[r].pc \in {"select", "ensure", "insert", "reselect", "update", "beat"} =>
          req[r].op.kind \in {"register", "beat"}
    /\ req[r].pc = "delete" => req[r].op.kind = "deregister"
    /\ req[r].pc = "deleteService" => req[r].op.kind = "deleteService"
    /\ req[r].pc \in {"ensureOnly", "updateService"} =>
          req[r].op.kind \in {"createService", "updateService"}
    /\ ListFacts(r)

(* A sweeper has read its clock in the past.                               *)
SweepsBehind == \A n \in Nodes : sweep[n].now.time <= clock

(* A handler that is about to insert has made sure of the service, so when *)
(* the service is missing a deleteService has overtaken the handler.       *)
InsertsCovered ==
    \A r \in Requests :
       req[r].pc = "insert" /\ service = "absent" => r \in overtaken

(* The inductive invariant; TypeOK is a part of InstanceHasService.        *)
Inv ==
    /\ InstanceHasService /\ UnhealthyIsSilent
    /\ SweepsBehind /\ InsertsCovered /\ \A r \in Requests : AtStatement(r)

-----------------------------------------------------------------------------
(* Rows, stamps and operations.                                            *)
LEMMA RowOrNone ==
    /\ NoRow \notin Rows
    /\ \A row \in Rows \cup {NoRow} : row # NoRow => row \in Rows
  BY DEF NoRow, Rows

LEMMA RowType ==
    ASSUME NEW row \in Rows
    PROVE  /\ row.id \in Nat \ {0} /\ row.conf \in Confs /\ row.conf.ephemeral \in BOOLEAN
           /\ row.healthy \in BOOLEAN /\ row.beat \in Stamps
           /\ row.beat.time \in Int /\ row.beat.node \in Nodes /\ Skew[row.beat.node] \in Int
  <1>1. row.beat \in Stamps /\ row.conf \in Confs
    BY DEF Rows
  <1>2. row.beat.time \in Int /\ row.beat.node \in Nodes
    BY <1>1, NamingAssumption DEF Stamps, Times
  <1> QED
    BY <1>1, <1>2, NamingAssumption DEF Rows

LEMMA NowType ==
    ASSUME TypeOK, NEW n \in Nodes
    PROVE  /\ NowAt(n) \in Stamps /\ NowAt(n).time = clock /\ NowAt(n).node = n
           /\ clock \in Int /\ Skew[n] \in Int
  BY NamingAssumption DEF NowAt, Stamps, Times, TypeOK

LEMMA OpType ==
    ASSUME NEW o \in Ops
    PROVE  /\ o.kind \in {"register", "beat", "deregister"} => o.ep \in Endpoints
           /\ o.kind \in {"register", "beat"} => o.conf \in Confs
  BY NamingAssumption DEF Operations

(* A handler between its start and its answer.                             *)
LEMMA LiveType ==
    ASSUME TypeOK, NEW r \in Requests, req[r].pc \notin {"new", "ok", "error"}
    PROVE  /\ req[r] \in Live /\ req[r].op \in Ops /\ req[r].now \in Stamps
           /\ req[r].node \in Nodes /\ req[r].id \in Nat
           /\ req[r].seen \in Lists /\ req[r].asOf \in Times
  <1>1. req[r] \in Live \cup Answered \cup {NoRequest}
    BY DEF TypeOK
  <1>2. req[r] \in Live
    BY <1>1 DEF Answered, Failed, NoRequest
  <1> QED
    BY <1>2 DEF Live

(* The row that a handler for an endpoint finds.                           *)
LEMMA EndpointRow ==
    ASSUME TypeOK, NEW r \in Requests, req[r].pc \notin {"new", "ok", "error"},
           req[r].op.kind \in {"register", "beat", "deregister"}
    PROVE  /\ req[r].op.ep \in Endpoints /\ Row(r) \in Rows \cup {NoRow}
           /\ Row(r) = inst[req[r].op.ep]
  BY LiveType, OpType DEF TypeOK, Row

LEMMA NewRowType ==
    ASSUME TypeOK, NEW r \in Requests, req[r].pc \notin {"new", "ok", "error"},
           req[r].op.kind \in {"register", "beat"}, NEW i \in Nat \ {0}
    PROVE  NewRow(r, i) \in Rows /\ NewRow(r, i).healthy
  BY LiveType, OpType DEF NewRow, Rows

-----------------------------------------------------------------------------
(* The ways in which a handler changes.                                    *)
LEMMA GotoStep ==
    ASSUME TypeOK, NEW r \in Requests, req[r].pc \notin {"new", "ok", "error"},
           NEW pc \in {"select", "ensure", "insert", "reselect", "update", "beat", "delete",
                       "ensureOnly", "updateService", "deleteService", "query", "clock", "scan"},
           Goto(r, pc)
    PROVE  /\ req' \in [Requests -> Live \cup Answered \cup {NoRequest}]
           /\ req'[r].pc = pc /\ req'[r].op = req[r].op
           /\ \A s \in Requests \ {r} : req'[s] = req[s]
  <1>1. req[r] \in Live
    BY LiveType
  <1>2. [req[r] EXCEPT !.pc = pc] \in Live
    BY <1>1 DEF Live
  <1> QED
    BY <1>1, <1>2 DEF TypeOK, Goto, Live

LEMMA FoundStep ==
    ASSUME TypeOK, NEW r \in Requests, req[r].pc \notin {"new", "ok", "error"},
           NEW pc \in {"ensure", "update"}, NEW i \in Nat,
           req' = [req EXCEPT ![r].pc = pc, ![r].id = i]
    PROVE  /\ req' \in [Requests -> Live \cup Answered \cup {NoRequest}]
           /\ req'[r].pc = pc /\ req'[r].op = req[r].op
           /\ \A s \in Requests \ {r} : req'[s] = req[s]
  <1>1. req[r] \in Live
    BY LiveType
  <1>2. [req[r] EXCEPT !.pc = pc, !.id = i] \in Live
    BY <1>1 DEF Live
  <1> QED
    BY <1>1, <1>2 DEF TypeOK, Live

LEMMA ReturnStep ==
    ASSUME TypeOK, NEW r \in Requests, req[r].pc \notin {"new", "ok", "error"},
           NEW answer \in {"ok", "error"}, Return(r, answer)
    PROVE  /\ req' \in [Requests -> Live \cup Answered \cup {NoRequest}]
           /\ req'[r].pc = answer /\ (answer = "ok" => req'[r].op = req[r].op)
           /\ \A s \in Requests \ {r} : req'[s] = req[s]
  <1>1. req[r].op \in Ops
    BY LiveType
  <1>2. [pc |-> "ok", op |-> req[r].op] \in Answered /\ Failed \in Answered
    BY <1>1 DEF Answered
  <1> QED
    BY <1>2 DEF TypeOK, Return, Failed

LEMMA IdleType ==
    ASSUME TypeOK, NEW n \in Nodes
    PROVE  /\ Idle(n) \in [pc : {"idle", "mark", "delete", "persistent"}, now : Stamps]
           /\ Idle(n).now.time <= clock
  BY NamingAssumption DEF Idle, Never, Stamps, Times, TypeOK

-----------------------------------------------------------------------------
LEMMA InitInv == Init => Inv
  <1> SUFFICES ASSUME Init PROVE Inv
    OBVIOUS
  <1>1. Cardinality(Endpoints) \in Nat
    BY NamingAssumption, FS_CardinalityType
  <1>2. 0 \in Times
    BY NamingAssumption DEF Times
  <1>3. TypeOK
    <2>1. \A i \in 1..Cardinality(Endpoints), c \in Confs, n \in Nodes :
             [id |-> i, conf |-> c, healthy |-> TRUE, beat |-> [node |-> n, time |-> 0]] \in Rows
      BY <1>1, <1>2 DEF Rows, Stamps
    <2>2. inst \in [Endpoints -> Rows \cup {NoRow}]
      BY <2>1 DEF Init
    <2>3. nextId \in Nat \ {0} /\ clock \in Times
      BY <1>1, <1>2 DEF Init
    <2>4. sweep \in [Nodes -> [pc : {"idle", "mark", "delete", "persistent"}, now : Stamps]]
      BY <1>2 DEF Init, Idle, Never, Stamps
    <2> QED
      BY <2>2, <2>3, <2>4 DEF Init, TypeOK
  <1>4. \A e \in Endpoints : inst[e] # NoRow => inst[e].healthy
    BY DEF Init
  <1>5. UnhealthyIsSilent
    BY <1>4 DEF UnhealthyIsSilent
  <1>6. SweepsBehind
    BY DEF Init, SweepsBehind, Idle, Never
  <1>7. InstanceHasService
    BY <1>3 DEF Init, InstanceHasService
  <1>8. InsertsCovered /\ \A r \in Requests : AtStatement(r)
    BY DEF Init, InsertsCovered, AtStatement, ListFacts, NoRequest
  <1> QED
    BY <1>5, <1>6, <1>7, <1>8 DEF Inv

-----------------------------------------------------------------------------
(* Silence only grows with the time.                                       *)
LEMMA TickInv == Inv /\ Tick => Inv'
  <1> SUFFICES ASSUME Inv, Tick PROVE Inv'
    OBVIOUS
  <1>1. TypeOK /\ clock \in Int /\ clock' = clock + 1
    BY NamingAssumption DEF Inv, InstanceHasService, TypeOK, Times, Tick
  <1>2. TypeOK'
    BY <1>1, NamingAssumption DEF TypeOK, Times, Tick
  <1>3. InstanceHasService'
    BY <1>2 DEF Inv, InstanceHasService, LeftBehind, Tick
  <1>4. UnhealthyIsSilent'
    <2> SUFFICES ASSUME NEW e \in Endpoints, inst[e] # NoRow, ~inst[e].healthy
                 PROVE  SilentFor(inst[e], IF inst[e].conf.ephemeral THEN Timeout
                                           ELSE PersistentTimeout)'
      BY DEF UnhealthyIsSilent, Tick
    <2> DEFINE age == IF inst[e].conf.ephemeral THEN Timeout ELSE PersistentTimeout
    <2>1. inst[e] \in Rows
      BY <1>1, RowOrNone DEF TypeOK
    <2>2. PICK n \in Nodes : clock - inst[e].beat.time + Skew[n] - Skew[inst[e].beat.node] > age
      BY DEF Inv, UnhealthyIsSilent, SilentFor, Silence
    <2>3. inst[e].beat.time \in Int /\ Skew[inst[e].beat.node] \in Int /\ Skew[n] \in Int
          /\ age \in Int
      BY <2>1, RowType, NamingAssumption
    <2>4. clock' - inst[e].beat.time + Skew[n] - Skew[inst[e].beat.node] > age
      BY <1>1, <2>2, <2>3
    <2> QED
      BY <2>4 DEF SilentFor, Silence, Tick
  <1>5. SweepsBehind'
    <2>1. \A n \in Nodes : sweep[n].now.time \in Int
      BY NamingAssumption, <1>1 DEF TypeOK, Stamps, Times
    <2> QED
      BY <1>1, <2>1 DEF Inv, SweepsBehind, Tick
  <1>6. InsertsCovered'
    BY DEF Inv, InsertsCovered, Tick
  <1>7. ASSUME NEW r \in Requests PROVE AtStatement(r)'
    <2>1. req[r].pc \in {"clock", "scan"} => req[r].asOf \in Int
      BY <1>1, LiveType, NamingAssumption DEF Times
    <2> QED
      BY <1>1, <2>1 DEF Inv, AtStatement, ListFacts, Fresh, Tick
  <1> QED
    BY <1>3, <1>4, <1>5, <1>6, <1>7 DEF Inv

-----------------------------------------------------------------------------
(* What a statement of a handler has to show: rows it changes are healthy, *)
(* a service disappears from under an insert only as overtaking it, and an *)
(* instance appears without its service by an overtaken insert only.       *)
LEMMA HandlerMoves ==
    ASSUME Inv, NEW r \in Requests, TypeOK',
           UNCHANGED <<clock, sweep>>,
           req[r].pc \notin {"ok", "error"},
           \A s \in Requests \ {r} : req'[s] = req[s],
           AtStatement(r)',
           \A e \in Endpoints : inst'[e] # NoRow => inst'[e] = inst[e] \/ inst'[e].healthy,
           service' = "absent" =>
              /\ req'[r].pc # "insert"
              /\ overtaken \subseteq overtaken'
              /\ service = "absent" \/ \A s \in Requests : req[s].pc = "insert" => s \in overtaken'
              /\ \A e \in Endpoints : inst'[e] # NoRow =>
                    \/ service = "absent" /\ inst[e] # NoRow
                    \/ /\ r \in overtaken' /\ req'[r].pc = "ok"
                       /\ req'[r].op.kind \in {"register", "beat"} /\ req'[r].op.ep = e
    PROVE  Inv'
  <1>1. ASSUME NEW e \in Endpoints, LeftBehind(e), overtaken \subseteq overtaken'
        PROVE  LeftBehind(e)'
    <2>1. PICK s \in overtaken : /\ req[s].pc = "ok" /\ req[s].op.kind \in {"register", "beat"}
                                 /\ req[s].op.ep = e
      BY <1>1 DEF LeftBehind
    <2>2. s \in Requests \ {r}
      BY <2>1 DEF Inv, InstanceHasService, TypeOK
    <2> QED
      BY <1>1, <2>1, <2>2 DEF LeftBehind
  <1>2. InstanceHasService'
    <2> SUFFICES ASSUME service' = "absent", NEW e \in Endpoints, inst'[e] # NoRow
                 PROVE  LeftBehind(e)'
      BY DEF InstanceHasService
    <2>1. CASE service = "absent" /\ inst[e] # NoRow
      BY <1>1, <2>1 DEF Inv, InstanceHasService
    <2>2. CASE /\ r \in overtaken' /\ req'[r].pc = "ok"
               /\ req'[r].op.kind \in {"register", "beat"} /\ req'[r].op.ep = e
      BY <2>2 DEF LeftBehind
    <2> QED
      BY <2>1, <2>2
  <1>3. UnhealthyIsSilent'
    BY DEF Inv, UnhealthyIsSilent, SilentFor, Silence
  <1>4. SweepsBehind'
    BY DEF Inv, SweepsBehind
  <1>5. InsertsCovered'
    <2> SUFFICES ASSUME NEW s \in Requests, req'[s].pc = "insert", service' = "absent"
                 PROVE  s \in overtaken'
      BY DEF InsertsCovered
    <2>1. s # r /\ req[s].pc = "insert"
      OBVIOUS
    <2> QED
      BY <2>1 DEF Inv, InsertsCovered
  <1>6. \A s \in Requests : AtStatement(s)'
    BY DEF Inv, AtStatement, ListFacts, Fresh
  <1> QED
    BY <1>2, <1>3, <1>4, <1>5, <1>6 DEF Inv

(* A handler that only reads.                                              *)
LEMMA HandlerReads ==
    ASSUME Inv, NEW r \in Requests, req[r].pc \notin {"ok", "error"},
           req' \in [Requests -> Live \cup Answered \cup {NoRequest}],
           \A s \in Requests \ {r} : req'[s] = req[s],
           AtStatement(r)', req'[r].pc # "insert",
           UNCHANGED <<clock, service, overtaken, inst, nextId, sweep>>
    PROVE  Inv'
  <1>1. TypeOK'
    BY DEF Inv, InstanceHasService, TypeOK
  <1> QED
    BY <1>1, HandlerMoves

LEMMA FirstStatementType ==
    ASSUME NEW kind
    PROVE  /\ FirstStatement(kind) \in {"select", "beat", "delete", "ensureOnly", "updateService",
                                        "deleteService", "query"}
           /\ FirstStatement(kind) \in {"select", "beat"} => kind \in {"register", "beat"}
           /\ FirstStatement(kind) = "delete" => kind = "deregister"
           /\ FirstStatement(kind) = "deleteService" => kind = "deleteService"
           /\ FirstStatement(kind) \in {"ensureOnly", "updateService"} =>
                 kind \in {"createService", "updateService"}
  BY Zenon DEF FirstStatement

LEMMA StartInv ==
    ASSUME Inv, NEW r \in Requests, NEW n \in Nodes, NEW o \in Ops, Start(r, n, o) PROVE Inv'
  <1> DEFINE live == [pc |-> FirstStatement(o.kind), node |-> n, op |-> o,
                      now |-> IF o.kind \in Timed THEN NowAt(n) ELSE Never(n),
                      id |-> 0, seen |-> {}, asOf |-> 0]
  <1>1. NowAt(n) \in Stamps /\ Never(n) \in Stamps /\ 0 \in Times
    BY NowType, NamingAssumption DEF Inv, InstanceHasService, Never, Stamps, Times
  <1>2. live \in Live
    BY <1>1, FirstStatementType DEF Live, Lists
  <1>3. /\ req' \in [Requests -> Live \cup Answered \cup {NoRequest}]
        /\ req'[r] = live /\ \A s \in Requests \ {r} : req'[s] = req[s]
    BY <1>2 DEF Inv, InstanceHasService, TypeOK, Start
  <1>4. req'[r].pc = FirstStatement(o.kind) /\ req'[r].op = o
    BY <1>3
  <1>5. AtStatement(r)' /\ req'[r].pc # "insert"
    BY <1>4, FirstStatementType DEF AtStatement, ListFacts
  <1>6. req[r].pc \notin {"ok", "error"}
    BY DEF Start, NoRequest
  <1> QED
    BY <1>3, <1>5, <1>6, HandlerReads DEF Start

LEMMA SelectInv ==
    ASSUME Inv, NEW r \in Requests, Select(r) PROVE Inv'
  <1>1. TypeOK /\ req[r].pc = "select" /\ req[r].op.kind \in {"register", "beat"}
    BY DEF Inv, InstanceHasService, Select, AtStatement
  <1>2. Row(r).id \in Nat
    BY <1>1, EndpointRow, RowType DEF NoRow
  <1>3. PICK pc \in {"ensure", "update"} : req' = [req EXCEPT ![r].pc = pc, ![r].id = Row(r).id]
    BY DEF Select
  <1>4. /\ req' \in [Requests -> Live \cup Answered \cup {NoRequest}]
        /\ req'[r].pc = pc /\ req'[r].op = req[r].op
        /\ \A s \in Requests \ {r} : req'[s] = req[s]
    BY <1>1, <1>2, <1>3, FoundStep
  <1> QED
    BY <1>1, <1>4, HandlerReads DEF Select, AtStatement, ListFacts

LEMMA EnsureServiceInv ==
    ASSUME Inv, NEW r \in Requests, EnsureService(r) PROVE Inv'
  <1>1. TypeOK /\ req[r].pc \in {"ensure", "ensureOnly"} /\ service' # "absent"
    BY DEF Inv, InstanceHasService, EnsureService
  <1>2. PICK pc \in {"insert", "updateService"} :
           /\ Goto(r, pc) /\ (pc = "insert" => req[r].pc = "ensure")
           /\ pc = "updateService" => req[r].pc = "ensureOnly"
    BY DEF EnsureService
  <1>3. /\ req' \in [Requests -> Live \cup Answered \cup {NoRequest}]
        /\ req'[r].pc = pc /\ req'[r].op = req[r].op
        /\ \A s \in Requests \ {r} : req'[s] = req[s]
    BY <1>1, <1>2, GotoStep
  <1>4. AtStatement(r)'
    BY <1>1, <1>2, <1>3 DEF Inv, AtStatement, ListFacts
  <1>5. TypeOK'
    BY <1>1, <1>3 DEF TypeOK, EnsureService
  <1> QED
    BY <1>1, <1>3, <1>4, <1>5, HandlerMoves DEF EnsureService

LEMMA InsertInv ==
    ASSUME Inv, NEW r \in Requests, Insert(r) PROVE Inv'
  <1> DEFINE ep == req[r].op.ep
  <1>1. /\ TypeOK /\ req[r].pc = "insert" /\ req[r].op.kind \in {"register", "beat"}
        /\ nextId \in Nat \ {0}
    BY DEF Inv, InstanceHasService, TypeOK, Insert, AtStatement
  <1>2. ep \in Endpoints /\ NewRow(r, nextId) \in Rows /\ NewRow(r, nextId).healthy
    BY <1>1, EndpointRow, NewRowType
  <1>3. CASE Row(r) = NoRow
    <2>1. inst' = [inst EXCEPT ![ep] = NewRow(r, nextId)] /\ Return(r, "ok")
      BY <1>3 DEF Insert
    <2>2. /\ req' \in [Requests -> Live \cup Answered \cup {NoRequest}]
          /\ req'[r].pc = "ok" /\ req'[r].op = req[r].op
          /\ \A s \in Requests \ {r} : req'[s] = req[s]
      BY <1>1, <2>1, ReturnStep
    <2>3. /\ inst' \in [Endpoints -> Rows \cup {NoRow}]
          /\ \A e \in Endpoints : inst'[e] = inst[e] \/ inst'[e].healthy
          /\ \A e \in Endpoints : inst'[e] = inst[e] \/ e = ep
      BY <1>1, <1>2, <2>1 DEF TypeOK
    <2>4. TypeOK'
      BY <1>1, <2>2, <2>3 DEF TypeOK, Insert
    <2>5. AtStatement(r)'
      BY <1>1, <2>2 DEF AtStatement, ListFacts
    <2>6. service = "absent" => r \in overtaken
      BY <1>1 DEF Inv, InsertsCovered
    <2> QED
      BY <1>1, <2>2, <2>3, <2>4, <2>5, <2>6, HandlerMoves DEF Insert
  <1>4. CASE Row(r) # NoRow
    <2>1. inst' = inst /\ Goto(r, "reselect")
      BY <1>4 DEF Insert
    <2>2. /\ req' \in [Requests -> Live \cup Answered \cup {NoRequest}]
          /\ req'[r].pc = "reselect" /\ req'[r].op = req[r].op
          /\ \A s \in Requests \ {r} : req'[s] = req[s]
      BY <1>1, <2>1, GotoStep
    <2>3. TypeOK'
      BY <1>1, <2>1, <2>2 DEF TypeOK, Insert
    <2>4. AtStatement(r)'
      BY <1>1, <2>2 DEF AtStatement, ListFacts
    <2> QED
      BY <1>1, <2>1, <2>2, <2>3, <2>4, HandlerMoves DEF Insert
  <1> QED
    BY <1>3, <1>4

LEMMA ReselectInv ==
    ASSUME Inv, NEW r \in Requests, Reselect(r) PROVE Inv'
  <1>1. TypeOK /\ req[r].pc = "reselect" /\ req[r].op.kind \in {"register", "beat"}
    BY DEF Inv, InstanceHasService, Reselect, AtStatement
  <1>2. Row(r).id \in Nat
    BY <1>1, EndpointRow, RowType DEF NoRow
  <1>3. CASE Row(r) = NoRow
    <2>1. /\ req' \in [Requests -> Live \cup Answered \cup {NoRequest}]
          /\ req'[r].pc = "error" /\ \A s \in Requests \ {r} : req'[s] = req[s]
      BY <1>1, <1>3, ReturnStep DEF Reselect
    <2> QED
      BY <1>1, <2>1, HandlerReads DEF Reselect, AtStatement, ListFacts
  <1>4. CASE Row(r) # NoRow
    <2>1. /\ req' \in [Requests -> Live \cup Answered \cup {NoRequest}]
          /\ req'[r].pc = "update" /\ req'[r].op = req[r].op
          /\ \A s \in Requests \ {r} : req'[s] = req[s]
      BY <1>1, <1>2, <1>4, FoundStep DEF Reselect
    <2> QED
      BY <1>1, <2>1, HandlerReads DEF Reselect, AtStatement, ListFacts
  <1> QED
    BY <1>3, <1>4

(* A statement that changes rows but neither adds one nor touches the      *)
(* service, and after which the handler returns or goes on to a select.    *)
LEMMA RowsChange ==
    ASSUME Inv, NEW r \in Requests, req[r].pc \notin {"ok", "error"},
           req' \in [Requests -> Live \cup Answered \cup {NoRequest}],
           \A s \in Requests \ {r} : req'[s] = req[s],
           AtStatement(r)', req'[r].pc # "insert",
           inst' \in [Endpoints -> Rows \cup {NoRow}],
           \A e \in Endpoints : inst'[e] # NoRow =>
              inst[e] # NoRow /\ (inst'[e] = inst[e] \/ inst'[e].healthy),
           UNCHANGED <<clock, service, overtaken, nextId, sweep>>
    PROVE  Inv'
  <1>1. TypeOK'
    BY DEF Inv, InstanceHasService, TypeOK
  <1> QED
    BY <1>1, HandlerMoves

LEMMA UpdateInv ==
    ASSUME Inv, NEW r \in Requests, Update(r) PROVE Inv'
  <1>1. TypeOK /\ req[r].pc = "update" /\ req[r].op.kind \in {"register", "beat"}
    BY DEF Inv, InstanceHasService, Update, AtStatement
  <1>2. /\ req' \in [Requests -> Live \cup Answered \cup {NoRequest}]
        /\ req'[r].pc = "ok" /\ req'[r].op = req[r].op
        /\ \A s \in Requests \ {r} : req'[s] = req[s]
    BY <1>1, ReturnStep DEF Update
  <1>3. ASSUME NEW e \in Endpoints
        PROVE  /\ inst'[e] \in Rows \cup {NoRow}
               /\ inst'[e] # NoRow =>
                     inst[e] # NoRow /\ (inst'[e] = inst[e] \/ inst'[e].healthy)
    <2>1. CASE inst[e] # NoRow /\ inst[e].id = req[r].id
      <3>1. req[r].id \in Nat \ {0}
        BY <1>1, <2>1, RowOrNone, RowType DEF TypeOK
      <3>2. inst'[e] = NewRow(r, req[r].id)
        BY <2>1 DEF Update
      <3> QED
        BY <1>1, <2>1, <3>1, <3>2, NewRowType
    <2>2. CASE ~(inst[e] # NoRow /\ inst[e].id = req[r].id)
      <3>1. inst'[e] = inst[e]
        BY <2>2 DEF Update
      <3> QED
        BY <1>1, <3>1 DEF TypeOK
    <2> QED
      BY <2>1, <2>2
  <1>4. inst' \in [Endpoints -> Rows \cup {NoRow}]
    BY <1>3 DEF Update
  <1> QED
    BY <1>1, <1>2, <1>3, <1>4, RowsChange DEF Update, AtStatement, ListFacts

LEMMA BeatInv ==
    ASSUME Inv, NEW r \in Requests, Beat(r) PROVE Inv'
  <1> DEFINE ep == req[r].op.ep
             beaten == IF inst[ep] = NoRow THEN inst[ep]
                       ELSE [inst[ep] EXCEPT !.beat = req[r].now, !.healthy = TRUE]
  <1>1. TypeOK /\ req[r].pc = "beat" /\ req[r].op.kind \in {"register", "beat"}
    BY DEF Inv, InstanceHasService, Beat, AtStatement
  <1>2. /\ ep \in Endpoints /\ inst[ep] \in Rows \cup {NoRow}
        /\ req[r].now \in Stamps /\ req[r] \in Live /\ req[r].node \in Nodes
    BY <1>1, EndpointRow, LiveType
  <1>3. inst[ep] # NoRow => beaten \in Rows /\ beaten.healthy
    <2> SUFFICES ASSUME inst[ep] # NoRow PROVE beaten \in Rows /\ beaten.healthy
      OBVIOUS
    <2>1. inst[ep] \in Rows
      BY <1>2, RowOrNone
    <2> QED
      BY <1>2, <2>1 DEF Rows
  <1>4. inst' = [inst EXCEPT ![ep] = beaten]
    BY DEF Beat
  <1>5. /\ inst' \in [Endpoints -> Rows \cup {NoRow}]
        /\ \A e \in Endpoints : inst'[e] # NoRow =>
              inst[e] # NoRow /\ (inst'[e] = inst[e] \/ inst'[e].healthy)
    BY <1>1, <1>2, <1>3, <1>4 DEF TypeOK
  <1>6. CASE Return(r, "ok")
    <2>1. /\ req' \in [Requests -> Live \cup Answered \cup {NoRequest}]
          /\ req'[r].pc = "ok" /\ req'[r].op = req[r].op
          /\ \A s \in Requests \ {r} : req'[s] = req[s]
      BY <1>1, <1>6, ReturnStep
    <2> QED
      BY <1>1, <1>5, <2>1, RowsChange DEF Beat, AtStatement, ListFacts
  <1>7. CASE req' = [req EXCEPT ![r].pc = "select", ![r].now = NowAt(req[r].node)]
    <2>1. [req[r] EXCEPT !.pc = "select", !.now = NowAt(req[r].node)] \in Live
      BY <1>1, <1>2, NowType DEF Live
    <2>2. /\ req' \in [Requests -> Live \cup Answered \cup {NoRequest}]
          /\ req'[r].pc = "select" /\ req'[r].op = req[r].op
          /\ \A s \in Requests \ {r} : req'[s] = req[s]
      BY <1>1, <1>2, <1>7, <2>1 DEF TypeOK, Live
    <2> QED
      BY <1>1, <1>5, <2>2, RowsChange DEF Beat, AtStatement, ListFacts
  <1> QED
    BY <1>6, <1>7 DEF Beat

LEMMA DeleteInstanceInv ==
    ASSUME Inv, NEW r \in Requests, DeleteInstance(r) PROVE Inv'
  <1>1. TypeOK /\ req[r].pc = "delete" /\ req[r].op.kind = "deregister"
    BY DEF Inv, InstanceHasService, DeleteInstance, AtStatement
  <1>2. /\ req' \in [Requests -> Live \cup Answered \cup {NoRequest}]
        /\ req'[r].pc = "ok" /\ req'[r].op = req[r].op
        /\ \A s \in Requests \ {r} : req'[s] = req[s]
    BY <1>1, ReturnStep DEF DeleteInstance
  <1>3. /\ inst' \in [Endpoints -> Rows \cup {NoRow}]
        /\ \A e \in Endpoints : inst'[e] # NoRow => inst[e] # NoRow /\ inst'[e] = inst[e]
    BY <1>1 DEF TypeOK, DeleteInstance
  <1> QED
    BY <1>1, <1>2, <1>3, RowsChange DEF DeleteInstance, AtStatement, ListFacts

LEMMA ServiceInv ==
    ASSUME Inv, NEW r \in Requests, UpdateService(r) \/ DeleteService(r) PROVE Inv'
  <1>1. TypeOK /\ req[r].pc \in {"updateService", "deleteService"} /\ Return(r, "ok")
        /\ req[r].op.kind # "list" /\ UNCHANGED <<clock, inst, nextId, sweep>>
    BY DEF Inv, InstanceHasService, UpdateService, DeleteService, AtStatement
  <1>2. /\ req' \in [Requests -> Live \cup Answered \cup {NoRequest}]
        /\ req'[r].pc = "ok" /\ req'[r].op = req[r].op
        /\ \A s \in Requests \ {r} : req'[s] = req[s]
    BY <1>1, ReturnStep
  <1>3. /\ service' \in {"absent", "default", "updated"} /\ overtaken' \subseteq Requests
        /\ service' = "absent" =>
              /\ overtaken \subseteq overtaken'
              /\ \/ service = "absent"
                 \/ /\ \A s \in Requests : req[s].pc = "insert" => s \in overtaken'
                    /\ \A e \in Endpoints : inst[e] = NoRow
    BY <1>1 DEF UpdateService, DeleteService, RemoveService, TypeOK
  <1>4. TypeOK'
    BY <1>1, <1>2, <1>3 DEF TypeOK
  <1>5. AtStatement(r)'
    BY <1>1, <1>2 DEF AtStatement, ListFacts
  <1> QED
    BY <1>1, <1>2, <1>3, <1>4, <1>5, HandlerMoves

LEMMA QueryInv ==
    ASSUME Inv, NEW r \in Requests, Query(r) PROVE Inv'
  <1> DEFINE found == { <<e, inst[e]>> : e \in { d \in Endpoints : inst[d] # NoRow /\ inst[d].healthy } }
             live == [req[r] EXCEPT !.pc = "clock", !.asOf = clock, !.seen = found]
  <1>1. TypeOK /\ req[r].pc = "query" /\ req[r] \in Live /\ clock \in Times /\ clock \in Int
    BY LiveType, NamingAssumption DEF Inv, InstanceHasService, Query, TypeOK, Times
  <1>2. found \in Lists
    BY <1>1, RowOrNone DEF TypeOK, Lists
  <1>3. live \in Live /\ live.pc = "clock" /\ live.asOf = clock
    BY <1>1, <1>2 DEF Live
  <1>4. req' = [req EXCEPT ![r] = live]
    BY <1>1 DEF Query, TypeOK
  <1>5. /\ req' \in [Requests -> Live \cup Answered \cup {NoRequest}]
        /\ req'[r] = live /\ \A s \in Requests \ {r} : req'[s] = req[s]
    BY <1>1, <1>3, <1>4 DEF TypeOK
  <1>6. clock' = clock
    BY DEF Query
  <1>7. AtStatement(r)'
    BY <1>1, <1>3, <1>5, <1>6 DEF AtStatement, ListFacts
  <1> QED
    BY <1>1, <1>3, <1>5, <1>7, HandlerReads DEF Query

LEMMA ReadClockInv ==
    ASSUME Inv, NEW r \in Requests, ReadClock(r) PROVE Inv'
  <1> DEFINE live == [req[r] EXCEPT !.pc = "scan", !.now = NowAt(req[r].node)]
  <1>1. /\ TypeOK /\ req[r].pc = "clock" /\ req[r] \in Live /\ req[r].asOf <= clock
        /\ NowAt(req[r].node) \in Stamps /\ NowAt(req[r].node).time = clock
        /\ NowAt(req[r].node).node = req[r].node
    BY LiveType, NowType DEF Inv, InstanceHasService, ReadClock, AtStatement, ListFacts
  <1>2. /\ live \in Live /\ live.pc = "scan" /\ live.now = NowAt(req[r].node)
        /\ live.asOf = req[r].asOf /\ live.node = req[r].node
    BY <1>1 DEF Live
  <1>3. req' = [req EXCEPT ![r] = live]
    BY <1>1 DEF ReadClock, TypeOK
  <1>4. /\ req' \in [Requests -> Live \cup Answered \cup {NoRequest}]
        /\ req'[r] = live /\ \A s \in Requests \ {r} : req'[s] = req[s]
    BY <1>1, <1>2, <1>3 DEF TypeOK
  <1>5. clock' = clock
    BY DEF ReadClock
  <1>6. AtStatement(r)'
    BY <1>1, <1>2, <1>4, <1>5 DEF AtStatement, ListFacts
  <1> QED
    BY <1>1, <1>2, <1>4, <1>6, HandlerReads DEF ReadClock

(* The reading of the clock is not before the rows, so what is fresh by it *)
(* was fresh then.                                                         *)
LEMMA ScanInv ==
    ASSUME Inv, NEW r \in Requests, Scan(r) PROVE Inv'
  <1> DEFINE list == { x \in req[r].seen : effectiveInstanceHealth(x[2], req[r].now) }
             answer == [pc |-> "ok", op |-> req[r].op, node |-> req[r].node,
                        list |-> list, asOf |-> req[r].asOf]
             n == req[r].node
  <1>1. /\ TypeOK /\ req[r].pc = "scan" /\ req[r].op \in Ops /\ n \in Nodes
        /\ req[r].seen \in Lists /\ req[r].asOf \in Times /\ req[r].now \in Stamps
        /\ req[r].now.node = n /\ req[r].asOf <= req[r].now.time
    BY LiveType DEF Inv, InstanceHasService, Scan, AtStatement, ListFacts
  <1>2. list \in Lists
    BY <1>1 DEF Lists
  <1>3. answer \in Answered
    BY <1>1, <1>2 DEF Answered
  <1>4. req' = [req EXCEPT ![r] = answer]
    BY <1>1 DEF Scan, ReturnList, TypeOK
  <1>5. /\ req' \in [Requests -> Live \cup Answered \cup {NoRequest}]
        /\ req'[r] = answer /\ \A s \in Requests \ {r} : req'[s] = req[s]
    BY <1>1, <1>3, <1>4 DEF TypeOK
  <1>6. ASSUME NEW x \in list, x[2].conf.ephemeral
        PROVE  req[r].asOf - x[2].beat.time <= Timeout + Skew[x[2].beat.node] - Skew[n]
    <2>1. x[2] \in Rows
      BY <1>2 DEF Lists
    <2>2. /\ x[2].beat.time \in Int /\ Skew[x[2].beat.node] \in Int
          /\ Timeout \in Int /\ Skew[n] \in Int
      BY <1>1, <2>1, RowType, NamingAssumption
    <2>3. req[r].asOf \in Int /\ req[r].now.time \in Int
      BY <1>1, NamingAssumption DEF Stamps, Times
    <2>4. Ms(req[r].now) - Ms(x[2].beat) <= Timeout
      BY <1>6 DEF effectiveInstanceHealth
    <2>5. req[r].now.time + Skew[n] - (x[2].beat.time + Skew[x[2].beat.node]) <= Timeout
      BY <1>1, <2>2, <2>3, <2>4 DEF Ms
    <2> QED
      BY <1>1, <2>2, <2>3, <2>5
  <1>7. /\ req'[r].pc = "ok" /\ req'[r].list = list /\ req'[r].node = n
        /\ req'[r].asOf = req[r].asOf
    BY <1>5
  <1> HIDE DEF list, answer, n
  <1>8. AtStatement(r)'
    BY <1>6, <1>7 DEF AtStatement, ListFacts, Fresh
  <1> QED
    BY <1>1, <1>5, <1>7, <1>8, HandlerReads DEF Scan

LEMMA FailInv ==
    ASSUME Inv, NEW r \in Requests, Fail(r) PROVE Inv'
  <1>1. TypeOK /\ req[r].pc \notin {"new", "ok", "error"} /\ Return(r, "error")
    BY DEF Inv, InstanceHasService, Fail
  <1>2. /\ req' \in [Requests -> Live \cup Answered \cup {NoRequest}]
        /\ req'[r].pc = "error" /\ \A s \in Requests \ {r} : req'[s] = req[s]
    BY <1>1, ReturnStep
  <1> QED
    BY <1>1, <1>2, HandlerReads DEF Fail, AtStatement, ListFacts

-----------------------------------------------------------------------------
(* A row that is older than an age for the clock that a sweeper has read   *)
(* is silent for that age.                                                 *)
LEMMA OlderIsSilent ==
    ASSUME Inv, NEW n \in Nodes, NEW row \in Rows, NEW age \in Nat,
           Older(row, sweep[n].now, age)
    PROVE  SilentFor(row, age)
  <1> DEFINE now == sweep[n].now
  <1>1. now \in Stamps /\ clock \in Times
    BY DEF Inv, InstanceHasService, TypeOK
  <1>2. now.node \in Nodes /\ now.time \in Int /\ clock \in Int /\ Skew[now.node] \in Int
    BY <1>1, NamingAssumption DEF Stamps, Times
  <1>3. row.beat.time \in Int /\ Skew[row.beat.node] \in Int
    BY RowType
  <1>4. now.time <= clock
    BY DEF Inv, SweepsBehind
  <1>5. row.beat.time + Skew[row.beat.node] < now.time + Skew[now.node] - age
    BY <1>2, <1>3 DEF Older, Ms
  <1>6. clock - row.beat.time + Skew[now.node] - Skew[row.beat.node] > age
    BY <1>2, <1>3, <1>4, <1>5
  <1> QED
    BY <1>2, <1>6 DEF SilentFor, Silence

(* What a statement of a sweeper has to show: it adds no rows, and what it *)
(* marks is silent.                                                        *)
LEMMA SweeperMoves ==
    ASSUME Inv, NEW n \in Nodes, NEW s,
           s \in [pc : {"idle", "mark", "delete", "persistent"}, now : Stamps],
           s.now.time <= clock, sweep' = [sweep EXCEPT ![n] = s],
           inst' \in [Endpoints -> Rows \cup {NoRow}],
           \A e \in Endpoints : inst'[e] # NoRow =>
              /\ inst[e] # NoRow
              /\ inst'[e] = inst[e] \/
                    SilentFor(inst'[e], IF inst'[e].conf.ephemeral THEN Timeout
                                        ELSE PersistentTimeout),
           UNCHANGED <<clock, service, overtaken, nextId, req>>
    PROVE  Inv'
  <1>1. TypeOK'
    BY DEF Inv, InstanceHasService, TypeOK
  <1>2. InstanceHasService'
    BY <1>1 DEF Inv, InstanceHasService, LeftBehind
  <1>3. UnhealthyIsSilent'
    BY DEF Inv, UnhealthyIsSilent, SilentFor, Silence
  <1>4. SweepsBehind'
    BY DEF Inv, InstanceHasService, TypeOK, SweepsBehind
  <1>5. InsertsCovered' /\ \A r \in Requests : AtStatement(r)'
    BY DEF Inv, InsertsCovered, AtStatement, ListFacts, Fresh
  <1> QED
    BY <1>2, <1>3, <1>4, <1>5 DEF Inv

LEMMA SweepStartInv ==
    ASSUME Inv, NEW n \in Nodes, SweepStart(n) PROVE Inv'
  <1> DEFINE s == [pc |-> "mark", now |-> NowAt(n)]
  <1>1. /\ s \in [pc : {"idle", "mark", "delete", "persistent"}, now : Stamps]
        /\ s.now.time <= clock
    BY NowType DEF Inv, InstanceHasService
  <1>2. inst' \in [Endpoints -> Rows \cup {NoRow}] /\ inst' = inst
    BY DEF Inv, InstanceHasService, TypeOK, SweepStart
  <1> QED
    BY <1>1, <1>2, SweeperMoves DEF SweepStart

LEMMA SweepFailsInv ==
    ASSUME Inv, NEW n \in Nodes, SweepFails(n) PROVE Inv'
  <1>1. /\ Idle(n) \in [pc : {"idle", "mark", "delete", "persistent"}, now : Stamps]
        /\ Idle(n).now.time <= clock
    BY IdleType DEF Inv, InstanceHasService
  <1>2. inst' \in [Endpoints -> Rows \cup {NoRow}] /\ inst' = inst
    BY DEF Inv, InstanceHasService, TypeOK, SweepFails
  <1> QED
    BY <1>1, <1>2, SweeperMoves DEF SweepFails

(* A row that is marked is silent for its timeout.                         *)
LEMMA Marked ==
    ASSUME Inv, NEW n \in Nodes, NEW e \in Endpoints, inst[e] # NoRow,
           Older(inst[e], sweep[n].now,
                 IF inst[e].conf.ephemeral THEN Timeout ELSE PersistentTimeout)
    PROVE  LET row == [inst[e] EXCEPT !.healthy = FALSE]
           IN  /\ row \in Rows
               /\ SilentFor(row, IF row.conf.ephemeral THEN Timeout ELSE PersistentTimeout)
  <1> DEFINE age == IF inst[e].conf.ephemeral THEN Timeout ELSE PersistentTimeout
             row == [inst[e] EXCEPT !.healthy = FALSE]
  <1>1. inst[e] \in Rows
    BY RowOrNone DEF Inv, InstanceHasService, TypeOK
  <1>2. age \in Nat
    BY NamingAssumption
  <1>3. SilentFor(inst[e], age)
    BY <1>1, <1>2, OlderIsSilent
  <1>4. row \in Rows /\ row.conf = inst[e].conf /\ row.beat = inst[e].beat
    BY <1>1 DEF Rows
  <1> QED
    BY <1>3, <1>4 DEF SilentFor, Silence

LEMMA SweepMarkInv ==
    ASSUME Inv, NEW n \in Nodes, SweepMark(n) PROVE Inv'
  <1> DEFINE s == [sweep[n] EXCEPT !.pc = "delete"]
  <1>1. sweep[n] \in [pc : {"idle", "mark", "delete", "persistent"}, now : Stamps]
    BY DEF Inv, InstanceHasService, TypeOK
  <1>2. /\ s \in [pc : {"idle", "mark", "delete", "persistent"}, now : Stamps]
        /\ s.now.time <= clock /\ sweep' = [sweep EXCEPT ![n] = s]
    BY <1>1 DEF Inv, InstanceHasService, TypeOK, SweepsBehind, SweepMark
  <1>3. ASSUME NEW e \in Endpoints
        PROVE  /\ inst'[e] \in Rows \cup {NoRow}
               /\ inst'[e] # NoRow =>
                     /\ inst[e] # NoRow
                     /\ inst'[e] = inst[e] \/
                           SilentFor(inst'[e], IF inst'[e].conf.ephemeral THEN Timeout
                                               ELSE PersistentTimeout)
    <2>1. CASE inst[e] # NoRow /\ inst[e].conf.ephemeral /\ Older(inst[e], sweep[n].now, Timeout)
      <3>1. inst'[e] = [inst[e] EXCEPT !.healthy = FALSE]
        BY <2>1 DEF SweepMark, MarkUnhealthy
      <3> QED
        BY <2>1, <3>1, Marked
    <2>2. CASE ~(inst[e] # NoRow /\ inst[e].conf.ephemeral /\ Older(inst[e], sweep[n].now, Timeout))
      <3>1. inst'[e] = inst[e]
        BY <2>2 DEF SweepMark, MarkUnhealthy
      <3> QED
        BY <3>1 DEF Inv, InstanceHasService, TypeOK
    <2> QED
      BY <2>1, <2>2
  <1>4. inst' \in [Endpoints -> Rows \cup {NoRow}]
    BY <1>3 DEF SweepMark, MarkUnhealthy
  <1> QED
    BY <1>2, <1>3, <1>4, SweeperMoves DEF SweepMark

LEMMA SweepDeleteInv ==
    ASSUME Inv, NEW n \in Nodes, SweepDelete(n) PROVE Inv'
  <1> DEFINE s == IF PersistentTimeout = 0 THEN Idle(n) ELSE [pc |-> "persistent", now |-> NowAt(n)]
  <1>1. /\ s \in [pc : {"idle", "mark", "delete", "persistent"}, now : Stamps]
        /\ s.now.time <= clock
    BY IdleType, NowType DEF Inv, InstanceHasService
  <1>2. /\ inst' \in [Endpoints -> Rows \cup {NoRow}]
        /\ \A e \in Endpoints : inst'[e] # NoRow => inst[e] # NoRow /\ inst'[e] = inst[e]
    BY DEF Inv, InstanceHasService, TypeOK, SweepDelete
  <1> QED
    BY <1>1, <1>2, SweeperMoves DEF SweepDelete

LEMMA MarkStalePersistentInv ==
    ASSUME Inv, NEW n \in Nodes, MarkStalePersistentUnhealthy(n) PROVE Inv'
  <1>1. /\ Idle(n) \in [pc : {"idle", "mark", "delete", "persistent"}, now : Stamps]
        /\ Idle(n).now.time <= clock
    BY IdleType DEF Inv, InstanceHasService
  <1>2. ASSUME NEW e \in Endpoints
        PROVE  /\ inst'[e] \in Rows \cup {NoRow}
               /\ inst'[e] # NoRow =>
                     /\ inst[e] # NoRow
                     /\ inst'[e] = inst[e] \/
                           SilentFor(inst'[e], IF inst'[e].conf.ephemeral THEN Timeout
                                               ELSE PersistentTimeout)
    <2>1. CASE inst[e] # NoRow /\ ~inst[e].conf.ephemeral
               /\ Older(inst[e], sweep[n].now, PersistentTimeout)
      <3>1. inst'[e] = [inst[e] EXCEPT !.healthy = FALSE]
        BY <2>1 DEF MarkStalePersistentUnhealthy, MarkUnhealthy
      <3> QED
        BY <2>1, <3>1, Marked
    <2>2. CASE ~(inst[e] # NoRow /\ ~inst[e].conf.ephemeral
                 /\ Older(inst[e], sweep[n].now, PersistentTimeout))
      <3>1. inst'[e] = inst[e]
        BY <2>2 DEF MarkStalePersistentUnhealthy, MarkUnhealthy
      <3> QED
        BY <3>1 DEF Inv, InstanceHasService, TypeOK
    <2> QED
      BY <2>1, <2>2
  <1>3. inst' \in [Endpoints -> Rows \cup {NoRow}]
    BY <1>2 DEF MarkStalePersistentUnhealthy, MarkUnhealthy
  <1> QED
    BY <1>1, <1>2, <1>3, SweeperMoves DEF MarkStalePersistentUnhealthy

-----------------------------------------------------------------------------
LEMMA NextInv == Inv /\ [Next]_vars => Inv'
  <1> SUFFICES ASSUME Inv, [Next]_vars PROVE Inv'
    OBVIOUS
  <1>1. ASSUME NEW r \in Requests, Handle(r) PROVE Inv'
    BY <1>1, SelectInv, EnsureServiceInv, InsertInv, ReselectInv, UpdateInv, BeatInv,
       DeleteInstanceInv, ServiceInv, QueryInv, ReadClockInv, ScanInv, FailInv DEF Handle
  <1>2. ASSUME NEW r \in Requests, NEW n \in Nodes, NEW o \in Ops, Start(r, n, o) PROVE Inv'
    BY <1>2, StartInv
  <1>3. ASSUME NEW n \in Nodes, Sweeper(n) PROVE Inv'
    BY <1>3, SweepStartInv, SweepMarkInv, SweepDeleteInv, MarkStalePersistentInv, SweepFailsInv
       DEF Sweeper
  <1>4. CASE UNCHANGED vars
    BY <1>4 DEF vars, Inv, InstanceHasService, TypeOK, LeftBehind, UnhealthyIsSilent, SilentFor,
                Silence, SweepsBehind, InsertsCovered, AtStatement, ListFacts, Fresh
  <1> QED
    BY <1>1, <1>2, <1>3, <1>4, TickInv DEF Next

LEMMA Invariance == Spec => []Inv
  BY InitInv, NextInv, PTL DEF Spec

-----------------------------------------------------------------------------
(* The sweepers of several processes are safe together: whatever the       *)
(* errors of their clocks and however heartbeats come between their        *)
(* statements, what is out of rotation has been silent for its timeout.    *)
THEOREM MarkedWereSilent == Spec => []UnhealthyIsSilent
  <1>1. Inv => UnhealthyIsSilent
    BY DEF Inv
  <1> QED
    BY Invariance, <1>1, PTL

(* The handlers' statements without a transaction leave an instance        *)
(* without its service in one way only: a deleteService between the        *)
(* EnsureService and the INSERT of the very registration it comes from,    *)
(* and only until the next EnsureService.                                  *)
THEOREM InstancesAreListed == Spec => []InstanceHasService
  <1>1. Inv => InstanceHasService
    BY DEF Inv
  <1> QED
    BY Invariance, <1>1, PTL

(* An answered list was fresh when its rows were taken, however late the   *)
(* sweepers, the query and the scan are and whatever the clocks' errors.   *)
THEOREM ListsAreFresh == Spec => []ListedAreFresh
  <1>1. Inv => ListedAreFresh
    BY DEF Inv, AtStatement, ListFacts, ListedAreFresh
  <1> QED
    BY Invariance, <1>1, PTL

(* The statements that neither delete nor sweep keep every row there is.   *)
LEMMA RowsStay ==
    ASSUME Inv, NEW r \in Requests, Insert(r) \/ Update(r) \/ Beat(r),
           NEW e \in Endpoints, inst[e] # NoRow
    PROVE  inst'[e] # NoRow
  <1>1. /\ TypeOK /\ req[r].pc \in {"insert", "update", "beat"}
        /\ req[r].op.kind \in {"register", "beat"} /\ nextId \in Nat \ {0}
    BY DEF Inv, InstanceHasService, TypeOK, Insert, Update, Beat, AtStatement
  <1>2. inst[e] \in Rows /\ inst[e].id \in Nat \ {0} /\ NoRow.id = 0
    BY <1>1, RowOrNone, RowType DEF TypeOK, NoRow
  <1>3. CASE Insert(r)
    BY <1>1, <1>2, <1>3, EndpointRow DEF Insert, TypeOK
  <1>4. CASE Update(r)
    BY <1>2, <1>4 DEF Update, NewRow
  <1>5. CASE Beat(r)
    <2>1. inst'[e] = inst[e] \/ inst'[e] = [inst[e] EXCEPT !.beat = req[r].now, !.healthy = TRUE]
      BY <1>1, <1>5 DEF Beat, TypeOK
    <2>2. [inst[e] EXCEPT !.beat = req[r].now, !.healthy = TRUE].id = inst[e].id
      BY <1>2 DEF Rows
    <2> QED
      BY <1>2, <2>1, <2>2
  <1> QED
    BY <1>3, <1>4, <1>5

(* A sweeper removes only ephemeral instances that have been silent for    *)
(* the whole delay, at the moment at which it removes them.                *)
THEOREM RemovedWereSilent == Spec => OnlySilentRemoved
  <1>1. ASSUME Inv, [Next]_vars, NEW e \in Endpoints, inst[e] # NoRow, inst'[e] = NoRow
        PROVE  \/ \E r \in Requests : req[r].pc = "delete" /\ req'[r].pc = "ok"
               \/ inst[e].conf.ephemeral /\ SilentFor(inst[e], DeleteAfter)
    <2>1. TypeOK /\ inst' # inst /\ inst[e] \in Rows
      BY <1>1, RowOrNone DEF Inv, InstanceHasService, TypeOK
    <2>2. ASSUME NEW r \in Requests, Handle(r)
          PROVE  req[r].pc = "delete" /\ req'[r].pc = "ok"
      <3>1. DeleteInstance(r)
        BY <1>1, <2>1, <2>2, RowsStay
           DEF Handle, Select, EnsureService, Reselect, UpdateService, DeleteService,
               Query, ReadClock, Scan, Fail
      <3> QED
        BY <2>1, <3>1, ReturnStep DEF DeleteInstance
    <2>3. ASSUME NEW n \in Nodes, Sweeper(n)
          PROVE  inst[e].conf.ephemeral /\ SilentFor(inst[e], DeleteAfter)
      <3>1. CASE SweepMark(n) \/ MarkStalePersistentUnhealthy(n)
        <4>1. inst'[e] \in {inst[e], [inst[e] EXCEPT !.healthy = FALSE]}
          BY <3>1 DEF SweepMark, MarkStalePersistentUnhealthy, MarkUnhealthy
        <4>2. [inst[e] EXCEPT !.healthy = FALSE] \in Rows
          BY <2>1 DEF Rows
        <4> QED
          BY <1>1, <2>1, <4>1, <4>2, RowOrNone
      <3>2. CASE SweepDelete(n)
        <4>1. inst[e].conf.ephemeral /\ Older(inst[e], sweep[n].now, DeleteAfter)
          BY <1>1, <3>2 DEF SweepDelete
        <4> QED
          BY <1>1, <2>1, <4>1, OlderIsSilent, NamingAssumption
      <3> QED
        BY <2>1, <2>3, <3>1, <3>2 DEF Sweeper, SweepStart, SweepFails
    <2> QED
      BY <1>1, <2>1, <2>2, <2>3 DEF Next, vars, Tick, Start
  <1>2. Inv /\ [Next]_vars => [\A e \in Endpoints : RemovedSilent(e)]_vars
    BY <1>1 DEF RemovedSilent
  <1> QED
    BY Invariance, <1>2, PTL DEF Spec, OnlySilentRemoved
=============================================================================

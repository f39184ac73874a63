-------------------------------- MODULE Naming --------------------------------
(***************************************************************************)
(* The service registry (internal/storage/namingstore.go) behind the       *)
(* naming routes (internal/api/naming_v1.go, naming_v2.go) and the sweeper *)
(* of each server process (internal/core/sweeper.go).                      *)
(*                                                                         *)
(* Any number of processes serve the registry on one database.  A handler  *)
(* is a sequence of statements without a transaction, so one action here   *)
(* is one statement.  Every process stamps heartbeats and judges staleness *)
(* with its own clock, read before the statement is sent: a stamp is the   *)
(* process and the true time at which it looked.                           *)
(***************************************************************************)
EXTENDS Integers, FiniteSets

CONSTANTS
    Nodes,              \* server processes
    Endpoints,          \* (cluster, ip, port) of the instances of one service
    Requests,           \* HTTP requests
    Ops,                \* what the requests ask for
    Confs,              \* what an instance is registered with: [ephemeral, data]
    Skew,               \* [Nodes -> Int] error of a process's clock
    Timeout,            \* HeartbeatTimeoutMs
    DeleteAfter,        \* EphemeralDeleteAfterMs
    PersistentTimeout,  \* PersistentHeartbeatTimeoutMs; 0 disables the check
    FoundRows,          \* RowsAffected counts the rows matched, not the changed
    MaxTime             \* bound: the true time stops here

Operations ==
         [kind : {"register", "beat"}, ep : Endpoints, conf : Confs]
    \cup [kind : {"deregister"}, ep : Endpoints]
    \cup [kind : {"createService", "updateService", "deleteService", "list"}]

ASSUME NamingAssumption ==
    /\ Ops \subseteq Operations
    /\ \A c \in Confs : c.ephemeral \in BOOLEAN
    /\ Skew \in [Nodes -> Int]
    /\ {Timeout, DeleteAfter, PersistentTimeout, MaxTime} \subseteq Nat
    /\ Timeout > 0
    /\ FoundRows \in BOOLEAN
    /\ IsFiniteSet(Endpoints)

VARIABLES
    clock,      \* the true time
    service,    \* naming_service: "absent", "default" or "updated"
    inst,       \* [Endpoints -> ...] naming_instance
    nextId,     \* AUTO_INCREMENT of naming_instance
    req,        \* [Requests -> ...] the handlers
    sweep,      \* [Nodes -> ...] the sweepers
    overtaken   \* the requests whose service row was deleted between their
                \* EnsureService and their INSERT, and is still missing
                \* (history variable)

vars == <<clock, service, inst, nextId, req, sweep, overtaken>>

Times == 0..MaxTime
Stamps == [node : Nodes, time : Times]
Rows == [id : Nat \ {0}, conf : Confs, healthy : BOOLEAN, beat : Stamps]
NoRow == [id |-> 0]

(* NowMS() at the node n, a stamp not yet taken, and the number of a stamp *)
NowAt(n) == [node |-> n, time |-> clock]
Never(n) == [node |-> n, time |-> 0]
Ms(s) == s.time + Skew[s.node]

NoRequest == [pc |-> "new"]

Lists == SUBSET (Endpoints \X Rows)

(* A request: where it is, what it asks for, its NowMS(), the id it found, *)
(* the rows it has fetched and the true time they are of (history); and    *)
(* what is left of it at the end, for a list its answer.                   *)
Live == [pc : {"select", "ensure", "insert", "reselect", "update", "beat", "delete",
               "ensureOnly", "updateService", "deleteService", "query", "clock", "scan"},
         node : Nodes, op : Ops, now : Stamps, id : Nat, seen : Lists, asOf : Times]
Failed == [pc |-> "error"]
Answered == {Failed} \cup [pc : {"ok"}, op : Ops]
                     \cup [pc : {"ok"}, op : Ops, node : Nodes, list : Lists, asOf : Times]

TypeOK ==
    /\ clock \in Times
    /\ service \in {"absent", "default", "updated"}
    /\ inst \in [Endpoints -> Rows \cup {NoRow}]
    /\ nextId \in Nat \ {0}
    /\ req \in [Requests -> Live \cup Answered \cup {NoRequest}]
    /\ sweep \in [Nodes -> [pc : {"idle", "mark", "delete", "persistent"}, now : Stamps]]
    /\ overtaken \subseteq Requests

(* the sweeper of n waits for its ticker                                   *)
Idle(n) == [pc |-> "idle", now |-> Never(n)]

(* The tables hold what an earlier time has left: instances of one or the  *)
(* other kind, healthy, and last heard of at time 0.                       *)
Init ==
    /\ clock = 0
    /\ inst \in [Endpoints -> { NoRow }
                  \cup { [id |-> i, conf |-> c, healthy |-> TRUE, beat |-> [node |-> n, time |-> 0]] :
                           i \in 1..Cardinality(Endpoints), c \in Confs, n \in Nodes }]
    /\ \A d, e \in Endpoints : inst[d] # NoRow /\ inst[d].id = inst[e].id => d = e
    /\ nextId = Cardinality(Endpoints) + 1
    /\ service = IF \A e \in Endpoints : inst[e] = NoRow THEN "absent" ELSE "default"
    /\ req = [r \in Requests |-> NoRequest]
    /\ sweep = [n \in Nodes |-> Idle(n)]
    /\ overtaken = {}

Tick ==
    /\ clock < MaxTime
    /\ clock' = clock + 1
    /\ UNCHANGED <<service, overtaken, inst, nextId, req, sweep>>

-----------------------------------------------------------------------------
(***************************************************************************)
(* Handlers.                                                               *)
(***************************************************************************)
FirstStatement(kind) ==
    CASE kind = "register"      -> "select"
      [] kind = "beat"          -> "beat"
      [] kind = "deregister"    -> "delete"
      [] kind = "createService" -> "ensureOnly"
      [] kind = "updateService" -> "updateService"
      [] kind = "deleteService" -> "deleteService"
      [] OTHER                  -> "query"

(* The handlers that use NowMS(): register and beat read it at the start,  *)
(* a list in ReadClock, and does not use what it has before.               *)
Timed == {"register", "beat", "list"}

(* The handler of r starts at n.                                           *)
Start(r, n, o) ==
    /\ req[r] = NoRequest
    /\ req' = [req EXCEPT ![r] =
                  [pc |-> FirstStatement(o.kind), node |-> n, op |-> o,
                   now |-> IF o.kind \in Timed THEN NowAt(n) ELSE Never(n),
                   id |-> 0, seen |-> {}, asOf |-> 0]]
    /\ UNCHANGED <<clock, service, overtaken, inst, nextId, sweep>>

Goto(r, pc) == req' = [req EXCEPT ![r].pc = pc]

(* The handler returns, and its variables are gone, but for the answer.    *)
Return(r, answer) ==
    req' = [req EXCEPT ![r] = IF answer = "ok" THEN [pc |-> "ok", op |-> @.op] ELSE Failed]

ReturnList(r, list) ==
    req' = [req EXCEPT ![r] =
              [pc |-> "ok", op |-> @.op, node |-> @.node, list |-> list, asOf |-> @.asOf]]

Row(r) == inst[req[r].op.ep]

NewRow(r, i) == [id |-> i, conf |-> req[r].op.conf, healthy |-> TRUE, beat |-> req[r].now]

(* RegisterInstance: SELECT id by the unique key.                          *)
Select(r) ==
    /\ req[r].pc = "select"
    /\ req' = [req EXCEPT ![r].pc = IF Row(r) = NoRow THEN "ensure" ELSE "update",
                          ![r].id = Row(r).id]
    /\ UNCHANGED <<clock, service, overtaken, inst, nextId, sweep>>

(* EnsureService: INSERT IGNORE.                                           *)
EnsureService(r) ==
    /\ req[r].pc \in {"ensure", "ensureOnly"}
    /\ service' = IF service = "absent" THEN "default" ELSE service
    /\ overtaken' = IF service = "absent" THEN {} ELSE overtaken
    /\ Goto(r, IF req[r].pc = "ensure" THEN "insert" ELSE "updateService")
    /\ UNCHANGED <<clock, inst, nextId, sweep>>

(* INSERT; a duplicate key is the lost race.  It uses up an id either way. *)
Insert(r) ==
    /\ req[r].pc = "insert"
    /\ nextId' = nextId + 1
    /\ IF Row(r) = NoRow
         THEN /\ inst' = [inst EXCEPT ![req[r].op.ep] = NewRow(r, nextId)]
              /\ Return(r, "ok")
         ELSE UNCHANGED inst /\ Goto(r, "reselect")
    /\ UNCHANGED <<clock, service, overtaken, sweep>>

Reselect(r) ==
    /\ req[r].pc = "reselect"
    /\ IF Row(r) = NoRow
         THEN Return(r, "error")
         ELSE req' = [req EXCEPT ![r].pc = "update", ![r].id = Row(r).id]
    /\ UNCHANGED <<clock, service, overtaken, inst, nextId, sweep>>

(* UPDATE ... WHERE id=?: no row with that id is no error.                 *)
Update(r) ==
    /\ req[r].pc = "update"
    /\ inst' = [e \in Endpoints |->
                  IF inst[e] # NoRow /\ inst[e].id = req[r].id
                    THEN NewRow(r, req[r].id) ELSE inst[e]]
    /\ Return(r, "ok")
    /\ UNCHANGED <<clock, service, overtaken, nextId, sweep>>

(* With the MySQL driver's defaults a row that an UPDATE leaves as it is   *)
(* (same millisecond, already healthy; gmt_modified has seconds) does not  *)
(* count as affected.                                                      *)
MayCountNone(r) ==
    IF Row(r) = NoRow
      THEN TRUE
      ELSE ~FoundRows /\ Row(r).healthy /\ Ms(Row(r).beat) = Ms(req[r].now)

(* A faulty Beat, for the sensitivity checks: an unhealthy instance does not recover.                  *)
BeatWithoutRecovery(r) ==
    /\ req[r].pc = "beat"
    /\ Row(r) # NoRow
    /\ inst' = [inst EXCEPT ![req[r].op.ep].beat = req[r].now]
    /\ Return(r, "ok")
    /\ UNCHANGED <<clock, service, overtaken, nextId, sweep>>

(* BeatInstance: the UPDATE, then RegisterInstance when it affected none.  *)
Beat(r) ==
    /\ req[r].pc = "beat"
    /\ inst' = [inst EXCEPT ![req[r].op.ep] =
                  IF @ = NoRow THEN @ ELSE [@ EXCEPT !.beat = req[r].now, !.healthy = TRUE]]
    /\ \/ /\ Row(r) # NoRow
          /\ Return(r, "ok")
       \/ /\ MayCountNone(r)
          /\ req' = [req EXCEPT ![r].pc = "select", ![r].now = NowAt(req[r].node)]
    /\ UNCHANGED <<clock, service, overtaken, nextId, sweep>>

DeleteInstance(r) ==
    /\ req[r].pc = "delete"
    /\ inst' = [inst EXCEPT ![req[r].op.ep] = NoRow]
    /\ Return(r, "ok")
    /\ UNCHANGED <<clock, service, overtaken, nextId, sweep>>

UpdateService(r) ==
    /\ req[r].pc = "updateService"
    /\ service' = IF service = "absent" THEN service ELSE "updated"
    /\ Return(r, "ok")
    /\ UNCHANGED <<clock, overtaken, inst, nextId, sweep>>

(* The row of the service goes while other handlers are before an INSERT.  *)
RemoveService ==
    /\ service' = "absent"
    /\ overtaken' = overtaken \cup { r \in Requests : req[r].pc = "insert" }

(* A faulty DeleteService: whatever instances there are.                   *)
DeleteServiceAlways(r) ==
    /\ req[r].pc = "deleteService"
    /\ RemoveService
    /\ Return(r, "ok")
    /\ UNCHANGED <<clock, inst, nextId, sweep>>

(* DELETE ... WHERE NOT EXISTS (SELECT 1 FROM naming_instance ...)         *)
DeleteService(r) ==
    /\ req[r].pc = "deleteService"
    /\ IF \A e \in Endpoints : inst[e] = NoRow
         THEN RemoveService ELSE UNCHANGED <<service, overtaken>>
    /\ Return(r, "ok")
    /\ UNCHANGED <<clock, inst, nextId, sweep>>

(* ListInstances with healthyOnly (GetInstance reads one row likewise):    *)
(* the server takes the rows as they are now, and answers when it can.     *)
Query(r) ==
    /\ req[r].pc = "query"
    /\ req' = [req EXCEPT ![r].pc = "clock", ![r].asOf = clock,
                          ![r].seen = { <<e, inst[e]>> : e \in { d \in Endpoints : inst[d] # NoRow /\ inst[d].healthy } }]
    /\ UNCHANGED <<clock, service, overtaken, inst, nextId, sweep>>

(* A faulty ReadClock: the clock was read before the query.                *)
ReadClockEarlier(r) ==
    /\ req[r].pc = "clock"
    /\ Goto(r, "scan")
    /\ UNCHANGED <<clock, service, overtaken, inst, nextId, sweep>>

(* The query has returned: NowMS(), once for all rows.                     *)
ReadClock(r) ==
    /\ req[r].pc = "clock"
    /\ req' = [req EXCEPT ![r].pc = "scan", ![r].now = NowAt(req[r].node)]
    /\ UNCHANGED <<clock, service, overtaken, inst, nextId, sweep>>

effectiveInstanceHealth(row, now) ==
    IF ~row.healthy \/ ~row.conf.ephemeral
      THEN row.healthy
      ELSE Ms(row.beat) <= Ms(now) /\ Ms(now) - Ms(row.beat) <= Timeout

(* The rows are scanned, filtered and sent, however long that takes.       *)
Scan(r) ==
    /\ req[r].pc = "scan"
    /\ ReturnList(r, { x \in req[r].seen : effectiveInstanceHealth(x[2], req[r].now) })
    /\ UNCHANGED <<clock, service, overtaken, inst, nextId, sweep>>

(* A statement fails, or the request's context is done, or the process     *)
(* stops: the handler ends where it is.                                    *)
Fail(r) ==
    /\ req[r].pc \notin {"new", "ok", "error"}
    /\ Return(r, "error")
    /\ UNCHANGED <<clock, service, overtaken, inst, nextId, sweep>>

-----------------------------------------------------------------------------
(***************************************************************************)
(* The sweeper of a node.                                                  *)
(***************************************************************************)
Older(row, now, age) == Ms(row.beat) < Ms(now) - age

MarkUnhealthy(P(_)) ==
    inst' = [e \in Endpoints |->
               IF inst[e] # NoRow /\ P(inst[e]) THEN [inst[e] EXCEPT !.healthy = FALSE] ELSE inst[e]]

(* The ticker fires and SweepEphemeral reads the clock.                    *)
SweepStart(n) ==
    /\ sweep[n].pc = "idle"
    /\ sweep' = [sweep EXCEPT ![n] = [pc |-> "mark", now |-> NowAt(n)]]
    /\ UNCHANGED <<clock, service, overtaken, inst, nextId, req>>

SweepMark(n) ==
    /\ sweep[n].pc = "mark"
    /\ MarkUnhealthy(LAMBDA row : row.conf.ephemeral /\ Older(row, sweep[n].now, Timeout))
    /\ sweep' = [sweep EXCEPT ![n].pc = "delete"]
    /\ UNCHANGED <<clock, service, overtaken, nextId, req>>

(* A faulty SweepDelete: it deletes what is marked.                        *)
SweepDeleteMarked(n) ==
    /\ sweep[n].pc = "delete"
    /\ inst' = [e \in Endpoints |->
                  IF inst[e] # NoRow /\ inst[e].conf.ephemeral /\ ~inst[e].healthy
                    THEN NoRow ELSE inst[e]]
    /\ sweep' = [sweep EXCEPT ![n] = Idle(n)]
    /\ UNCHANGED <<clock, service, overtaken, nextId, req>>

(* The same reading of the clock; then MarkStalePersistentUnhealthy reads  *)
(* it again, unless it is disabled.                                        *)
SweepDelete(n) ==
    /\ sweep[n].pc = "delete"
    /\ inst' = [e \in Endpoints |->
                  IF inst[e] # NoRow /\ inst[e].conf.ephemeral /\ Older(inst[e], sweep[n].now, DeleteAfter)
                    THEN NoRow ELSE inst[e]]
    /\ sweep' = [sweep EXCEPT ![n] = IF PersistentTimeout = 0 THEN Idle(n)
                                     ELSE [pc |-> "persistent", now |-> NowAt(n)]]
    /\ UNCHANGED <<clock, service, overtaken, nextId, req>>

MarkStalePersistentUnhealthy(n) ==
    /\ sweep[n].pc = "persistent"
    /\ MarkUnhealthy(LAMBDA row : ~row.conf.ephemeral /\ Older(row, sweep[n].now, PersistentTimeout))
    /\ sweep' = [sweep EXCEPT ![n] = Idle(n)]
    /\ UNCHANGED <<clock, service, overtaken, nextId, req>>

(* A statement fails: the loop continues with the next tick.               *)
SweepFails(n) ==
    /\ sweep[n].pc # "idle"
    /\ sweep' = [sweep EXCEPT ![n] = Idle(n)]
    /\ UNCHANGED <<clock, service, overtaken, inst, nextId, req>>

-----------------------------------------------------------------------------
Handle(r) ==
    \/ Select(r) \/ EnsureService(r) \/ Insert(r) \/ Reselect(r) \/ Update(r)
    \/ Beat(r) \/ DeleteInstance(r) \/ UpdateService(r) \/ DeleteService(r)
    \/ Query(r) \/ ReadClock(r) \/ Scan(r) \/ Fail(r)

Sweeper(n) ==
    \/ SweepStart(n) \/ SweepMark(n) \/ SweepDelete(n)
    \/ MarkStalePersistentUnhealthy(n) \/ SweepFails(n)

Next ==
    \/ Tick
    \/ \E r \in Requests :
          \/ Handle(r)
          \/ \E n \in Nodes, o \in Ops : Start(r, n, o)
    \/ \E n \in Nodes : Sweeper(n)

Spec == Init /\ [][Next]_vars

-----------------------------------------------------------------------------
(* The time since a row was refreshed, and what it comes to for the clock  *)
(* of some process.                                                        *)
Silence(row) == clock - row.beat.time

SilentFor(row, age) ==
    \E n \in Nodes : Silence(row) + Skew[n] - Skew[row.beat.node] > age

(* "Idempotent, safe with multiple goacos nodes" (SweepEphemeral): however *)
(* the sweepers and the heartbeats interleave, a row out of rotation has   *)
(* not been refreshed for the whole timeout, but for how far the clock of  *)
(* a sweeper is ahead of the one that stamped it.                          *)
UnhealthyIsSilent ==
    \A e \in Endpoints :
       inst[e] # NoRow /\ ~inst[e].healthy =>
          SilentFor(inst[e], IF inst[e].conf.ephemeral THEN Timeout ELSE PersistentTimeout)

(* The row of e goes because a request asked for it, or as a silent one.   *)
RemovedSilent(e) ==
    inst[e] # NoRow /\ inst'[e] = NoRow =>
       \/ \E r \in Requests : req[r].pc = "delete" /\ req'[r].pc = "ok"
       \/ inst[e].conf.ephemeral /\ SilentFor(inst[e], DeleteAfter)

(* The same for what the sweepers delete: an instance that did not ask to  *)
(* go has been silent for the whole delay, and is ephemeral.               *)
OnlySilentRemoved == [][\A e \in Endpoints : RemovedSilent(e)]_vars

(* Every instance has the row of its service, by which the service list    *)
(* shows it, or was itself inserted after a deleteService that came        *)
(* between its register's (or its missed beat's) EnsureService and INSERT, *)
(* and nobody has made sure of the service since.  No other order of       *)
(* statements, sweeps and failures leaves an instance behind, or a row of  *)
(* another shape (TypeOK).                                                 *)
LeftBehind(e) ==
    \E r \in overtaken :
       req[r].pc = "ok" /\ req[r].op.kind \in {"register", "beat"} /\ req[r].op.ep = e

InstanceHasService ==
    /\ TypeOK
    /\ service = "absent" => \A e \in Endpoints : inst[e] # NoRow => LeftBehind(e)

(* A list of healthy instances that has been answered names no ephemeral   *)
(* instance that was silent beyond the timeout when the database took the  *)
(* rows, but for how far the clock of the process that stamped it is ahead *)
(* of the lister's: however slow the query and the scan were, whatever the *)
(* sweepers did meanwhile, and although the lister looked at its clock at  *)
(* another time than the database at its rows.                             *)
Fresh(row, r) ==
    req[r].asOf - row.beat.time <= Timeout + Skew[row.beat.node] - Skew[req[r].node]

ListedAreFresh ==
    \A r \in Requests :
       req[r].pc = "ok" /\ req[r].op.kind = "list" =>
          \A x \in req[r].list : x[2].conf.ephemeral => Fresh(x[2], r)

(* "RegisterInstance creates or refreshes an instance": a register that is *)
(* answered ok has its row as it asked for when it answers.  The code does *)
(* not guarantee it: the row found by the SELECT may be gone at the UPDATE.*)
RegisterTakesEffect ==
    [][\A r \in Requests :
          req[r].pc # "ok" /\ req'[r].pc = "ok" /\ req'[r].op.kind = "register" =>
             inst'[req[r].op.ep] # NoRow /\ inst'[req[r].op.ep].conf = req[r].op.conf]_vars
=============================================================================

----------------------------- MODULE ConfigOwner -----------------------------
(***************************************************************************)
(* Single-active configuration ownership (internal/storage/config_owner.go)*)
(* with the admission of HTTP requests (internal/api/config_admission.go). *)
(*                                                                         *)
(* Several goacos processes share one database.  A process pins one        *)
(* physical session, takes a session-level advisory lock on it and runs    *)
(* every configuration request as one transaction on that session, one at  *)
(* a time (a one-token semaphore).  A process that notices that anything   *)
(* is wrong with the session is "lost" for ever: it answers 503 and must   *)
(* be replaced by a fresh process.  A member of Procs is one run of the    *)
(* server binary, so a restart is another member of Procs.                 *)
(*                                                                         *)
(* The database server and the two database/sql objects (sql.Conn, sql.Tx) *)
(* are modelled from how the code uses them: a session that ends aborts    *)
(* its transaction and frees its lock; a COMMIT already sent may still be  *)
(* executed after its client has died, or has given up waiting and said    *)
(* so; sql.Conn.Raw(ErrBadConn) closes the connection only once the open   *)
(* sql.Tx on it is finished, which a failed Commit also makes it.          *)
(***************************************************************************)
EXTENDS ConfigStore

CONSTANTS
    Procs,      \* server processes (runs of the binary)
    Requests,   \* HTTP requests on the configuration routes
    Impatient,  \* the requests whose client may go away before the answer
    NoProc,     \* nobody: no process, no request
    Ops         \* the operations the requests ask for

ASSUME NoProcAssumption == NoProc \notin Procs \cup Requests

ASSUME ImpatientAssumption == Impatient \subseteq Requests

ASSUME OpsAssumption == Ops \subseteq Operations

VARIABLES
    (* the database server *)
    db,         \* the committed tables
    lock,       \* process whose session holds the advisory lock, or NoProc
    sess,       \* [Procs -> ...] the pinned session as the server sees it
    tx,         \* [Procs -> ...] the transaction open on that session
    committed,  \* the requests whose transaction was committed (history variable)
    (* the server processes *)
    proc,       \* [Procs -> ...] where RunServer is
    lost,       \* [Procs -> BOOLEAN] configOwner.lost (and done is closed)
    sem,        \* [Procs -> BOOLEAN] the token is in configOwner.sem
    conn,       \* [Procs -> ...] configOwner.conn, the client side
    (* the requests *)
    pc,         \* [Requests -> ...] where WithConfigTransaction is
    at,         \* [Requests -> ...] the process that serves it
    op,         \* [Requests -> ...] what it asks for
    cancelled,  \* [Requests -> BOOLEAN] its context is cancelled
    resp        \* [Requests -> ...] the answer, decided but maybe not yet sent

dbVars == <<db, lock, sess, tx, committed>>
procVars == <<proc, lost, sem, conn>>
reqVars == <<pc, at, op, cancelled, resp>>
vars == <<db, lock, sess, tx, committed, proc, lost, sem, conn, pc, at, op, cancelled, resp>>

Transactions == [status : {"none", "open", "committing", "committed"},
                 req : Requests \cup {NoProc}, work : Databases]

NoTx == [status |-> "none", req |-> NoProc, work |-> EmptyDatabase]

NoOp == [kind |-> "none"]

(* the request holds the semaphore's token *)
Holding == {"verify", "begin", "fn", "verifyTx", "commit", "commitWait", "rollback", "putSem"}

(* the request has an unfinished sql.Tx *)
InTx == {"fn", "verifyTx", "commit", "commitWait", "rollback"}

(* the request has not sent a COMMIT, and still may                        *)
Uncommitted == {"new", "select", "verify", "begin", "fn", "verifyTx", "commit"}

PcStates == {"new", "select"} \cup Holding \cup {"checkLost", "discard", "done", "gone"}

ProcStates == {"new", "checking", "preload", "serving", "releasing", "released", "exited"}

(* the owner has been published in Store.configOwner *)
Up == {"serving", "releasing", "released"}

TypeOK ==
    /\ db \in Databases
    /\ lock \in Procs \cup {NoProc}
    /\ sess \in [Procs -> {"none", "open", "ended"}]
    /\ tx \in [Procs -> Transactions]
    /\ committed \subseteq Requests
    /\ proc \in [Procs -> ProcStates]
    /\ lost \in [Procs -> BOOLEAN]
    /\ sem \in [Procs -> BOOLEAN]
    /\ conn \in [Procs -> {"none", "open", "closing", "closed"}]
    /\ pc \in [Requests -> PcStates]
    /\ at \in [Requests -> Procs \cup {NoProc}]
    /\ op \in [Requests -> Ops \cup {NoOp}]
    /\ cancelled \in [Requests -> BOOLEAN]
    /\ resp \in [Requests -> {"none", "ok", "rejected", "unavailable"}]

Init ==
    /\ db = EmptyDatabase
    /\ lock = NoProc
    /\ sess = [p \in Procs |-> "none"]
    /\ tx = [p \in Procs |-> NoTx]
    /\ committed = {}
    /\ proc = [p \in Procs |-> "new"]
    /\ lost = [p \in Procs |-> FALSE]
    /\ sem = [p \in Procs |-> FALSE]
    /\ conn = [p \in Procs |-> "none"]
    /\ pc = [r \in Requests |-> "new"]
    /\ at = [r \in Requests |-> NoProc]
    /\ op = [r \in Requests |-> NoOp]
    /\ cancelled = [r \in Requests |-> FALSE]
    /\ resp = [r \in Requests |-> "none"]

-----------------------------------------------------------------------------
(* A statement of p reaches the database: only on the pinned session.      *)
SessionUsable(p) == sess[p] = "open"

(* configOwner.conn accepts a new query or a new transaction.              *)
ConnUsable(p) == conn[p] = "open" /\ SessionUsable(p)

(* The pinned session holds the advisory lock (pg_locks / IS_USED_LOCK).   *)
Owns(p) == lock = p

CloseConn(p) == conn' = [conn EXCEPT ![p] = IF @ = "none" THEN @ ELSE "closed"]

lose(p) == lost' = [lost EXCEPT ![p] = TRUE]

-----------------------------------------------------------------------------
(***************************************************************************)
(* The process: AcquireConfigOwnership, the preload of NewConfigHub,       *)
(* ReleaseConfigOwnership at shutdown, and the end of the process.         *)
(***************************************************************************)

(* The lock is free: the session is pinned and the token put in the        *)
(* semaphore.  The owner is not published yet.                             *)
AcquireLock(p) ==
    /\ proc[p] = "new"
    /\ lock = NoProc
    /\ lock' = p
    /\ sess' = [sess EXCEPT ![p] = "open"]
    /\ conn' = [conn EXCEPT ![p] = "open"]
    /\ sem' = [sem EXCEPT ![p] = TRUE]
    /\ proc' = [proc EXCEPT ![p] = "checking"]
    /\ UNCHANGED <<db, tx, committed, lost, reqVars>>

(* The lock is taken (or there is no connection, or a pool of one): the    *)
(* session is discarded and RunServer returns the error.                   *)
AcquireRefused(p) ==
    /\ proc[p] = "new"
    /\ proc' = [proc EXCEPT ![p] = "exited"]
    /\ UNCHANGED <<dbVars, lost, sem, conn, reqVars>>

(* The tables are transactional: s.configOwner.Store(o).                   *)
InstallOwner(p) ==
    /\ proc[p] = "checking"
    /\ SessionUsable(p)
    /\ proc' = [proc EXCEPT ![p] = "preload"]
    /\ UNCHANGED <<dbVars, lost, sem, conn, reqVars>>

(* A legacy engine or a failed query: the session is discarded.            *)
InstallRefused(p) ==
    /\ proc[p] = "checking"
    /\ lose(p)
    /\ CloseConn(p)
    /\ proc' = [proc EXCEPT ![p] = "exited"]
    /\ UNCHANGED <<dbVars, sem, reqVars>>

(* ConfigMD5Index is an owned transaction that reads every row; nothing    *)
(* else runs in the process yet.                                           *)
Preload(p) ==
    /\ proc[p] = "preload"
    /\ ConnUsable(p) /\ Owns(p)
    /\ proc' = [proc EXCEPT ![p] = "serving"]
    /\ UNCHANGED <<dbVars, lost, sem, conn, reqVars>>

(* The preload failed: NewConfigHub releases the ownership, whose token is *)
(* free, and the process ends.                                             *)
PreloadFailed(p) ==
    /\ proc[p] = "preload"
    /\ lose(p)
    /\ CloseConn(p)
    /\ proc' = [proc EXCEPT ![p] = "exited"]
    /\ UNCHANGED <<dbVars, sem, reqVars>>

(* Store.Close at shutdown.  http.Server.ListenAndServe returns as soon as *)
(* Shutdown is called, so requests are still in flight.                    *)
ReleaseBegin(p) ==
    /\ proc[p] = "serving"
    /\ lose(p)
    /\ proc' = [proc EXCEPT ![p] = "releasing"]
    /\ UNCHANGED <<dbVars, sem, conn, reqVars>>

(* The token came within 5 s: discard, and put the token back.  A discard  *)
(* that another goroutine has begun is left to it.                         *)
ReleaseDiscard(p) ==
    /\ proc[p] = "releasing"
    /\ sem[p]
    /\ conn' = [conn EXCEPT ![p] = IF @ = "open" THEN "closed" ELSE @]
    /\ proc' = [proc EXCEPT ![p] = "released"]
    /\ UNCHANGED <<dbVars, lost, sem, reqVars>>

(* It did not: the holder is left to discard the session itself.           *)
ReleaseTimeout(p) ==
    /\ proc[p] = "releasing"
    /\ ~sem[p]
    /\ proc' = [proc EXCEPT ![p] = "released"]
    /\ UNCHANGED <<dbVars, lost, sem, conn, reqVars>>

(* The process ends, by a crash or after Store.Close.  Its requests are    *)
(* never answered; the server has yet to notice the closed socket.         *)
Exit(p) ==
    /\ proc[p] \notin {"new", "exited"}
    /\ proc' = [proc EXCEPT ![p] = "exited"]
    /\ CloseConn(p)
    /\ pc' = [r \in Requests |->
                IF at[r] = p /\ pc[r] # "done" THEN "gone" ELSE pc[r]]
    /\ UNCHANGED <<dbVars, lost, sem, at, op, cancelled, resp>>

-----------------------------------------------------------------------------
(***************************************************************************)
(* The database server.                                                    *)
(***************************************************************************)

(* The session of p ends: killed, cut off, or its socket found closed.     *)
SessionEnd(p) ==
    /\ sess[p] = "open"
    /\ sess' = [sess EXCEPT ![p] = "ended"]
    /\ tx' = [tx EXCEPT ![p] = NoTx]
    /\ lock' = IF lock = p THEN NoProc ELSE lock
    /\ UNCHANGED <<db, committed, procVars, reqVars>>

(* The server executes a COMMIT it has received, even one whose client has *)
(* died or stopped waiting in between.                                     *)
DbCommit(p) ==
    /\ tx[p].status = "committing"
    /\ db' = tx[p].work
    /\ tx' = [tx EXCEPT ![p].status = "committed"]
    /\ committed' = committed \cup {tx[p].req}
    /\ UNCHANGED <<lock, sess, procVars, reqVars>>

-----------------------------------------------------------------------------
(***************************************************************************)
(* The request: serveConfig and WithConfigTransaction.                     *)
(***************************************************************************)

(* The client goes away, or the request's deadline passes.                 *)
Cancel(r) ==
    /\ r \in Impatient
    /\ pc[r] \notin {"done", "gone"}
    /\ ~cancelled[r]
    /\ cancelled' = [cancelled EXCEPT ![r] = TRUE]
    /\ UNCHANGED <<dbVars, procVars, pc, at, op, resp>>

Goto(r, next) == pc' = [pc EXCEPT ![r] = next]

Answer(r, a) == resp' = [resp EXCEPT ![r] = a]

(* ctx.Err(), then the owner's lost flag.                                  *)
Enter(r, p, o) ==
    /\ pc[r] = "new"
    /\ proc[p] \in Up
    /\ at' = [at EXCEPT ![r] = p]
    /\ op' = [op EXCEPT ![r] = o]
    /\ IF cancelled[r] \/ lost[p]
         THEN Goto(r, "done") /\ Answer(r, "unavailable")
         ELSE Goto(r, "select") /\ UNCHANGED resp
    /\ UNCHANGED <<dbVars, procVars, cancelled>>

(* The select statement: when several cases are ready Go takes any.        *)
SelectInactive(r) ==
    /\ pc[r] = "select"
    /\ cancelled[r] \/ lost[at[r]]
    /\ Goto(r, "done")
    /\ Answer(r, "unavailable")
    /\ UNCHANGED <<dbVars, procVars, at, op, cancelled>>

(* A faulty SelectToken: the token stays in the channel.                   *)
SelectTokenShared(r) ==
    /\ pc[r] = "select"
    /\ sem[at[r]]
    /\ Goto(r, "verify")
    /\ UNCHANGED <<dbVars, procVars, at, op, cancelled, resp>>

SelectToken(r) ==
    /\ pc[r] = "select"
    /\ sem[at[r]]
    /\ sem' = [sem EXCEPT ![at[r]] = FALSE]
    /\ Goto(r, "verify")
    /\ UNCHANGED <<dbVars, proc, lost, conn, at, op, cancelled, resp>>

(* verifyConfigOwner on the pinned connection.                             *)
Verify(r) ==
    /\ pc[r] = "verify"
    /\ ~lost[at[r]] /\ ConnUsable(at[r]) /\ Owns(at[r])
    /\ Goto(r, "begin")
    /\ UNCHANGED <<dbVars, procVars, at, op, cancelled, resp>>

(* Any error of the query loses the ownership, a cancelled context too.    *)
VerifyFailed(r) ==
    /\ pc[r] = "verify"
    /\ lost[at[r]] \/ ~ConnUsable(at[r]) \/ ~Owns(at[r]) \/ cancelled[r]
    /\ lose(at[r])
    /\ Goto(r, "putSem")
    /\ Answer(r, "unavailable")
    /\ UNCHANGED <<dbVars, proc, sem, conn, at, op, cancelled>>

(* A faulty BeginTx, for the sensitivity checks: the transaction starts on *)
(* a connection of the pool instead of the pinned one.                     *)
BeginTxPooled(r) ==
    /\ pc[r] = "begin"
    /\ ~cancelled[r]
    /\ tx' = [tx EXCEPT ![at[r]] = [status |-> "open", req |-> r, work |-> db]]
    /\ Goto(r, "fn")
    /\ UNCHANGED <<db, lock, sess, committed, procVars, at, op, cancelled, resp>>

(* The transaction starts on the pinned connection.                        *)
BeginTx(r) ==
    /\ pc[r] = "begin"
    /\ ConnUsable(at[r])
    /\ tx' = [tx EXCEPT ![at[r]] = [status |-> "open", req |-> r, work |-> db]]
    /\ Goto(r, "fn")
    /\ UNCHANGED <<db, lock, sess, committed, procVars, at, op, cancelled, resp>>

BeginTxFailed(r) ==
    /\ pc[r] = "begin"
    /\ ~ConnUsable(at[r]) \/ cancelled[r]
    /\ lose(at[r])
    /\ Goto(r, "putSem")
    /\ Answer(r, "unavailable")
    /\ UNCHANGED <<dbVars, proc, sem, conn, at, op, cancelled>>

(* The handler runs its statements on the transaction.  It reads the       *)
(* committed tables (read committed, or the snapshot of its first read).   *)
RunHandler(r) ==
    /\ pc[r] = "fn"
    /\ SessionUsable(at[r]) /\ ~cancelled[r]
    /\ tx' = [tx EXCEPT ![at[r]].work = Apply(db, op[r])]
    /\ Goto(r, "verifyTx")
    /\ UNCHANGED <<db, lock, sess, committed, procVars, at, op, cancelled, resp>>

(* A faulty HandlerRejects: the status of the handler is not looked at.    *)
HandlerRejectsCommits(r) ==
    /\ pc[r] = "fn"
    /\ SessionUsable(at[r])
    /\ \E d \in Prefixes(db, op[r]) : tx' = [tx EXCEPT ![at[r]].work = d]
    /\ Goto(r, "verifyTx")
    /\ UNCHANGED <<db, lock, sess, committed, procVars, at, op, cancelled, resp>>

(* It writes a status of 400 or more: a bad parameter, a missing row, a    *)
(* failed statement, a response over the cap.                              *)
HandlerRejects(r) ==
    /\ pc[r] = "fn"
    /\ IF SessionUsable(at[r])
         THEN \E d \in Prefixes(db, op[r]) : tx' = [tx EXCEPT ![at[r]].work = d]
         ELSE UNCHANGED tx
    /\ Goto(r, "rollback")
    /\ Answer(r, "rejected")
    /\ UNCHANGED <<db, lock, sess, committed, procVars, at, op, cancelled>>

(* verifyConfigOwner on the transaction.                                   *)
VerifyTx(r) ==
    /\ pc[r] = "verifyTx"
    /\ ~lost[at[r]] /\ SessionUsable(at[r]) /\ Owns(at[r]) /\ ~cancelled[r]
    /\ Goto(r, "commit")
    /\ UNCHANGED <<dbVars, procVars, at, op, cancelled, resp>>

VerifyTxFailed(r) ==
    /\ pc[r] = "verifyTx"
    /\ lost[at[r]] \/ ~SessionUsable(at[r]) \/ ~Owns(at[r]) \/ cancelled[r]
    /\ lose(at[r])
    /\ Goto(r, "rollback")
    /\ Answer(r, "unavailable")
    /\ UNCHANGED <<dbVars, proc, sem, conn, at, op, cancelled>>

(* tx.Commit sends COMMIT, unless the context is already cancelled.        *)
SendCommit(r) ==
    /\ pc[r] = "commit"
    /\ SessionUsable(at[r]) /\ ~cancelled[r]
    /\ tx' = [tx EXCEPT ![at[r]].status = "committing"]
    /\ Goto(r, "commitWait")
    /\ UNCHANGED <<db, lock, sess, committed, procVars, at, op, cancelled, resp>>

CommitRefused(r) ==
    /\ pc[r] = "commit"
    /\ ~SessionUsable(at[r]) \/ cancelled[r]
    /\ lose(at[r])
    /\ Goto(r, "rollback")
    /\ Answer(r, "unavailable")
    /\ UNCHANGED <<dbVars, proc, sem, conn, at, op, cancelled>>

(* The acknowledgement arrives.  The after-commit notifications run here,  *)
(* with the token still held; ConfigHub models what they do.               *)
CommitAcked(r) ==
    /\ pc[r] = "commitWait"
    /\ tx[at[r]].status = "committed"
    /\ tx' = [tx EXCEPT ![at[r]] = NoTx]
    /\ Goto(r, "putSem")
    /\ Answer(r, "ok")
    /\ UNCHANGED <<db, lock, sess, committed, procVars, at, op, cancelled>>

(* tx.Commit fails without an acknowledgement: the session has ended, the  *)
(* connection is cut, or the read timed out (readTimeout of the DSN).  The *)
(* outcome is unknown, and still open where the server has the COMMIT: it  *)
(* may execute it after the 503.  The sql.Tx is finished either way, so    *)
(* the deferred Rollback sends nothing.                                    *)
CommitUnknown(r) ==
    /\ pc[r] = "commitWait"
    /\ lose(at[r])
    /\ Goto(r, "putSem")
    /\ Answer(r, "unavailable")
    /\ UNCHANGED <<dbVars, proc, sem, conn, at, op, cancelled>>

(* The deferred tx.Rollback, before the semaphore's token is returned.     *)
Rollback(r) ==
    /\ pc[r] = "rollback"
    /\ tx' = [tx EXCEPT ![at[r]] = NoTx]
    /\ Goto(r, "putSem")
    /\ UNCHANGED <<db, lock, sess, committed, procVars, at, op, cancelled, resp>>

(* A faulty PutSem: the token is not returned.                             *)
PutSemForgotten(r) ==
    /\ pc[r] = "putSem"
    /\ Goto(r, "checkLost")
    /\ UNCHANGED <<dbVars, procVars, at, op, cancelled, resp>>

(* The deferred function: first the token, then the lost flag.             *)
PutSem(r) ==
    /\ pc[r] = "putSem"
    /\ sem' = [sem EXCEPT ![at[r]] = TRUE]
    /\ Goto(r, "checkLost")
    /\ UNCHANGED <<dbVars, proc, lost, conn, at, op, cancelled, resp>>

(* A faulty CheckLost: the session is left to somebody else.               *)
CheckLostIgnored(r) ==
    /\ pc[r] = "checkLost"
    /\ Goto(r, "done")
    /\ UNCHANGED <<dbVars, procVars, at, op, cancelled, resp>>

CheckLost(r) ==
    /\ pc[r] = "checkLost"
    /\ IF lost[at[r]] /\ conn[at[r]] = "open"
         THEN conn' = [conn EXCEPT ![at[r]] = "closing"] /\ Goto(r, "discard")
         ELSE Goto(r, "done") /\ UNCHANGED conn
    /\ UNCHANGED <<dbVars, proc, lost, sem, at, op, cancelled, resp>>

(* sql.Conn.close waits for the transaction another request may have begun *)
(* with the token that was put back.                                       *)
Discard(r) ==
    /\ pc[r] = "discard"
    /\ ~\E q \in Requests : at[q] = at[r] /\ pc[q] \in InTx
    /\ CloseConn(at[r])
    /\ Goto(r, "done")
    /\ UNCHANGED <<dbVars, proc, lost, sem, at, op, cancelled, resp>>

-----------------------------------------------------------------------------
ProcStep(p) ==
    \/ AcquireLock(p) \/ AcquireRefused(p) \/ InstallOwner(p) \/ InstallRefused(p)
    \/ Preload(p) \/ PreloadFailed(p)
    \/ ReleaseBegin(p) \/ ReleaseDiscard(p) \/ ReleaseTimeout(p) \/ Exit(p)

DbStep(p) == SessionEnd(p) \/ DbCommit(p)

(* the steps of the goroutine that serves r, once it is in                 *)
Serve(r) ==
    \/ SelectInactive(r) \/ SelectToken(r) \/ Verify(r) \/ VerifyFailed(r)
    \/ BeginTx(r) \/ BeginTxFailed(r) \/ RunHandler(r) \/ HandlerRejects(r)
    \/ VerifyTx(r) \/ VerifyTxFailed(r) \/ SendCommit(r) \/ CommitRefused(r)
    \/ CommitAcked(r) \/ CommitUnknown(r) \/ Rollback(r)
    \/ PutSem(r) \/ CheckLost(r) \/ Discard(r)

Next ==
    \/ \E p \in Procs : ProcStep(p) \/ DbStep(p)
    \/ \E r \in Requests :
          \/ Cancel(r)
          \/ Serve(r)
          \/ \E p \in Procs, o \in Ops : Enter(r, p, o)

Spec == Init /\ [][Next]_vars

(***************************************************************************)
(* Goroutines run, the semaphore's waiters are served in order (a Go       *)
(* channel queues its receivers), the server executes the COMMITs it gets  *)
(* and notices closed sockets, and ReleaseConfigOwnership's timer fires.   *)
(* Nothing makes a client send or cancel, or a process start or stop.      *)
(***************************************************************************)
Fairness ==
    /\ \A r \in Requests : WF_vars(Serve(r)) /\ SF_vars(SelectToken(r))
    /\ \A p \in Procs :
          /\ WF_vars(DbCommit(p))
          /\ WF_vars(SessionEnd(p) /\ conn[p] = "closed")
          /\ WF_vars(ReleaseDiscard(p) \/ ReleaseTimeout(p))

FairSpec == Spec /\ Fairness
-----------------------------------------------------------------------------
(***************************************************************************)
(* Properties.                                                             *)
(***************************************************************************)

(* Fencing: a transaction exists only on the session that holds the lock,  *)
(* so a process that was replaced has none ("Losing this session aborts    *)
(* the transaction before another session can own the lock").              *)
OnlyOwnerWrites == \A p \in Procs : tx[p].status # "none" => Owns(p)

(* No lost update and no stale read: what a handler has computed and is    *)
(* about to commit is still its effect on the committed tables as they are *)
(* now, although it computed it several steps ago; and so is what a COMMIT *)
(* on its way will write, also one that nobody waits for any more.         *)
WorkIsCurrent ==
    /\ \A r \in Requests :
          pc[r] \in {"verifyTx", "commit"} /\ tx[at[r]].status = "open"
          => tx[at[r]].work = Apply(db, op[r])
    /\ \A p \in Procs :
          tx[p].status = "committing" => tx[p].work = Apply(db, op[tx[p].req])

(* The committed tables agree with one another whatever was rejected,      *)
(* killed or crashed: config_info with its history and its tags.           *)
TablesAgree == WellFormed(db)

(* The semaphore's token is never lost nor doubled, whichever way a        *)
(* request leaves: it is in the channel, or one request has it.            *)
TokenConserved ==
    \A p \in Procs : proc[p] \in Up =>
       /\ sem[p] <=> ~\E r \in Requests : at[r] = p /\ pc[r] \in Holding
       /\ \A q, r \in Requests :
             at[q] = p /\ at[r] = p /\ pc[q] \in Holding /\ pc[r] \in Holding => q = r

(* Clients see one store with one owner at a time: see SingleActive.       *)
Abstract == INSTANCE SingleActive WITH
    owner <- lock,
    retired <- { p \in Procs : sess[p] = "ended" },
    askedOf <- at,
    asked <- op,
    answer <- resp

ActsAsSingleActive == Abstract!Spec

(* A request that is waiting for the token or being served is answered, or *)
(* its process ends.                                                       *)
EveryRequestAnswered ==
    \A r \in Requests : pc[r] = "select" ~> pc[r] \in {"done", "gone"}

(* A process that lost its ownership lets go of the database lock, so that *)
(* a fresh process can take over: somebody always discards the session,    *)
(* also when ReleaseConfigOwnership timed out and when the loss is noticed *)
(* after the token was put back.                                           *)
LostFreesLock == \A p \in Procs : (lost[p] /\ lock = p) ~> lock # p

(* A request whose client goes away leaves the process able to serve the   *)
(* others: a serving process whose session lives and holds the lock is not *)
(* lost.  The code does not guarantee it: see VerifyFailed.                *)
CancelKeepsOwnership == \A p \in Procs : proc[p] = "serving" /\ Owns(p) => ~lost[p]
-----------------------------------------------------------------------------
(***************************************************************************)
(* The inductive invariant the proofs rest on.                             *)
(***************************************************************************)

(* A process pins its session together with the lock, and the server frees *)
(* the lock only when it ends the session.                                 *)
SessionIsLock ==
    \A p \in Procs :
       /\ sess[p] = "open" <=> lock = p
       /\ proc[p] = "new" => sess[p] = "none"

(* The request has stopped waiting for its COMMIT.                         *)
Abandoned == {"putSem", "checkLost", "discard", "done"}

(* What the transaction on a session says about its request.  A COMMIT     *)
(* that was given up belongs to a lost process, which begins no other.     *)
TxBelongs(p) ==
    LET r == tx[p].req
    IN  /\ sess[p] = "open"
        /\ r \in Requests
        /\ at[r] = p
        /\ op[r] \in Ops
        /\ pc[r] \in IF tx[p].status = "open" THEN {"fn", "verifyTx", "commit", "rollback", "gone"}
                                               ELSE {"commitWait", "gone"} \cup Abandoned
        /\ tx[p].status # "open" /\ pc[r] \in Abandoned => lost[p] /\ resp[r] = "unavailable"
        /\ r \in committed <=> tx[p].status = "committed"
        /\ tx[p].status = "committing" => resp[r] \in {"none", "unavailable"}
        /\ tx[p].status = "committing" \/ pc[r] \in {"verifyTx", "commit"} =>
              tx[p].work = Apply(db, op[r])

TxInv == \A p \in Procs : tx[p].status # "none" => TxBelongs(p)

(* What the place of a request says about it.                              *)
RequestFacts(r) ==
    /\ pc[r] = "new" => at[r] = NoProc
    /\ pc[r] # "new" => at[r] \in Procs /\ op[r] \in Ops
    /\ pc[r] \notin {"new", "done", "gone"} => proc[at[r]] \in Up
    /\ pc[r] = "gone" => proc[at[r]] = "exited"
    /\ pc[r] \in Uncommitted \cup {"commitWait"} => resp[r] = "none"
    /\ pc[r] \in Uncommitted => r \notin committed
    /\ pc[r] = "begin" => tx[at[r]].status = "none"
    /\ pc[r] \in InTx /\ tx[at[r]].status # "none" => tx[at[r]].req = r
    /\ pc[r] \in {"fn", "verifyTx", "commit"} /\ sess[at[r]] = "open" => tx[at[r]].status = "open"
    /\ resp[r] = "ok" => r \in committed
    /\ resp[r] = "rejected" => r \notin committed

RequestInv == \A r \in Requests : RequestFacts(r)

(* TokenConserved from the moment the semaphore exists: one holder at a    *)
(* time keeps two requests off one session.                                *)
OneHolder ==
    /\ \A q, r \in Requests :
          pc[r] \in Holding => /\ ~sem[at[r]]
                               /\ at[q] = at[r] /\ pc[q] \in Holding => q = r
    /\ \A p \in Procs :
          proc[p] \in {"checking", "preload"} \cup Up /\ ~sem[p] =>
             \E r \in Requests : at[r] = p /\ pc[r] \in Holding

(* The fencing invariant: together these are inductive.                    *)
Fenced == TypeOK /\ SessionIsLock /\ TxInv /\ RequestInv /\ OneHolder
=============================================================================

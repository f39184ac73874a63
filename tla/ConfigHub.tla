------------------------------ MODULE ConfigHub ------------------------------
(***************************************************************************)
(* The long-poll hub of one server process (internal/core/hub.go) with the *)
(* listener routes (configV1Listener, configV2Listener) and their final    *)
(* admission (serveConfig).                                                *)
(*                                                                         *)
(* A listener names keys and the md5 it knows of each, and waits until one *)
(* differs.  It compares in short owned transactions and parks in between; *)
(* a publish or a delete that has committed wakes the listeners registered *)
(* on its key, and takes them off the key.  An owned transaction is one    *)
(* step here: ConfigOwner implements SingleActive, where a request takes   *)
(* effect at one instant or fails.  The after-commit hooks of a writer run *)
(* while it holds the semaphore's token, which keeps the other             *)
(* transactions out: busy.                                                 *)
(***************************************************************************)
EXTENDS Integers, FiniteSets

CONSTANTS
    Keys,       \* configuration keys
    Contents,   \* contents, each its own md5
    Absent,     \* the md5 of a key without a row
    Listeners,  \* long-poll requests
    Impatient,  \* the listeners whose client may go away
    Writers,    \* publish and delete requests
    NoWriter    \* nobody

ASSUME HubAssumption ==
    Absent \notin Contents /\ NoWriter \notin Writers /\ Impatient \subseteq Listeners

Md5s == Contents \cup {Absent}

Known == UNION { [K -> Md5s] : K \in SUBSET Keys }

Writes == [key : Keys, md5 : Md5s]

NoWrite == <<>>

VARIABLES
    (* the database and the ownership *)
    db,         \* [Keys -> Md5s] the committed md5 of each key
    session,    \* the pinned session is alive: this process is the owner
    lost,       \* configOwner.lost; ConfigOwnershipDone is closed
    busy,       \* the writer that holds the token in its after-commit hooks
    (* the hub *)
    md5s,       \* ConfigHub.md5s
    watchers,   \* [Keys -> SUBSET Listeners] ConfigHub.watchers
    ch,         \* [Listeners -> BOOLEAN] the listener's channel is full
    (* the writers *)
    wpc,        \* [Writers -> ...]
    wrote,      \* [Writers -> ...] the key and the md5 its hook was given
    pending,    \* [Writers -> SUBSET Listeners] channels still to be notified
    (* the listeners *)
    lpc,        \* [Listeners -> ...] where WaitChanged is
    known,      \* [Listeners -> ...] the keys it names, with the md5s it knows
    gone,       \* [Listeners -> BOOLEAN] the client has gone: ctx is done
    changed,    \* [Listeners -> SUBSET Keys] the keys to be reported
    answer      \* [Listeners -> ...] "none", "ok" or "unavailable"

storeVars == <<db, session, lost, busy>>
hubVars == <<md5s, watchers, ch>>
writerVars == <<wpc, wrote, pending>>
listenerVars == <<lpc, known, gone, changed, answer>>
vars == <<storeVars, hubVars, writerVars, listenerVars>>

Checking == {"check", "recheck", "wakeCheck", "lastCheck"}

(* between the registration on the keys and the deferred removal           *)
Registered == {"recheck", "wakeCheck", "lastCheck", "parked", "leave"}

TypeOK ==
    /\ db \in [Keys -> Md5s] /\ md5s \in [Keys -> Md5s]
    /\ session \in BOOLEAN /\ lost \in BOOLEAN
    /\ busy \in Writers \cup {NoWriter}
    /\ watchers \in [Keys -> SUBSET Listeners]
    /\ ch \in [Listeners -> BOOLEAN]
    /\ wpc \in [Writers -> {"new", "hook", "notify", "done"}]
    /\ wrote \in [Writers -> Writes \cup {NoWrite}]
    /\ pending \in [Writers -> SUBSET Listeners]
    /\ lpc \in [Listeners -> {"new", "register", "admit", "done"} \cup Checking \cup Registered]
    /\ known \in [Listeners -> Known]
    /\ gone \in [Listeners -> BOOLEAN]
    /\ changed \in [Listeners -> SUBSET Keys]
    /\ answer \in [Listeners -> {"none", "ok", "unavailable"}]

(* NewConfigHub has acquired the ownership and preloaded the md5 index.    *)
Init ==
    /\ db \in [Keys -> Md5s]
    /\ session = TRUE /\ lost = FALSE /\ busy = NoWriter
    /\ md5s = db
    /\ watchers = [k \in Keys |-> {}]
    /\ ch = [l \in Listeners |-> FALSE]
    /\ wpc = [w \in Writers |-> "new"]
    /\ wrote = [w \in Writers |-> NoWrite]
    /\ pending = [w \in Writers |-> {}]
    /\ lpc = [l \in Listeners |-> "new"]
    /\ known = [l \in Listeners |-> <<>>]
    /\ gone = [l \in Listeners |-> FALSE]
    /\ changed = [l \in Listeners |-> {}]
    /\ answer = [l \in Listeners |-> "none"]

-----------------------------------------------------------------------------
(***************************************************************************)
(* Ownership, from ConfigOwner: the session ends; the process notices, or  *)
(* shuts down; another process writes once the session has ended.          *)
(***************************************************************************)
SessionEnd ==
    /\ session
    /\ session' = FALSE
    /\ UNCHANGED <<db, lost, busy, hubVars, writerVars, listenerVars>>

Lose ==
    /\ ~lost
    /\ lost' = TRUE
    /\ UNCHANGED <<db, session, busy, hubVars, writerVars, listenerVars>>

OtherOwnerWrites(k, m) ==
    /\ ~session
    /\ db[k] # m
    /\ db' = [db EXCEPT ![k] = m]
    /\ UNCHANGED <<session, lost, busy, hubVars, writerVars, listenerVars>>

(* an owned transaction can run now                                        *)
Owned == session /\ ~lost /\ busy = NoWriter

-----------------------------------------------------------------------------
(***************************************************************************)
(* Writers: configV1Publish / configV1Delete up to the commit, then the    *)
(* hook Hub.Publish or Hub.Invalidate (m = Absent).                        *)
(***************************************************************************)
(* A faulty Write, for the sensitivity checks: the hook runs after the     *)
(* token has been returned.                                                *)
WriteHookLater(w, k, m) ==
    /\ wpc[w] = "new"
    /\ Owned
    /\ db' = [db EXCEPT ![k] = m]
    /\ wpc' = [wpc EXCEPT ![w] = "hook"]
    /\ wrote' = [wrote EXCEPT ![w] = [key |-> k, md5 |-> m]]
    /\ UNCHANGED <<session, lost, busy, hubVars, pending, listenerVars>>

Write(w, k, m) ==
    /\ wpc[w] = "new"
    /\ Owned
    /\ db' = [db EXCEPT ![k] = m]
    /\ IF m = Absent /\ db[k] = Absent     \* deleted = false: no hook
         THEN /\ wpc' = [wpc EXCEPT ![w] = "done"]
              /\ UNCHANGED <<busy, wrote>>
         ELSE /\ wpc' = [wpc EXCEPT ![w] = "hook"]
              /\ wrote' = [wrote EXCEPT ![w] = [key |-> k, md5 |-> m]]
              /\ busy' = w
    /\ UNCHANGED <<session, lost, hubVars, pending, listenerVars>>

(* The commit is executed but its acknowledgement is lost with the         *)
(* session: no hook runs.                                                  *)
WriteUnacknowledged(w, k, m) ==
    /\ wpc[w] = "new"
    /\ Owned
    /\ db' = [db EXCEPT ![k] = m]
    /\ session' = FALSE
    /\ wpc' = [wpc EXCEPT ![w] = "done"]
    /\ UNCHANGED <<lost, busy, hubVars, wrote, pending, listenerVars>>

(* Hub.Publish / Hub.Invalidate under mu: takeWatchersLocked.              *)
TakeWatchers(w) ==
    /\ wpc[w] = "hook"
    /\ md5s' = [md5s EXCEPT ![wrote[w].key] = wrote[w].md5]
    /\ pending' = [pending EXCEPT ![w] = watchers[wrote[w].key]]
    /\ watchers' = [watchers EXCEPT ![wrote[w].key] = {}]
    /\ wpc' = [wpc EXCEPT ![w] = "notify"]
    /\ UNCHANGED <<storeVars, ch, wrote, listenerVars>>

(* A faulty Notify: a send on a channel without room waits for a receiver. *)
NotifyBlocking(w, l) ==
    /\ wpc[w] = "notify"
    /\ l \in pending[w]
    /\ lpc[l] \in {"parked", "done"}
    /\ ch' = [ch EXCEPT ![l] = TRUE]
    /\ pending' = [pending EXCEPT ![w] = @ \ {l}]
    /\ UNCHANGED <<storeVars, md5s, watchers, wpc, wrote, listenerVars>>

(* notify: a send that never blocks, on a channel of capacity one.         *)
Notify(w, l) ==
    /\ wpc[w] = "notify"
    /\ l \in pending[w]
    /\ ch' = [ch EXCEPT ![l] = TRUE]
    /\ pending' = [pending EXCEPT ![w] = @ \ {l}]
    /\ UNCHANGED <<storeVars, md5s, watchers, wpc, wrote, listenerVars>>

(* The hooks are over and the token goes back.                             *)
FinishWrite(w) ==
    /\ wpc[w] = "notify"
    /\ pending[w] = {}
    /\ busy' = NoWriter
    /\ wpc' = [wpc EXCEPT ![w] = "done"]
    /\ UNCHANGED <<db, session, lost, hubVars, wrote, pending, listenerVars>>

-----------------------------------------------------------------------------
(***************************************************************************)
(* Listeners: WaitChanged, then the final admission of serveConfig.        *)
(***************************************************************************)
Differing(l) == { k \in DOMAIN known[l] : db[k] # known[l][k] }

(* Without keys there is nothing to wait for.                              *)
Listen(l, m) ==
    /\ lpc[l] = "new"
    /\ known' = [known EXCEPT ![l] = m]
    /\ lpc' = [lpc EXCEPT ![l] = IF DOMAIN m = {} THEN "admit" ELSE "check"]
    /\ UNCHANGED <<storeVars, hubVars, writerVars, gone, changed, answer>>

(* where a successful comparison leads                                     *)
AfterCheck(l) ==
    CASE lpc[l] = "check"     -> IF Differing(l) # {} THEN "admit" ELSE "register"
      [] lpc[l] = "lastCheck" -> "leave"
      [] OTHER                -> IF Differing(l) # {} THEN "leave" ELSE "parked"

(* check(): one owned transaction that compares every key.                 *)
Check(l) ==
    /\ lpc[l] \in Checking
    /\ Owned /\ ~gone[l]
    /\ changed' = [changed EXCEPT ![l] = Differing(l)]
    /\ lpc' = [lpc EXCEPT ![l] = AfterCheck(l)]
    /\ UNCHANGED <<storeVars, hubVars, writerVars, known, gone, answer>>

(* WithConfigTransaction fails: at once when the ownership is known to be  *)
(* lost or the client gone; in the verification, which loses it; or in the *)
(* function it runs (a failed statement, an answer over the cap).          *)
TransactionFails(l) ==
    \/ (lost \/ gone[l] \/ Owned) /\ UNCHANGED lost
    \/ (~session \/ gone[l]) /\ ~lost /\ busy = NoWriter /\ lost' = TRUE

(* A faulty CheckFailed: the error is swallowed and the listener waits on. *)
CheckFailedRetries(l) ==
    /\ lpc[l] \in Checking
    /\ TransactionFails(l)
    /\ lpc' = [lpc EXCEPT ![l] = IF @ = "check" THEN "admit" ELSE "parked"]
    /\ UNCHANGED <<db, session, busy, hubVars, writerVars, known, gone, changed, answer>>

CheckFailed(l) ==
    /\ lpc[l] \in Checking
    /\ TransactionFails(l)
    /\ answer' = [answer EXCEPT ![l] = "unavailable"]
    /\ lpc' = [lpc EXCEPT ![l] = IF @ = "check" THEN "admit" ELSE "leave"]
    /\ UNCHANGED <<db, session, busy, hubVars, writerVars, known, gone, changed>>

(* A faulty Register: no second comparison.                                *)
RegisterWithoutRecheck(l) ==
    /\ lpc[l] = "register"
    /\ watchers' = [k \in Keys |-> IF k \in DOMAIN known[l] THEN watchers[k] \cup {l} ELSE watchers[k]]
    /\ lpc' = [lpc EXCEPT ![l] = "parked"]
    /\ UNCHANGED <<storeVars, md5s, ch, writerVars, known, gone, changed, answer>>

Register(l) ==
    /\ lpc[l] = "register"
    /\ watchers' = [k \in Keys |-> IF k \in DOMAIN known[l] THEN watchers[k] \cup {l} ELSE watchers[k]]
    /\ lpc' = [lpc EXCEPT ![l] = "recheck"]
    /\ UNCHANGED <<storeVars, md5s, ch, writerVars, known, gone, changed, answer>>

(* The select statement: notification, one-second tick, deadline, lost     *)
(* ownership, cancelled request.                                           *)
WakeNotified(l) ==
    /\ lpc[l] = "parked"
    /\ ch[l]
    /\ ch' = [ch EXCEPT ![l] = FALSE]
    /\ lpc' = [lpc EXCEPT ![l] = "wakeCheck"]
    /\ UNCHANGED <<storeVars, md5s, watchers, writerVars, known, gone, changed, answer>>

(* A faulty WakeTick: without the ticker only a notification wakes.        *)
WakeTickNotifiedOnly(l) ==
    /\ lpc[l] = "parked"
    /\ ch[l]
    /\ lpc' = [lpc EXCEPT ![l] = "wakeCheck"]
    /\ UNCHANGED <<storeVars, hubVars, writerVars, known, gone, changed, answer>>

WakeTick(l) ==
    /\ lpc[l] = "parked"
    /\ lpc' = [lpc EXCEPT ![l] = "wakeCheck"]
    /\ UNCHANGED <<storeVars, hubVars, writerVars, known, gone, changed, answer>>

Deadline(l) ==
    /\ lpc[l] = "parked"
    /\ lpc' = [lpc EXCEPT ![l] = "lastCheck"]
    /\ UNCHANGED <<storeVars, hubVars, writerVars, known, gone, changed, answer>>

WakeInactive(l) ==
    /\ lpc[l] = "parked"
    /\ lost \/ gone[l]
    /\ answer' = [answer EXCEPT ![l] = "unavailable"]
    /\ lpc' = [lpc EXCEPT ![l] = "leave"]
    /\ UNCHANGED <<storeVars, hubVars, writerVars, known, gone, changed>>

(* A faulty Unregister: only a listener that reports a change is removed.  *)
UnregisterOnChange(l) ==
    /\ lpc[l] = "leave"
    /\ watchers' = [k \in Keys |-> IF k \in changed[l] THEN watchers[k] \ {l} ELSE watchers[k]]
    /\ lpc' = [lpc EXCEPT ![l] = "admit"]
    /\ UNCHANGED <<storeVars, md5s, ch, writerVars, known, gone, changed, answer>>

(* The deferred removal from the hub.                                      *)
Unregister(l) ==
    /\ lpc[l] = "leave"
    /\ watchers' = [k \in Keys |-> IF k \in DOMAIN known[l] THEN watchers[k] \ {l} ELSE watchers[k]]
    /\ lpc' = [lpc EXCEPT ![l] = "admit"]
    /\ UNCHANGED <<storeVars, md5s, ch, writerVars, known, gone, changed, answer>>

(* The buffered response leaves after one more, empty, owned transaction.  *)
Admit(l) ==
    /\ lpc[l] = "admit"
    /\ Owned /\ ~gone[l]
    /\ answer' = [answer EXCEPT ![l] = IF @ = "none" THEN "ok" ELSE @]
    /\ lpc' = [lpc EXCEPT ![l] = "done"]
    /\ UNCHANGED <<storeVars, hubVars, writerVars, known, gone, changed>>

AdmitFailed(l) ==
    /\ lpc[l] = "admit"
    /\ TransactionFails(l)
    /\ answer' = [answer EXCEPT ![l] = "unavailable"]
    /\ lpc' = [lpc EXCEPT ![l] = "done"]
    /\ UNCHANGED <<db, session, busy, hubVars, writerVars, known, gone, changed>>

ClientGoes(l) ==
    /\ l \in Impatient
    /\ lpc[l] \notin {"new", "done"}
    /\ ~gone[l]
    /\ gone' = [gone EXCEPT ![l] = TRUE]
    /\ UNCHANGED <<storeVars, hubVars, writerVars, lpc, known, changed, answer>>

-----------------------------------------------------------------------------
Hook(w) == TakeWatchers(w) \/ FinishWrite(w) \/ \E l \in Listeners : Notify(w, l)

Transact(l) == Check(l) \/ CheckFailed(l) \/ Admit(l) \/ AdmitFailed(l)

(* the steps the listener's goroutine takes by itself; the deadline is far *)
Wait(l) ==
    \/ Transact(l) \/ Register(l) \/ Unregister(l)
    \/ WakeNotified(l) \/ WakeTick(l) \/ WakeInactive(l)

Next ==
    \/ SessionEnd \/ Lose
    \/ \E k \in Keys, m \in Md5s : OtherOwnerWrites(k, m)
    \/ \E w \in Writers :
          \/ Hook(w)
          \/ \E k \in Keys, m \in Md5s : Write(w, k, m) \/ WriteUnacknowledged(w, k, m)
    \/ \E l \in Listeners :
          \/ Wait(l) \/ Deadline(l) \/ ClientGoes(l)
          \/ \E m \in Known : Listen(l, m)

Spec == Init /\ [][Next]_vars

(***************************************************************************)
(* Goroutines run, the ticker ticks and a transaction that waits for the   *)
(* token gets it (a channel serves its receivers in order).  Nothing makes *)
(* a client write or go, the session end or the deadline come.             *)
(***************************************************************************)
Fairness ==
    /\ \A w \in Writers : WF_vars(Hook(w))
    /\ \A l \in Listeners : WF_vars(Wait(l)) /\ SF_vars(Transact(l))

FairSpec == Spec /\ Fairness

-----------------------------------------------------------------------------
(* no hook is running, and this process is the owner                       *)
Quiet == session /\ busy = NoWriter

(* "Registration recheck closes the missed-notification window" (hub.go):  *)
(* a key on which a parked listener is still registered has not changed,   *)
(* so a change always either wakes the listener or precedes its recheck.   *)
WatchedKeyUnchanged ==
    \A l \in Listeners, k \in Keys :
       Quiet /\ lpc[l] = "parked" /\ l \in watchers[k] => db[k] = known[l][k]

(* A listener that has returned, however it returned, is on no key: the    *)
(* hub does not keep the channels of finished requests, and has an entry   *)
(* of listeners for every key (TypeOK).                                    *)
NoWatcherLeak ==
    TypeOK /\ \A k \in Keys : \A l \in watchers[k] : lpc[l] \in Registered /\ k \in DOMAIN known[l]

(* The hub's md5 map is what the database holds whenever no hook runs:     *)
(* hooks run in the order of the commits because they run before the token *)
(* is returned.                                                            *)
HubFollowsDatabase == Quiet => md5s = db

(* A change that stays is reported: a parked listener one of whose keys    *)
(* differs answers, with the key or with 503, or the key changes back;     *)
(* also when the listener was taken off the key by an earlier publish.     *)
ChangeReported ==
    \A l \in Listeners :
       (lpc[l] = "parked" /\ Differing(l) # {}) ~>
          (Differing(l) = {} \/ changed[l] # {} \/ answer[l] # "none")

(* A publish does not wait for its listeners: its hooks end, and the token *)
(* comes back, although a listener with a full channel may be waiting for  *)
(* that very token.                                                        *)
PublishNeverBlocks == \A w \in Writers : wpc[w] = "hook" ~> wpc[w] = "done"

(* A listener does not park for ever in a process that has lost the        *)
(* configuration.                                                          *)
LostListenersAnswered ==
    \A l \in Listeners : (lost /\ lpc[l] \notin {"new", "done"}) ~> lpc[l] = "done"
=============================================================================

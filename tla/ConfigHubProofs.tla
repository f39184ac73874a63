--------------------------- MODULE ConfigHubProofs ---------------------------
(***************************************************************************)
(* Proofs about ConfigHub, for any keys, contents, listeners and writers:  *)
(* the hub's md5 map follows the database, a watched key has not changed,  *)
(* and no finished listener stays registered.                              *)
(***************************************************************************)
EXTENDS ConfigHub, TLAPS

(* The writer that holds the token is the one in its hooks, and it knows   *)
(* what it has written.                                                    *)
Token ==
    \A w \in Writers :
       /\ wpc[w] \in {"hook", "notify"} <=> busy = w
       /\ wpc[w] \in {"hook", "notify"} => wrote[w] \in Writes

(* a committed write of k has not reached the hub yet                      *)
Unpublished(k) == \E w \in Writers : wpc[w] = "hook" /\ wrote[w].key = k

(* In the owner, the map differs from the database at most in the write    *)
(* whose hook is about to run.                                             *)
HubLag ==
    session =>
       /\ \A k \in Keys : ~Unpublished(k) => md5s[k] = db[k]
       /\ \A w \in Writers : wpc[w] = "hook" => db[wrote[w].key] = wrote[w].md5

(* In the owner, a key on which a parked listener is registered is the     *)
(* listener's, unless the hook that will take the listener off is to come. *)
WatchedFresh ==
    session =>
       \A l \in Listeners, k \in Keys :
          lpc[l] = "parked" /\ l \in watchers[k] /\ ~Unpublished(k) => db[k] = known[l][k]

(* The inductive invariant; TypeOK is a part of NoWatcherLeak.             *)
Inv == NoWatcherLeak /\ Token /\ HubLag /\ WatchedFresh

-----------------------------------------------------------------------------
(* What a listener names are keys.                                         *)
LEMMA KnownDomain ==
    ASSUME NEW m \in Known PROVE DOMAIN m \subseteq Keys
  BY DEF Known

LEMMA EmptyKnown == << >> \in Known
  <1>1. << >> \in [{} -> Md5s]
    OBVIOUS
  <1> QED
    BY <1>1 DEF Known

LEMMA InitInv == Init => Inv
  <1> SUFFICES ASSUME Init PROVE Inv
    OBVIOUS
  <1>1. TypeOK
    <2>1. known \in [Listeners -> Known]
      BY EmptyKnown DEF Init
    <2> QED
      BY <2>1 DEF Init, TypeOK, Checking, Registered
  <1>2. NoWatcherLeak
    BY <1>1 DEF Init, NoWatcherLeak
  <1>3. Token
    BY HubAssumption DEF Init, Token
  <1>4. HubLag
    BY DEF Init, HubLag
  <1>5. WatchedFresh
    BY DEF Init, WatchedFresh
  <1> QED
    BY <1>2, <1>3, <1>4, <1>5 DEF Inv

-----------------------------------------------------------------------------
(* The ownership: what the invariant says of the owner's database is not   *)
(* claimed once the session has ended.                                     *)
LEMMA SessionEndInv == Inv /\ SessionEnd => Inv'
  BY DEF Inv, NoWatcherLeak, TypeOK, Token, Unpublished, HubLag, WatchedFresh,
         SessionEnd, hubVars, writerVars, listenerVars

LEMMA LoseInv == Inv /\ Lose => Inv'
  BY DEF Inv, NoWatcherLeak, TypeOK, Token, Unpublished, HubLag, WatchedFresh,
         Lose, hubVars, writerVars, listenerVars

LEMMA OtherOwnerWritesInv ==
    ASSUME Inv, NEW k \in Keys, NEW m \in Md5s, OtherOwnerWrites(k, m) PROVE Inv'
  <1>1. NoWatcherLeak'
    BY DEF Inv, NoWatcherLeak, TypeOK, OtherOwnerWrites, hubVars, writerVars, listenerVars
  <1>2. Token'
    BY DEF Inv, Token, OtherOwnerWrites, writerVars
  <1>3. ~session'
    BY DEF OtherOwnerWrites
  <1> QED
    BY <1>1, <1>2, <1>3 DEF Inv, HubLag, WatchedFresh

-----------------------------------------------------------------------------
(* The writers.  While no hook runs the hub has everything that is         *)
(* committed; a write makes its own key the one that is not.               *)
LEMMA NothingUnpublished ==
    ASSUME Inv, busy = NoWriter PROVE \A w \in Writers : wpc[w] \notin {"hook", "notify"}
  BY HubAssumption DEF Inv, Token

LEMMA WriteInv ==
    ASSUME Inv, NEW w \in Writers, NEW k \in Keys, NEW m \in Md5s, Write(w, k, m)
    PROVE  Inv'
  <1>1. /\ \A v \in Writers : wpc[v] \notin {"hook", "notify"}
        /\ \A j \in Keys : ~Unpublished(j)
    BY NothingUnpublished DEF Write, Owned, Unpublished
  <1>2. [key |-> k, md5 |-> m] \in Writes
    BY DEF Writes
  <1>3. TypeOK'
    BY <1>2 DEF Inv, NoWatcherLeak, TypeOK, Write, hubVars, listenerVars
  <1>4. NoWatcherLeak'
    BY <1>3 DEF Inv, NoWatcherLeak, Write, hubVars, listenerVars
  <1>5. CASE m = Absent /\ db[k] = Absent
    <2>1. db' = db /\ \A v \in Writers : wpc'[v] \notin {"hook", "notify"}
      BY <1>1, <1>5 DEF Inv, NoWatcherLeak, TypeOK, Write
    <2>2. Token' /\ \A j \in Keys : ~Unpublished(j)'
      BY <1>1, <1>5, <2>1, HubAssumption DEF Write, Owned, Token, Unpublished
    <2>3. HubLag' /\ WatchedFresh'
      BY <1>1, <1>5, <2>1, <2>2 DEF Inv, HubLag, WatchedFresh, Write, hubVars, listenerVars
    <2> QED
      BY <1>4, <2>2, <2>3 DEF Inv
  <1>6. CASE ~(m = Absent /\ db[k] = Absent)
    <2>1. /\ wpc' = [wpc EXCEPT ![w] = "hook"]
          /\ wrote' = [wrote EXCEPT ![w] = [key |-> k, md5 |-> m]]
          /\ busy' = w
          /\ db' = [db EXCEPT ![k] = m]
      BY <1>6 DEF Write
    <2>2. /\ wpc'[w] = "hook" /\ wrote'[w] = [key |-> k, md5 |-> m]
          /\ \A v \in Writers \ {w} : wpc'[v] = wpc[v] /\ wpc'[v] \notin {"hook", "notify"}
          /\ db'[k] = m /\ \A j \in Keys \ {k} : db'[j] = db[j]
      BY <1>1, <2>1 DEF Inv, NoWatcherLeak, TypeOK
    <2>3. Token'
      BY <1>2, <2>1, <2>2 DEF Token
    <2>4. Unpublished(k)'
      BY <2>2 DEF Unpublished
    <2>5. HubLag'
      BY <1>1, <2>2, <2>4 DEF Inv, HubLag, Write, hubVars
    <2>6. WatchedFresh'
      BY <1>1, <2>2, <2>4 DEF Inv, WatchedFresh, Write, hubVars, listenerVars
    <2> QED
      BY <1>4, <2>3, <2>5, <2>6 DEF Inv
  <1> QED
    BY <1>5, <1>6

LEMMA WriteUnacknowledgedInv ==
    ASSUME Inv, NEW w \in Writers, NEW k \in Keys, NEW m \in Md5s,
           WriteUnacknowledged(w, k, m)
    PROVE  Inv'
  <1>1. NoWatcherLeak'
    BY DEF Inv, NoWatcherLeak, TypeOK, WriteUnacknowledged, hubVars, listenerVars
  <1>2. Token'
    <2>1. \A v \in Writers : wpc'[v] \notin {"hook", "notify"}
      BY NothingUnpublished DEF Inv, NoWatcherLeak, TypeOK, WriteUnacknowledged, Owned
    <2> QED
      BY <2>1, HubAssumption DEF Token, WriteUnacknowledged, Owned
  <1>3. ~session'
    BY DEF WriteUnacknowledged
  <1> QED
    BY <1>1, <1>2, <1>3 DEF Inv, HubLag, WatchedFresh

(* The hook brings its key up to date and takes the listeners off it.      *)
LEMMA TakeWatchersInv ==
    ASSUME Inv, NEW w \in Writers, TakeWatchers(w) PROVE Inv'
  <1> DEFINE k == wrote[w].key
  <1>1. /\ busy = w /\ wrote[w] \in Writes /\ k \in Keys /\ wrote[w].md5 \in Md5s
        /\ \A v \in Writers \ {w} : wpc[v] \notin {"hook", "notify"}
    BY DEF Inv, Token, TakeWatchers, Writes
  <1>2. /\ wpc'[w] = "notify"
        /\ \A v \in Writers : wpc'[v] # "hook"
        /\ \A v \in Writers \ {w} : wpc'[v] = wpc[v]
        /\ watchers'[k] = {} /\ \A j \in Keys \ {k} : watchers'[j] = watchers[j]
        /\ md5s'[k] = wrote[w].md5 /\ \A j \in Keys \ {k} : md5s'[j] = md5s[j]
    BY <1>1 DEF Inv, NoWatcherLeak, TypeOK, TakeWatchers
  <1>3. TypeOK'
    BY <1>1 DEF Inv, NoWatcherLeak, TypeOK, TakeWatchers, storeVars, listenerVars
  <1>4. NoWatcherLeak'
    BY <1>2, <1>3 DEF Inv, NoWatcherLeak, TakeWatchers, listenerVars
  <1>5. Token'
    BY <1>1, <1>2 DEF Inv, Token, TakeWatchers, storeVars
  <1>6. \A j \in Keys \ {k} : ~Unpublished(j)
    BY <1>1 DEF Unpublished
  <1>7. HubLag'
    BY <1>1, <1>2, <1>6 DEF Inv, HubLag, TakeWatchers, storeVars
  <1>8. WatchedFresh'
    BY <1>1, <1>2, <1>6 DEF Inv, WatchedFresh, TakeWatchers, storeVars, listenerVars
  <1> QED
    BY <1>4, <1>5, <1>7, <1>8 DEF Inv

LEMMA NotifyInv ==
    ASSUME Inv, NEW w \in Writers, NEW l \in Listeners, Notify(w, l) PROVE Inv'
  BY DEF Inv, NoWatcherLeak, TypeOK, Token, Unpublished, HubLag, WatchedFresh,
         Notify, storeVars, listenerVars

LEMMA FinishWriteInv ==
    ASSUME Inv, NEW w \in Writers, FinishWrite(w) PROVE Inv'
  <1>1. /\ \A v \in Writers : wpc'[v] = "hook" <=> wpc[v] = "hook"
        /\ \A v \in Writers : wpc'[v] \notin {"hook", "notify"}
    BY DEF Inv, NoWatcherLeak, TypeOK, Token, FinishWrite
  <1>2. \A k \in Keys : Unpublished(k)' <=> Unpublished(k)
    BY <1>1 DEF Unpublished, FinishWrite
  <1>3. NoWatcherLeak'
    BY DEF Inv, NoWatcherLeak, TypeOK, FinishWrite, hubVars, listenerVars
  <1>4. Token'
    BY <1>1, HubAssumption DEF Token, FinishWrite
  <1>5. HubLag' /\ WatchedFresh'
    BY <1>1, <1>2 DEF Inv, HubLag, WatchedFresh, FinishWrite, hubVars, listenerVars
  <1> QED
    BY <1>3, <1>4, <1>5 DEF Inv

-----------------------------------------------------------------------------
(* The listeners.  A step of one that neither parks it nor changes the hub *)
(* keeps the invariant, as long as it stays registered where it is.        *)
LEMMA ListenerMoves ==
    ASSUME Inv, NEW l \in Listeners,
           UNCHANGED <<db, session, busy, md5s, writerVars>>,
           TypeOK',
           \A k \in Keys : watchers'[k] \ {l} = watchers[k] \ {l},
           \A j \in Listeners \ {l} : lpc'[j] = lpc[j] /\ known'[j] = known[j],
           \A k \in Keys : l \in watchers'[k] =>
              /\ lpc'[l] \in Registered /\ k \in DOMAIN known'[l]
              /\ session /\ lpc'[l] = "parked" /\ ~Unpublished(k) => db[k] = known'[l][k]
    PROVE  Inv'
  <1>1. NoWatcherLeak'
    <2> SUFFICES ASSUME NEW k \in Keys, NEW j \in watchers'[k]
                 PROVE  lpc'[j] \in Registered /\ k \in DOMAIN known'[j]
      BY DEF NoWatcherLeak
    <2>1. CASE j = l
      BY <2>1
    <2>2. CASE j # l
      <3>1. j \in watchers[k] /\ j \in Listeners
        BY <2>2 DEF Inv, NoWatcherLeak, TypeOK
      <3> QED
        BY <2>2, <3>1 DEF Inv, NoWatcherLeak
    <2> QED
      BY <2>1, <2>2
  <1>2. Token' /\ HubLag' /\ \A k \in Keys : Unpublished(k)' <=> Unpublished(k)
    BY DEF Inv, Token, HubLag, Unpublished, writerVars
  <1>3. WatchedFresh'
    <2> SUFFICES ASSUME session, NEW j \in Listeners, NEW k \in Keys,
                        lpc'[j] = "parked", j \in watchers'[k], ~Unpublished(k)
                 PROVE  db[k] = known'[j][k]
      BY <1>2 DEF WatchedFresh
    <2>1. CASE j = l
      BY <2>1
    <2>2. CASE j # l
      BY <2>2 DEF Inv, WatchedFresh
    <2> QED
      BY <2>1, <2>2
  <1> QED
    BY <1>1, <1>2, <1>3 DEF Inv

LEMMA ListenInv ==
    ASSUME Inv, NEW l \in Listeners, NEW m \in Known, Listen(l, m) PROVE Inv'
  <1>1. TypeOK'
    BY DEF Inv, NoWatcherLeak, TypeOK, Checking, Listen, storeVars, hubVars, writerVars
  <1>2. \A k \in Keys : l \notin watchers'[k]
    BY DEF Inv, NoWatcherLeak, Registered, Listen, hubVars
  <1>3. \A j \in Listeners \ {l} : lpc'[j] = lpc[j] /\ known'[j] = known[j]
    BY DEF Inv, NoWatcherLeak, TypeOK, Listen
  <1> QED
    BY <1>1, <1>2, <1>3, ListenerMoves DEF Listen, storeVars, hubVars

(* A listener that parks has just found no difference.                     *)
LEMMA CheckInv ==
    ASSUME Inv, NEW l \in Listeners, Check(l) PROVE Inv'
  <1>1. Differing(l) \subseteq Keys
    BY KnownDomain DEF Inv, NoWatcherLeak, TypeOK, Differing
  <1>2. /\ lpc'[l] = AfterCheck(l)
        /\ \A j \in Listeners \ {l} : lpc'[j] = lpc[j]
        /\ known' = known /\ watchers' = watchers
    BY DEF Inv, NoWatcherLeak, TypeOK, Check, hubVars
  <1>3. AfterCheck(l) \in {"admit", "register", "leave", "parked"}
    BY DEF AfterCheck
  <1>4. TypeOK'
    BY <1>1, <1>3 DEF Inv, NoWatcherLeak, TypeOK, Check, Registered, storeVars, hubVars, writerVars
  <1>5. AfterCheck(l) = "parked" => Differing(l) = {}
    BY DEF AfterCheck
  <1>6. lpc[l] # "check" => AfterCheck(l) \in Registered
    BY DEF AfterCheck, Registered
  <1>7. ASSUME NEW k \in Keys, l \in watchers[k]
        PROVE  /\ lpc'[l] \in Registered /\ k \in DOMAIN known[l]
               /\ lpc'[l] = "parked" => db[k] = known[l][k]
    <2>1. lpc[l] \in Registered /\ k \in DOMAIN known[l]
      BY <1>7 DEF Inv, NoWatcherLeak
    <2>2. lpc[l] # "check"
      BY <2>1 DEF Registered
    <2> QED
      BY <1>2, <1>5, <1>6, <2>1, <2>2 DEF Differing
  <1> QED
    BY <1>2, <1>4, <1>7, ListenerMoves DEF Check, storeVars, hubVars

LEMMA TransactionFailsType ==
    ASSUME Inv, NEW l \in Listeners, TransactionFails(l) PROVE lost' \in BOOLEAN
  BY DEF Inv, NoWatcherLeak, TypeOK, TransactionFails

LEMMA CheckFailedInv ==
    ASSUME Inv, NEW l \in Listeners, CheckFailed(l) PROVE Inv'
  <1>1. /\ lpc'[l] = IF lpc[l] = "check" THEN "admit" ELSE "leave"
        /\ \A j \in Listeners \ {l} : lpc'[j] = lpc[j]
        /\ known' = known /\ watchers' = watchers
    BY DEF Inv, NoWatcherLeak, TypeOK, CheckFailed, hubVars
  <1>2. TypeOK'
    BY TransactionFailsType DEF Inv, NoWatcherLeak, TypeOK, CheckFailed, Registered, hubVars, writerVars
  <1>3. \A k \in Keys : l \in watchers[k] =>
           lpc'[l] \in Registered /\ k \in DOMAIN known[l] /\ lpc'[l] # "parked"
    BY <1>1 DEF Inv, NoWatcherLeak, Registered
  <1> QED
    BY <1>1, <1>2, <1>3, ListenerMoves DEF CheckFailed, hubVars

LEMMA RegisterInv ==
    ASSUME Inv, NEW l \in Listeners, Register(l) PROVE Inv'
  <1>1. /\ lpc'[l] = "recheck"
        /\ \A j \in Listeners \ {l} : lpc'[j] = lpc[j]
        /\ known' = known
        /\ \A k \in Keys : watchers'[k] \ {l} = watchers[k] \ {l}
        /\ \A k \in Keys : watchers'[k] \subseteq Listeners
    BY DEF Inv, NoWatcherLeak, TypeOK, Register
  <1>2. TypeOK'
    BY <1>1 DEF Inv, NoWatcherLeak, TypeOK, Register, Checking, storeVars, writerVars
  <1>3. \A k \in Keys : l \in watchers'[k] => k \in DOMAIN known[l]
    BY DEF Inv, NoWatcherLeak, Register
  <1>4. lpc'[l] \in Registered /\ lpc'[l] # "parked"
    BY <1>1 DEF Registered
  <1> QED
    BY <1>1, <1>2, <1>3, <1>4, ListenerMoves DEF Register, storeVars

(* A woken listener stays registered on the keys that did not wake it.     *)
LEMMA WakeInv ==
    ASSUME Inv, NEW l \in Listeners,
           WakeNotified(l) \/ WakeTick(l) \/ Deadline(l) \/ WakeInactive(l)
    PROVE  Inv'
  <1>1. /\ lpc'[l] \in {"wakeCheck", "lastCheck", "leave"}
        /\ \A j \in Listeners \ {l} : lpc'[j] = lpc[j]
        /\ known' = known /\ watchers' = watchers
    BY DEF Inv, NoWatcherLeak, TypeOK, WakeNotified, WakeTick, Deadline, WakeInactive, hubVars
  <1>2. TypeOK'
    <2>1. CASE WakeNotified(l)
      BY <2>1 DEF Inv, NoWatcherLeak, TypeOK, WakeNotified, Checking, storeVars, writerVars
    <2>2. CASE WakeTick(l) \/ Deadline(l)
      BY <2>2 DEF Inv, NoWatcherLeak, TypeOK, WakeTick, Deadline, Checking,
                  storeVars, hubVars, writerVars
    <2>3. CASE WakeInactive(l)
      BY <2>3 DEF Inv, NoWatcherLeak, TypeOK, WakeInactive, Registered,
                  storeVars, hubVars, writerVars
    <2> QED
      BY <2>1, <2>2, <2>3
  <1>3. lpc'[l] \in Registered /\ lpc'[l] # "parked"
    BY <1>1 DEF Registered
  <1>4. \A k \in Keys : l \in watchers[k] => k \in DOMAIN known[l]
    BY DEF Inv, NoWatcherLeak
  <1>5. UNCHANGED <<db, session, busy, md5s, writerVars>>
    BY DEF WakeNotified, WakeTick, Deadline, WakeInactive, storeVars, hubVars
  <1> QED
    BY <1>1, <1>2, <1>3, <1>4, <1>5, ListenerMoves

(* The deferred removal leaves the listener on no key: it was registered   *)
(* on keys it names only.                                                  *)
LEMMA UnregisterInv ==
    ASSUME Inv, NEW l \in Listeners, Unregister(l) PROVE Inv'
  <1>1. /\ \A j \in Listeners \ {l} : lpc'[j] = lpc[j]
        /\ known' = known
        /\ \A k \in Keys : watchers'[k] \ {l} = watchers[k] \ {l}
        /\ \A k \in Keys : watchers'[k] \subseteq Listeners
        /\ \A k \in Keys : l \notin watchers'[k]
    BY DEF Inv, NoWatcherLeak, TypeOK, Unregister
  <1>2. TypeOK'
    BY <1>1 DEF Inv, NoWatcherLeak, TypeOK, Unregister, storeVars, writerVars
  <1> QED
    BY <1>1, <1>2, ListenerMoves DEF Unregister, storeVars

LEMMA AdmitInv ==
    ASSUME Inv, NEW l \in Listeners, Admit(l) \/ AdmitFailed(l) PROVE Inv'
  <1>1. /\ \A j \in Listeners \ {l} : lpc'[j] = lpc[j]
        /\ known' = known /\ watchers' = watchers
        /\ UNCHANGED <<db, session, busy, md5s, writerVars>>
    BY DEF Inv, NoWatcherLeak, TypeOK, Admit, AdmitFailed, storeVars, hubVars
  <1>2. lost' \in BOOLEAN
    BY TransactionFailsType DEF Inv, NoWatcherLeak, TypeOK, Admit, AdmitFailed, storeVars
  <1>3. TypeOK'
    BY <1>2 DEF Inv, NoWatcherLeak, TypeOK, Admit, AdmitFailed, storeVars, hubVars, writerVars
  <1>4. \A k \in Keys : l \notin watchers[k]
    BY DEF Inv, NoWatcherLeak, Admit, AdmitFailed, Registered
  <1> QED
    BY <1>1, <1>3, <1>4, ListenerMoves

LEMMA ClientGoesInv ==
    ASSUME Inv, NEW l \in Listeners, ClientGoes(l) PROVE Inv'
  BY DEF Inv, NoWatcherLeak, TypeOK, Token, Unpublished, HubLag, WatchedFresh,
         ClientGoes, storeVars, hubVars, writerVars

-----------------------------------------------------------------------------
LEMMA NextInv == Inv /\ [Next]_vars => Inv'
  <1> SUFFICES ASSUME Inv, [Next]_vars PROVE Inv'
    OBVIOUS
  <1>1. CASE \E k \in Keys, m \in Md5s : OtherOwnerWrites(k, m)
    BY <1>1, OtherOwnerWritesInv
  <1>2. ASSUME NEW w \in Writers, Hook(w) PROVE Inv'
    BY <1>2, TakeWatchersInv, FinishWriteInv, NotifyInv DEF Hook
  <1>3. ASSUME NEW w \in Writers, NEW k \in Keys, NEW m \in Md5s,
               Write(w, k, m) \/ WriteUnacknowledged(w, k, m)
        PROVE  Inv'
    BY <1>3, WriteInv, WriteUnacknowledgedInv
  <1>4. ASSUME NEW l \in Listeners, Wait(l) PROVE Inv'
    BY <1>4, CheckInv, CheckFailedInv, AdmitInv, RegisterInv, UnregisterInv, WakeInv
       DEF Wait, Transact
  <1>5. ASSUME NEW l \in Listeners, Deadline(l) \/ ClientGoes(l) PROVE Inv'
    BY <1>5, WakeInv, ClientGoesInv
  <1>6. ASSUME NEW l \in Listeners, NEW m \in Known, Listen(l, m) PROVE Inv'
    BY <1>6, ListenInv
  <1>7. CASE UNCHANGED vars
    BY <1>7 DEF Inv, NoWatcherLeak, TypeOK, Token, Unpublished, HubLag, WatchedFresh,
                vars, storeVars, hubVars, writerVars, listenerVars
  <1> QED
    BY <1>1, <1>2, <1>3, <1>4, <1>5, <1>6, <1>7, SessionEndInv, LoseInv DEF Next

LEMMA Invariance == Spec => []Inv
  BY InitInv, NextInv, PTL DEF Spec

-----------------------------------------------------------------------------
(* Whatever way WaitChanged ends, the listener is on no key of the hub     *)
(* afterwards, and while it waits only on keys it named: the deferred      *)
(* removal undoes every registration.                                      *)
THEOREM WatchersReleased == Spec => []NoWatcherLeak
  <1>1. Inv => NoWatcherLeak
    BY DEF Inv
  <1> QED
    BY Invariance, <1>1, PTL

(* In the owner, whenever no hook is running, the map that Hub.Publish and *)
(* Hub.Invalidate maintain is the database: no commit is missing from it   *)
(* and none was applied over a later one.                                  *)
THEOREM HubIsCurrent == Spec => []HubFollowsDatabase
  <1>1. Inv => HubFollowsDatabase
    <2> SUFFICES ASSUME Inv, Quiet PROVE md5s = db
      BY DEF HubFollowsDatabase
    <2>1. \A k \in Keys : md5s[k] = db[k]
      BY NothingUnpublished DEF Quiet, Unpublished, Inv, HubLag
    <2> QED
      BY <2>1 DEF Inv, NoWatcherLeak, TypeOK
  <1> QED
    BY Invariance, <1>1, PTL

(* The recheck after the registration closes the missed-notification       *)
(* window: in the owner, whenever no hook is running, a parked listener    *)
(* knows the present md5 of every key it is still registered on.           *)
THEOREM NoMissedNotification == Spec => []WatchedKeyUnchanged
  <1>1. Inv => WatchedKeyUnchanged
    BY NothingUnpublished DEF Quiet, Unpublished, Inv, WatchedFresh, WatchedKeyUnchanged
  <1> QED
    BY Invariance, <1>1, PTL
=============================================================================

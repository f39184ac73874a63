---------------------------- MODULE RegistryClient ----------------------------
(***************************************************************************)
(* The Go client of the registry (sdk/registry/client.go) in a process     *)
(* that boots by Announce (sdk/registry/service.go), like the registrar    *)
(* (cmd/goacos-registrar/main.go) or with Start alone.                     *)
(*                                                                         *)
(* Goroutines that call the registry: the application (App), one that runs *)
(* Stop (Stopper), and a loop for every effective Start.  They share the   *)
(* token cache and its mutex.  A call that the client has given up may     *)
(* still reach the server later.  Time is abstract: a beat that is late    *)
(* enough is a removal by the sweeper before it.                           *)
(***************************************************************************)
EXTENDS Naturals, FiniteSets

CONSTANTS
    App, Stopper,       \* two goroutines of the process
    MaxStarts,          \* bound: how many loops Start may create
    Nobody,             \* no goroutine
    Namespace,          \* Config.NamespaceID and GroupName
    Public,             \* what the server assumes when a request names none
    Auth,               \* "none", "password" or "token": the credentials
    BeatFailureThreshold,
    MaxRevocations      \* bound: how often the registry drops its tokens

Loops == 1..MaxStarts
Threads == Loops \cup {App, Stopper}
Namespaces == {Namespace, Public}

ASSUME ClientAssumption ==
    /\ App # Stopper /\ {App, Stopper} \cap Loops = {} /\ Nobody \notin Threads
    /\ Auth \in {"none", "password", "token"}
    /\ MaxStarts \in Nat /\ BeatFailureThreshold \in Nat \ {0} /\ MaxRevocations \in Nat

VARIABLES
    boot,       \* "new", "registering" in Announce, "done"
    cancel,     \* Client.cancel and Client.done: the loop they belong to
    stopped,    \* Client.stopped
    loop,       \* [Loops -> ...] where run() is
    ctxDone,    \* [Loops -> BOOLEAN] the loop's context is cancelled
    failures,   \* [Loops -> 0..BeatFailureThreshold - 1]
    stop,       \* where Stop is
    waiting,    \* the loop that Stop waits for
    stopCtx,    \* the context that Stop was given is done
    call,       \* [Threads -> ...] the registry call in progress
    mu,         \* who holds Client.mu across a login
    token,      \* Client.token: the generation it is of, 0 for none or expired
    generation, \* the tokens the registry honours
    row,        \* [Namespaces -> ...] the instance in the registry
    late        \* requests given up by the client and not yet handled

clientVars == <<boot, cancel, stopped, loop, ctxDone, failures, stop, waiting, stopCtx>>
authVars == <<mu, token>>
serverVars == <<generation, row, late>>
vars == <<clientVars, call, authVars, serverVars>>

Kinds == {"register", "beat", "deregister"}
Requests == [kind : Kinds, ns : Namespaces, tok : Nat]
NoCall == [phase |-> "idle"]
Calls == [phase : {"token", "login", "sent", "rejected", "ok", "error"},
          req : Requests, retry : BOOLEAN]

TypeOK ==
    /\ boot \in {"new", "registering", "done"}
    /\ cancel \in Loops \cup {Nobody}
    /\ stopped \in BOOLEAN
    /\ loop \in [Loops -> {"new", "check", "register", "backoff", "interval", "sleep",
                           "beat", "exited"}]
    /\ ctxDone \in [Loops -> BOOLEAN]
    /\ failures \in [Loops -> 0..BeatFailureThreshold - 1]
    /\ stop \in {"idle", "waitLoop", "decide", "deregister"}
    /\ waiting \in Loops \cup {Nobody}
    /\ stopCtx \in BOOLEAN
    /\ call \in [Threads -> Calls \cup {NoCall}]
    /\ mu \in Threads \cup {Nobody}
    /\ {token, generation} \subseteq 0..MaxRevocations + 1
    /\ row \in [Namespaces -> BOOLEAN]
    /\ late \subseteq Requests

Init ==
    /\ boot = "new" /\ cancel = Nobody /\ stopped = FALSE
    /\ loop = [l \in Loops |-> "new"]
    /\ ctxDone = [l \in Loops |-> FALSE]
    /\ failures = [l \in Loops |-> 0]
    /\ stop = "idle" /\ waiting = Nobody /\ stopCtx = FALSE
    /\ call = [t \in Threads |-> NoCall]
    /\ mu = Nobody
    /\ token = IF Auth = "token" THEN 1 ELSE 0
    /\ generation = 1
    /\ row = [n \in Namespaces |-> FALSE]
    /\ late = {}

-----------------------------------------------------------------------------
(***************************************************************************)
(* One call: doAt, sendAt, ensureToken, login, invalidateToken.            *)
(***************************************************************************)

(* Register and Deregister name the namespace and the group, Beat only the *)
(* service and the address: the server takes the defaults.                 *)
Target(kind) == IF kind = "beat" THEN Public ELSE Namespace

BeginCall(t, kind) ==
    call' = [call EXCEPT ![t] = [phase |-> "token", retry |-> FALSE,
                                 req |-> [kind |-> kind, ns |-> Target(kind), tok |-> 0]]]

Phase(t, p) == call' = [call EXCEPT ![t].phase = p]

(* A given token or none at all is used as it is; a cached one while it is *)
(* trusted; else the goroutine logs in and keeps the mutex meanwhile.      *)
EnsureToken(t) ==
    /\ call[t].phase = "token"
    /\ Auth = "password" => mu = Nobody
    /\ IF Auth # "password" \/ token # 0
          THEN /\ call' = [call EXCEPT ![t].phase = "sent", ![t].req.tok = token]
               /\ UNCHANGED mu
          ELSE Phase(t, "login") /\ mu' = t
    /\ UNCHANGED <<clientVars, token, serverVars>>

Login(t) ==
    /\ call[t].phase = "login"
    /\ token' = generation /\ mu' = Nobody
    /\ call' = [call EXCEPT ![t].phase = "sent", ![t].req.tok = generation]
    /\ UNCHANGED <<clientVars, serverVars>>

(* A faulty LoginFailed, for the sensitivity checks: the mutex stays taken. *)
LoginFailedLocked(t) ==
    /\ call[t].phase = "login"
    /\ Phase(t, "error")
    /\ UNCHANGED <<clientVars, authVars, serverVars>>

LoginFailed(t) ==
    /\ call[t].phase = "login"
    /\ mu' = Nobody
    /\ Phase(t, "error")
    /\ UNCHANGED <<clientVars, token, serverVars>>

(* A faulty Retry, for the sensitivity checks: the token stays cached.     *)
RetryCachedToken(t) ==
    /\ call[t].phase = "rejected"
    /\ call' = [call EXCEPT ![t].phase = "token", ![t].retry = TRUE]
    /\ UNCHANGED <<clientVars, authVars, serverVars>>

(* 401 or 403: the cached token is dropped and the request sent once more. *)
Retry(t) ==
    /\ call[t].phase = "rejected"
    /\ IF Auth = "token" THEN UNCHANGED authVars
       ELSE mu = Nobody /\ token' = 0 /\ UNCHANGED mu
    /\ call' = [call EXCEPT ![t].phase = "token", ![t].retry = TRUE]
    /\ UNCHANGED <<clientVars, serverVars>>

(* The context ends, or the registry does not answer in time.  A request   *)
(* on its way is lost, or handled later; the model keeps one such request. *)
GiveUp(t) ==
    /\ call[t].phase = "sent"
    /\ Phase(t, "error")
    /\ \/ UNCHANGED late
       \/ late = {} /\ late' = {[call[t].req EXCEPT !.tok = 0]}
    /\ UNCHANGED <<clientVars, authVars, generation, row>>

-----------------------------------------------------------------------------
(***************************************************************************)
(* The registry, as the client can tell: module Naming has the detail.     *)
(***************************************************************************)

Accepted(r) == Auth = "none" \/ r.tok = generation

(* A beat for an instance that is not there registers it.                  *)
Apply(r) ==
    CASE r.kind \in {"register", "beat"} -> [row EXCEPT ![r.ns] = TRUE]
      [] r.kind = "deregister" -> [row EXCEPT ![r.ns] = FALSE]

Handle(t) ==
    /\ call[t].phase = "sent"
    /\ IF Accepted(call[t].req)
          THEN row' = Apply(call[t].req) /\ Phase(t, "ok")
          ELSE Phase(t, IF call[t].retry THEN "error" ELSE "rejected") /\ UNCHANGED row
    /\ UNCHANGED <<clientVars, authVars, generation, late>>

(* A late request is handled, or not: its token may be refused, and the    *)
(* server may notice that the client has gone.                             *)
HandleLate ==
    \E r \in late :
       /\ late' = late \ {r}
       /\ row' \in {row, Apply(r)}
       /\ UNCHANGED <<clientVars, call, authVars, generation>>

(* SweepEphemeral removes an instance that has not been beaten in time.    *)
Sweep(n) ==
    /\ row[n]
    /\ row' = [row EXCEPT ![n] = FALSE]
    /\ UNCHANGED <<clientVars, call, authVars, generation, late>>

(* the registry is restarted with another key, or the token revoked        *)
Revoke ==
    /\ Auth # "none" /\ generation <= MaxRevocations
    /\ generation' = generation + 1
    /\ UNCHANGED <<clientVars, call, authVars, row, late>>

(* The time that refreshLifetime trusts a token for is over.               *)
TokenExpires ==
    /\ Auth = "password" /\ mu = Nobody /\ token # 0
    /\ token' = 0
    /\ UNCHANGED <<clientVars, call, mu, serverVars>>

-----------------------------------------------------------------------------
(***************************************************************************)
(* Boot, Start and the calls of the application.                           *)
(***************************************************************************)

StartUnlocked(l) ==
    /\ l = Cardinality({k \in Loops : loop[k] # "new"}) + 1
    /\ cancel' = l /\ stopped' = FALSE
    /\ loop' = [loop EXCEPT ![l] = "check"]

(* A faulty Start, for the sensitivity checks: it starts a second loop.    *)
StartTwice(l) ==
    /\ boot # "registering"
    /\ StartUnlocked(l) /\ boot' = "done"
    /\ UNCHANGED <<ctxDone, failures, stop, waiting, stopCtx, call, authVars, serverVars>>

(* A Start while cancel is set does nothing.                               *)
Start(l) ==
    /\ boot # "registering" /\ cancel = Nobody
    /\ StartUnlocked(l) /\ boot' = "done"
    /\ UNCHANGED <<ctxDone, failures, stop, waiting, stopCtx, call, authVars, serverVars>>

(* Announce and the registrar register once, synchronously, before Start.  *)
Announce ==
    /\ boot = "new"
    /\ boot' = "registering"
    /\ BeginCall(App, "register")
    /\ UNCHANGED <<cancel, stopped, loop, ctxDone, failures, stop, waiting, stopCtx,
                   authVars, serverVars>>

AnnounceOk(l) ==
    /\ boot = "registering" /\ call[App].phase = "ok"
    /\ cancel = Nobody
    /\ StartUnlocked(l)
    /\ boot' = "done"
    /\ call' = [call EXCEPT ![App] = NoCall]
    /\ UNCHANGED <<ctxDone, failures, stop, waiting, stopCtx, authVars, serverVars>>

(* The loop is not started; the service serves unregistered.               *)
AnnounceFailed ==
    /\ boot = "registering" /\ call[App].phase = "error"
    /\ boot' = "done"
    /\ call' = [call EXCEPT ![App] = NoCall]
    /\ UNCHANGED <<cancel, stopped, loop, ctxDone, failures, stop, waiting, stopCtx,
                   authVars, serverVars>>

(* the context given to Start is cancelled (the registrar's signal)        *)
ParentCancelled(l) ==
    /\ loop[l] \notin {"new", "exited"} /\ ~ctxDone[l]
    /\ ctxDone' = [ctxDone EXCEPT ![l] = TRUE]
    /\ UNCHANGED <<boot, cancel, stopped, loop, failures, stop, waiting, stopCtx, call,
                   authVars, serverVars>>

-----------------------------------------------------------------------------
(***************************************************************************)
(* The loop: run.                                                          *)
(***************************************************************************)

Goto(l, p) == loop' = [loop EXCEPT ![l] = p]

LoopRest == <<boot, cancel, stopped, ctxDone, stop, waiting, stopCtx, authVars, serverVars>>

(* top of the loop, not registered                                         *)
LoopRegister(l) ==
    /\ loop[l] = "check" /\ ~ctxDone[l]
    /\ Goto(l, "register") /\ BeginCall(l, "register")
    /\ UNCHANGED <<failures, LoopRest>>

(* ctx.Err() at the top of the loop, after a failed call, and in sleepCtx  *)
LoopExit(l) ==
    /\ ctxDone[l]
    /\ \/ loop[l] \in {"check", "backoff", "sleep"}
       \/ loop[l] \in {"register", "beat"} /\ call[l].phase = "error"
    /\ Goto(l, "exited")
    /\ failures' = [failures EXCEPT ![l] = 0]
    /\ call' = [call EXCEPT ![l] = NoCall]
    /\ UNCHANGED LoopRest

LoopRegistered(l) ==
    /\ loop[l] = "register" /\ call[l].phase = "ok"
    /\ Goto(l, "interval")
    /\ failures' = [failures EXCEPT ![l] = 0]
    /\ call' = [call EXCEPT ![l] = NoCall]
    /\ UNCHANGED LoopRest

LoopBackoff(l) ==
    /\ loop[l] = "register" /\ call[l].phase = "error" /\ ~ctxDone[l]
    /\ Goto(l, "backoff")
    /\ call' = [call EXCEPT ![l] = NoCall]
    /\ UNCHANGED <<failures, LoopRest>>

LoopRetry(l) ==
    /\ loop[l] = "backoff" /\ ~ctxDone[l]
    /\ Goto(l, "check")
    /\ UNCHANGED <<call, failures, LoopRest>>

(* Adopting and reading the beat interval needs the mutex.                 *)
LoopSleep(l) ==
    /\ loop[l] = "interval" /\ mu = Nobody
    /\ Goto(l, "sleep")
    /\ UNCHANGED <<call, failures, LoopRest>>

LoopBeat(l) ==
    /\ loop[l] = "sleep" /\ ~ctxDone[l]
    /\ Goto(l, "beat") /\ BeginCall(l, "beat")
    /\ UNCHANGED <<failures, LoopRest>>

(* the top of the loop once more, and past the registration                *)
LoopBeaten(l) ==
    /\ loop[l] = "beat" /\ call[l].phase = "ok"
    /\ Goto(l, IF ctxDone[l] THEN "exited" ELSE "interval")
    /\ failures' = [failures EXCEPT ![l] = 0]
    /\ call' = [call EXCEPT ![l] = NoCall]
    /\ UNCHANGED LoopRest

(* The third failure in a row makes the client register again.             *)
LoopBeatFailed(l) ==
    /\ loop[l] = "beat" /\ call[l].phase = "error" /\ ~ctxDone[l]
    /\ IF failures[l] + 1 >= BeatFailureThreshold
          THEN failures' = [failures EXCEPT ![l] = 0] /\ Goto(l, "check")
          ELSE failures' = [failures EXCEPT ![l] = @ + 1] /\ Goto(l, "interval")
    /\ call' = [call EXCEPT ![l] = NoCall]
    /\ UNCHANGED LoopRest

-----------------------------------------------------------------------------
(***************************************************************************)
(* Stop.                                                                   *)
(***************************************************************************)

StopRest == <<boot, failures, authVars, serverVars>>

(* A faulty StopBegin, for the sensitivity checks: it does not cancel.     *)
StopBeginLeavesLoop ==
    /\ boot = "done" /\ stop = "idle" /\ ~stopped
    /\ stopped' = TRUE /\ cancel' = Nobody /\ waiting' = cancel /\ stopCtx' = FALSE
    /\ stop' = IF cancel = Nobody THEN "decide" ELSE "waitLoop"
    /\ UNCHANGED <<ctxDone, loop, call, StopRest>>

(* stopped is set, cancel and done are taken, the loop is cancelled.       *)
StopBegin ==
    /\ boot = "done" /\ stop = "idle" /\ ~stopped
    /\ stopped' = TRUE /\ cancel' = Nobody /\ waiting' = cancel /\ stopCtx' = FALSE
    /\ ctxDone' = IF cancel = Nobody THEN ctxDone ELSE [ctxDone EXCEPT ![cancel] = TRUE]
    /\ stop' = IF cancel = Nobody THEN "decide" ELSE "waitLoop"
    /\ UNCHANGED <<loop, call, StopRest>>

StopTimesOut ==
    /\ stop # "idle" /\ ~stopCtx
    /\ stopCtx' = TRUE
    /\ UNCHANGED <<cancel, stopped, loop, ctxDone, stop, waiting, call, StopRest>>

(* A faulty StopWait, for the sensitivity checks: it does not wait.        *)
StopWaitNot ==
    /\ stop = "waitLoop"
    /\ stop' = "decide"
    /\ UNCHANGED <<cancel, stopped, loop, ctxDone, waiting, stopCtx, call, StopRest>>

(* select on done and on the context                                       *)
StopWait ==
    /\ stop = "waitLoop"
    /\ loop[waiting] = "exited" \/ stopCtx
    /\ stop' = "decide"
    /\ UNCHANGED <<cancel, stopped, loop, ctxDone, waiting, stopCtx, call, StopRest>>

StopDeregister ==
    /\ stop = "decide" /\ ~stopCtx
    /\ stop' = "deregister"
    /\ BeginCall(Stopper, "deregister")
    /\ UNCHANGED <<cancel, stopped, loop, ctxDone, waiting, stopCtx, StopRest>>

(* Stop returns: the context was done, or the call has ended.              *)
StopReturn ==
    /\ \/ stop = "decide" /\ stopCtx
       \/ stop = "deregister" /\ call[Stopper].phase \in {"ok", "error"}
    /\ stop' = "idle" /\ waiting' = Nobody /\ stopCtx' = FALSE
    /\ call' = [call EXCEPT ![Stopper] = NoCall]
    /\ UNCHANGED <<cancel, stopped, loop, ctxDone, StopRest>>

-----------------------------------------------------------------------------
Exchange(t) ==
    \/ Login(t) \/ LoginFailed(t) \/ GiveUp(t) \/ Handle(t)

NeedsMutex(t) == EnsureToken(t) \/ Retry(t)

Run(l) ==
    \/ LoopRegister(l) \/ LoopExit(l) \/ LoopRegistered(l) \/ LoopBackoff(l)
    \/ LoopRetry(l) \/ LoopBeat(l) \/ LoopBeaten(l) \/ LoopBeatFailed(l)

Booting == AnnounceFailed \/ \E l \in Loops : AnnounceOk(l)

Stopping == StopWait \/ StopDeregister \/ StopReturn

Environment ==
    \/ HandleLate \/ (\E n \in Namespaces : Sweep(n))
    \/ Revoke \/ TokenExpires

Next ==
    \/ \E t \in Threads : Exchange(t) \/ NeedsMutex(t)
    \/ \E l \in Loops : Run(l) \/ LoopSleep(l) \/ Start(l) \/ ParentCancelled(l)
    \/ Announce \/ Booting
    \/ StopBegin \/ StopTimesOut \/ Stopping
    \/ Environment

Spec == Init /\ [][Next]_vars

(***************************************************************************)
(* Goroutines that can step do, sync.Mutex does not starve a waiter, the   *)
(* registry answers at last who asks again and again, the sweeper runs.    *)
(* Nothing makes the application start or stop, or a token expire.         *)
(***************************************************************************)
Fairness ==
    /\ \A t \in Threads : WF_vars(Exchange(t)) /\ SF_vars(NeedsMutex(t))
    /\ \A l \in Loops : WF_vars(Run(l)) /\ SF_vars(LoopSleep(l))
                         /\ SF_vars(Login(l)) /\ SF_vars(Handle(l))
    /\ WF_vars(Booting) /\ WF_vars(Stopping) /\ WF_vars(HandleLate)
    /\ \A n \in Namespaces : WF_vars(Sweep(n))

FairSpec == Spec /\ Fairness

-----------------------------------------------------------------------------
Live(l) == loop[l] \notin {"new", "exited"} /\ ~ctxDone[l]

(* No orphan: a loop whose context is not cancelled is the one that Stop   *)
(* would cancel, however Start and Stop overlap.  A loop nobody can cancel *)
(* would keep a stopped service registered.  (With TypeOK: no loop counts  *)
(* failures past the threshold.)                                           *)
StopCanReachEveryLoop ==
    TypeOK /\ \A l \in Loops : Live(l) => cancel = l /\ ~stopped

(* "Stop stops the heartbeat thread first and only then deregisters"       *)
(* (service.go): when the deregistration is on its way to the registry no  *)
(* beat of that loop can still be sent.                                    *)
LoopEndsBeforeDeregister ==
    stop = "deregister" /\ waiting # Nobody => loop[waiting] = "exited"

(* A retry after a rejection never presents the rejected token: it carries *)
(* one that was issued after it, whatever the other goroutines did to the  *)
(* cache in between.  Else one revocation would cost the registration.     *)
RetryHasNewToken ==
    [][\A t \in Threads :
          call[t].phase \in {"token", "login"} /\ call[t].retry /\ call'[t].phase = "sent"
             /\ Auth = "password"
          => call'[t].req.tok > call[t].req.tok]_vars

(* A client that runs is in the registry again and again, through failed   *)
(* calls, revoked and expired tokens and evictions ("Re-register rather    *)
(* than assume our own state is still authoritative").                     *)
RunningIsRegistered == <>[](\E l \in Loops : Live(l)) => []<>row[Namespace]

(* A service that has stopped disappears for good: no retry, late request  *)
(* or overlapping loop brings it back for ever.                            *)
StoppedIsGone ==
    <>[](stopped /\ stop = "idle" /\ boot # "registering") =>
       <>[](\A n \in Namespaces : ~row[n])

(* Stop returns, also when the loop hangs in a call or waits for the mutex *)
(* that another goroutine holds across a login.                            *)
StopReturns == stop # "idle" ~> stop = "idle"
=============================================================================

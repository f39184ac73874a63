------------------------ MODULE RegistryClientProofs ------------------------
(***************************************************************************)
(* Proofs about RegistryClient, for any number of starts and revocations,  *)
(* any beat failure threshold and each kind of credentials: no loop is out *)
(* of Stop's reach, the deregistration comes after the loop's end, and a   *)
(* retry has a newer token.                                                *)
(***************************************************************************)
EXTENDS RegistryClient, FiniteSetTheorems, TLAPS

(* Loops are started one after the other.                                  *)
Started == { k \in Loops : loop[k] # "new" }

StartedInOrder == \A k \in Started : \A j \in Loops : j < k => j \in Started

(* the loops that Stop can cancel                                          *)
Reachable == \A l \in Loops : Live(l) => cancel = l /\ ~stopped

(* Stop goes past its wait only when the loop has exited, or with its      *)
(* context done; and then it does not deregister.                          *)
StopOrder ==
    /\ stop = "waitLoop" => waiting \in Loops
    /\ stop = "decide" /\ waiting # Nobody /\ ~stopCtx => loop[waiting] = "exited"
    /\ LoopEndsBeforeDeregister

(* No token is newer than what the registry issues; a rejected one, and    *)
(* one that a retry is to replace, is older; and what is cached when a     *)
(* retry looks for a token is newer than the rejected one.                 *)
Fresh(t) ==
    call[t].phase # "idle" =>
       /\ call[t].req.tok <= generation
       /\ call[t].phase = "rejected" => call[t].req.tok < generation
       /\ Auth = "password" /\ call[t].retry /\ call[t].phase \in {"token", "login"} =>
             call[t].req.tok < generation /\ (token = 0 \/ token > call[t].req.tok)

Tokens == token <= generation /\ \A t \in Threads : Fresh(t)

(* The inductive invariant.                                                *)
Control == Reachable /\ StartedInOrder /\ StopOrder

Inv == TypeOK /\ Control /\ Tokens

-----------------------------------------------------------------------------
LEMMA NoCallIdle == NoCall \notin Calls /\ NoCall.phase = "idle"
  BY DEF NoCall, Calls

LEMMA InCall ==
    ASSUME TypeOK, NEW t \in Threads, call[t].phase # "idle"
    PROVE  /\ call[t] \in Calls /\ call[t].req \in Requests
           /\ call[t].req.tok \in Nat /\ call[t].retry \in BOOLEAN
  <1>1. call[t] \in Calls
    BY DEF TypeOK, NoCall
  <1> QED
    BY <1>1 DEF Calls, Requests

LEMMA ThreadsType == App \in Threads /\ Stopper \in Threads /\ Loops \subseteq Threads
  BY DEF Threads

(* The ways in which the calls change.                                     *)
LEMMA PhaseStep ==
    ASSUME TypeOK, NEW t \in Threads, call[t].phase # "idle",
           NEW p \in {"token", "login", "sent", "rejected", "ok", "error"}, Phase(t, p)
    PROVE  /\ call' \in [Threads -> Calls \cup {NoCall}]
           /\ call'[t].phase = p /\ call'[t].req = call[t].req /\ call'[t].retry = call[t].retry
           /\ \A s \in Threads \ {t} : call'[s] = call[s]
  <1>1. call[t] \in Calls
    BY InCall
  <1>2. [call[t] EXCEPT !.phase = p] \in Calls
    BY <1>1 DEF Calls
  <1> QED
    BY <1>1, <1>2 DEF TypeOK, Phase, Calls

LEMMA SentStep ==
    ASSUME TypeOK, NEW t \in Threads, call[t].phase # "idle", NEW n \in Nat,
           call' = [call EXCEPT ![t].phase = "sent", ![t].req.tok = n]
    PROVE  /\ call' \in [Threads -> Calls \cup {NoCall}]
           /\ call'[t].phase = "sent" /\ call'[t].req.tok = n
           /\ \A s \in Threads \ {t} : call'[s] = call[s]
  <1>1. call[t] \in Calls /\ call[t].req \in Requests
    BY InCall
  <1>2. [call[t] EXCEPT !.phase = "sent", !.req.tok = n] \in Calls
    BY <1>1 DEF Calls, Requests
  <1> QED
    BY <1>1, <1>2 DEF TypeOK, Calls, Requests

LEMMA RetryStep ==
    ASSUME TypeOK, NEW t \in Threads, call[t].phase # "idle",
           call' = [call EXCEPT ![t].phase = "token", ![t].retry = TRUE]
    PROVE  /\ call' \in [Threads -> Calls \cup {NoCall}]
           /\ call'[t].phase = "token" /\ call'[t].req = call[t].req /\ call'[t].retry
           /\ \A s \in Threads \ {t} : call'[s] = call[s]
  <1>1. call[t] \in Calls
    BY InCall
  <1>2. [call[t] EXCEPT !.phase = "token", !.retry = TRUE] \in Calls
    BY <1>1 DEF Calls
  <1> QED
    BY <1>1, <1>2 DEF TypeOK, Calls

LEMMA BeginStep ==
    ASSUME TypeOK, NEW t \in Threads, NEW kind \in Kinds, BeginCall(t, kind)
    PROVE  /\ call' \in [Threads -> Calls \cup {NoCall}]
           /\ call'[t].phase = "token" /\ call'[t].req.tok = 0 /\ call'[t].retry = FALSE
           /\ \A s \in Threads \ {t} : call'[s] = call[s]
  <1>1. Target(kind) \in Namespaces
    BY DEF Target, Namespaces
  <1>2. [kind |-> kind, ns |-> Target(kind), tok |-> 0] \in Requests
    BY <1>1 DEF Requests
  <1>3. [phase |-> "token", retry |-> FALSE,
         req |-> [kind |-> kind, ns |-> Target(kind), tok |-> 0]] \in Calls
    BY <1>2 DEF Calls
  <1> QED
    BY <1>3 DEF TypeOK, BeginCall

LEMMA EndStep ==
    ASSUME TypeOK, NEW t \in Threads, call' = [call EXCEPT ![t] = NoCall]
    PROVE  /\ call' \in [Threads -> Calls \cup {NoCall}]
           /\ call'[t].phase = "idle"
           /\ \A s \in Threads \ {t} : call'[s] = call[s]
  BY NoCallIdle DEF TypeOK

-----------------------------------------------------------------------------
(* What a goroutine knows of its token does not depend on the steps of the *)
(* others: tokens are only issued anew or dropped.                         *)
LEMMA OthersFresh ==
    ASSUME Inv, NEW s \in Threads, call'[s] = call[s],
           generation' \in Nat, generation <= generation',
           token' \in {token, 0, generation}
    PROVE  Fresh(s)'
  <1> SUFFICES ASSUME call[s].phase # "idle" PROVE Fresh(s)'
    BY DEF Fresh
  <1>1. call[s].req.tok \in Nat /\ generation \in Nat /\ token \in Nat
    BY InCall DEF Inv, TypeOK
  <1> QED
    BY <1>1 DEF Inv, Tokens, Fresh

(* A step of t that leaves the tokens alone.                               *)
LEMMA TokensKept ==
    ASSUME Inv, NEW t \in Threads, UNCHANGED <<token, generation>>, Fresh(t)',
           \A s \in Threads \ {t} : call'[s] = call[s]
    PROVE  Tokens'
  <1>1. generation \in Nat /\ token <= generation
    BY DEF Inv, TypeOK, Tokens
  <1>2. \A s \in Threads : Fresh(s)'
    BY <1>1, OthersFresh
  <1> QED
    BY <1>1, <1>2 DEF Tokens

LEMMA ControlKept ==
    ASSUME Inv, UNCHANGED clientVars PROVE Control'
  BY DEF Inv, Control, Reachable, Live, StartedInOrder, Started, StopOrder,
         LoopEndsBeforeDeregister, clientVars

(* A loop moves on, or exits: it is neither new before nor afterwards.     *)
LEMMA ControlLoopMoves ==
    ASSUME Inv, NEW l \in Loops, NEW p, p # "new",
           loop[l] \notin {"new", "exited"}, Goto(l, p),
           UNCHANGED <<cancel, stopped, ctxDone, stop, waiting, stopCtx>>
    PROVE  Control'
  <1>1. /\ loop'[l] = p
        /\ \A k \in Loops \ {l} : loop'[k] = loop[k]
    BY DEF Inv, TypeOK, Goto
  <1>2. Reachable'
    BY <1>1 DEF Inv, Control, Reachable, Live
  <1>3. Started' = Started
    BY <1>1 DEF Started
  <1>4. StartedInOrder'
    BY <1>3 DEF Inv, Control, StartedInOrder
  <1>5. \A k \in Loops : loop[k] = "exited" => loop'[k] = "exited"
    BY <1>1
  <1>6. StopOrder'
    BY <1>5 DEF Inv, TypeOK, Control, StopOrder, LoopEndsBeforeDeregister
  <1> QED
    BY <1>2, <1>4, <1>6 DEF Control

(* Start takes the first loop that is new.                                 *)
LEMMA StartIsNext ==
    ASSUME Inv, NEW l \in Loops, l = Cardinality(Started) + 1
    PROVE  loop[l] = "new" /\ \A j \in Loops : j < l => j \in Started
  <1>1. \A n \in Nat : IsFiniteSet(1..n) /\ Cardinality(1..n) = n
    BY FS_Interval
  <1>2. MaxStarts \in Nat /\ Loops = 1..MaxStarts /\ Started \subseteq Loops
    BY ClientAssumption DEF Loops, Started
  <1>3. IsFiniteSet(Started)
    BY <1>1, <1>2, FS_Subset
  <1>4. Cardinality(Started) \in Nat /\ l \in Nat
    BY <1>2, <1>3, FS_CardinalityType
  <1>5. ASSUME l \in Started PROVE FALSE
    <2>1. 1..l \subseteq Started
      BY <1>2, <1>5 DEF Inv, Control, StartedInOrder
    <2>2. Cardinality(1..l) <= Cardinality(Started)
      BY <1>3, <2>1, FS_Subset
    <2> QED
      BY <1>1, <1>4, <2>2
  <1>6. ASSUME NEW j \in Loops, j < l, j \notin Started PROVE FALSE
    <2>1. PICK m \in Nat : m = j - 1
      BY <1>2
    <2>2. Cardinality(Started) <= m
      <3>1. Started \subseteq 1..m
        BY <1>2, <1>6, <2>1 DEF Inv, Control, StartedInOrder
      <3>2. Cardinality(Started) <= Cardinality(1..m)
        BY <1>1, <3>1, FS_Subset
      <3> QED
        BY <1>1, <3>2
    <2> QED
      BY <1>2, <1>4, <1>6, <2>1, <2>2
  <1> QED
    BY <1>5, <1>6 DEF Started

(* A new loop, which is the one that Stop knows of.                        *)
LEMMA ControlStart ==
    ASSUME Inv, NEW l \in Loops, cancel = Nobody, StartUnlocked(l),
           UNCHANGED <<ctxDone, stop, waiting, stopCtx>>
    PROVE  Control' /\ loop' \in [Loops -> {"new", "check", "register", "backoff", "interval",
                                            "sleep", "beat", "exited"}]
  <1>1. loop[l] = "new" /\ \A j \in Loops : j < l => j \in Started
    BY StartIsNext DEF StartUnlocked, Started
  <1>2. /\ loop'[l] = "check"
        /\ \A k \in Loops \ {l} : loop'[k] = loop[k]
        /\ cancel' = l /\ ~stopped'
    BY DEF Inv, TypeOK, StartUnlocked
  <1>3. \A k \in Loops : ~Live(k)
    BY ClientAssumption DEF Inv, Control, Reachable, Threads
  <1>4. Reachable'
    BY <1>2, <1>3 DEF Reachable, Live
  <1>5. Started' = Started \cup {l}
    BY <1>2 DEF Started
  <1>6. StartedInOrder'
    BY <1>1, <1>5 DEF Inv, Control, StartedInOrder
  <1>7. StopOrder'
    BY <1>1, <1>2 DEF Inv, TypeOK, Control, StopOrder, LoopEndsBeforeDeregister
  <1> QED
    BY <1>4, <1>6, <1>7 DEF Control, Inv, TypeOK, StartUnlocked

-----------------------------------------------------------------------------
LEMMA InitInv == Init => Inv
  <1> SUFFICES ASSUME Init PROVE Inv
    OBVIOUS
  <1>1. TypeOK
    <2>1. call \in [Threads -> Calls \cup {NoCall}]
      BY DEF Init
    <2>2. /\ {token, generation} \subseteq 0..MaxRevocations + 1
          /\ failures \in [Loops -> 0..BeatFailureThreshold - 1]
      BY ClientAssumption DEF Init
    <2> QED
      BY <2>1, <2>2 DEF Init, TypeOK
  <1>2. Control
    BY DEF Init, Control, Reachable, Live, StartedInOrder, Started, StopOrder,
           LoopEndsBeforeDeregister
  <1>3. Tokens
    BY NoCallIdle DEF Init, Tokens, Fresh
  <1> QED
    BY <1>1, <1>2, <1>3 DEF Inv

-----------------------------------------------------------------------------
(* One lemma per action: the calls.                                        *)
LEMMA EnsureTokenInv ==
    ASSUME Inv, NEW t \in Threads, EnsureToken(t) PROVE Inv'
  <1>1. call[t].phase # "idle" /\ call[t].phase = "token" /\ UNCHANGED <<token, generation>>
    BY DEF EnsureToken, serverVars
  <1>2. token \in Nat /\ generation \in Nat /\ token <= generation
    BY DEF Inv, TypeOK, Tokens
  <1>3. CASE Auth # "password" \/ token # 0
    <2>1. call' = [call EXCEPT ![t].phase = "sent", ![t].req.tok = token] /\ mu' = mu
      BY <1>3 DEF EnsureToken
    <2>2. /\ call' \in [Threads -> Calls \cup {NoCall}]
          /\ call'[t].phase = "sent" /\ call'[t].req.tok = token
          /\ \A s \in Threads \ {t} : call'[s] = call[s]
      BY <1>1, <1>2, <2>1, SentStep DEF Inv
    <2>3. TypeOK'
      BY <2>1, <2>2 DEF Inv, TypeOK, EnsureToken, clientVars, serverVars
    <2>4. Fresh(t)'
      BY <1>1, <1>2, <2>2 DEF Fresh
    <2> QED
      BY <1>1, <2>2, <2>3, <2>4, TokensKept, ControlKept DEF Inv, EnsureToken
  <1>4. CASE ~(Auth # "password" \/ token # 0)
    <2>1. Phase(t, "login") /\ mu' = t
      BY <1>4 DEF EnsureToken
    <2>2. /\ call' \in [Threads -> Calls \cup {NoCall}]
          /\ call'[t].phase = "login" /\ call'[t].req = call[t].req
          /\ call'[t].retry = call[t].retry
          /\ \A s \in Threads \ {t} : call'[s] = call[s]
      BY <1>1, <2>1, PhaseStep DEF Inv
    <2>3. TypeOK'
      BY <2>1, <2>2 DEF Inv, TypeOK, EnsureToken, clientVars, serverVars
    <2>4. Fresh(t)'
      BY <1>1, <2>2 DEF Inv, Tokens, Fresh
    <2> QED
      BY <1>1, <2>2, <2>3, <2>4, TokensKept, ControlKept DEF Inv, EnsureToken
  <1> QED
    BY <1>3, <1>4

LEMMA LoginInv ==
    ASSUME Inv, NEW t \in Threads, Login(t) PROVE Inv'
  <1>1. /\ token \in Nat /\ generation \in Nat /\ call[t].phase # "idle"
        /\ token' = generation /\ generation' = generation
    BY DEF Inv, TypeOK, Login, serverVars
  <1>2. /\ call' \in [Threads -> Calls \cup {NoCall}]
        /\ call'[t].phase = "sent" /\ call'[t].req.tok = generation
        /\ \A s \in Threads \ {t} : call'[s] = call[s]
    BY <1>1, SentStep DEF Inv, Login
  <1>3. TypeOK'
    BY <1>2 DEF Inv, TypeOK, Login, clientVars, serverVars
  <1>4. Fresh(t)'
    BY <1>1, <1>2 DEF Fresh
  <1>5. Tokens'
    BY <1>1, <1>2, <1>4, OthersFresh DEF Tokens
  <1> QED
    BY <1>3, <1>5, ControlKept DEF Inv, Login

(* A call ends, is rejected or is given up: only its phase changes.        *)
LEMMA AnswerInv ==
    ASSUME Inv, NEW t \in Threads, call[t].phase # "idle",
           NEW p \in {"ok", "error", "rejected"}, Phase(t, p),
           p = "rejected" => call[t].req.tok # generation,
           UNCHANGED <<clientVars, token, generation>>,
           mu' \in {mu, Nobody}, row' \in [Namespaces -> BOOLEAN], late' \subseteq Requests
    PROVE  Inv'
  <1>1. /\ call' \in [Threads -> Calls \cup {NoCall}]
        /\ call'[t].phase = p /\ call'[t].req = call[t].req
        /\ \A s \in Threads \ {t} : call'[s] = call[s]
    BY PhaseStep DEF Inv
  <1>2. TypeOK'
    BY <1>1 DEF Inv, TypeOK, clientVars
  <1>3. Fresh(t)'
    <2>1. call[t].req.tok \in Nat /\ generation \in Nat
      BY InCall DEF Inv, TypeOK
    <2>2. call[t].req.tok <= generation
      BY DEF Inv, Tokens, Fresh
    <2> QED
      BY <1>1, <2>1, <2>2 DEF Fresh
  <1> QED
    BY <1>1, <1>2, <1>3, TokensKept, ControlKept DEF Inv

LEMMA LoginFailedInv ==
    ASSUME Inv, NEW t \in Threads, LoginFailed(t) PROVE Inv'
  BY AnswerInv DEF LoginFailed, serverVars, Inv, TypeOK

LEMMA GiveUpInv ==
    ASSUME Inv, NEW t \in Threads, GiveUp(t) PROVE Inv'
  <1>1. call[t].req \in Requests
    BY InCall DEF Inv, GiveUp
  <1>2. [call[t].req EXCEPT !.tok = 0] \in Requests
    BY <1>1 DEF Requests
  <1>3. late' \subseteq Requests
    BY <1>2 DEF GiveUp, Inv, TypeOK
  <1> QED
    BY <1>3, AnswerInv DEF GiveUp, authVars, Inv, TypeOK

LEMMA ApplyType ==
    ASSUME Inv, NEW r \in Requests PROVE Apply(r) \in [Namespaces -> BOOLEAN]
  <1>1. r.kind \in {"register", "beat", "deregister"} /\ r.ns \in Namespaces
    BY DEF Requests, Kinds
  <1>2. row \in [Namespaces -> BOOLEAN]
    BY DEF Inv, TypeOK
  <1>3. CASE r.kind \in {"register", "beat"}
    <2>1. Apply(r) = [row EXCEPT ![r.ns] = TRUE]
      BY <1>3, Zenon DEF Apply
    <2> QED
      BY <1>1, <1>2, <2>1
  <1>4. CASE r.kind = "deregister"
    <2>1. Apply(r) = [row EXCEPT ![r.ns] = FALSE]
      BY <1>4, Zenon DEF Apply
    <2> QED
      BY <1>1, <1>2, <2>1
  <1> QED
    BY <1>1, <1>3, <1>4

LEMMA HandleInv ==
    ASSUME Inv, NEW t \in Threads, Handle(t) PROVE Inv'
  <1>1. call[t].phase # "idle" /\ call[t].req \in Requests
    BY InCall DEF Inv, Handle
  <1>2. late' \subseteq Requests /\ mu' = mu /\ UNCHANGED <<clientVars, token, generation>>
    BY DEF Inv, TypeOK, Handle, authVars
  <1>3. CASE Accepted(call[t].req)
    <2>1. Phase(t, "ok") /\ row' \in [Namespaces -> BOOLEAN]
      BY <1>1, <1>3, ApplyType DEF Handle
    <2> QED
      BY <1>1, <1>2, <2>1, AnswerInv
  <1>4. CASE ~Accepted(call[t].req)
    <2>1. row' \in [Namespaces -> BOOLEAN] /\ call[t].req.tok # generation
      BY <1>4 DEF Inv, TypeOK, Handle, Accepted
    <2>2. Phase(t, "error") \/ Phase(t, "rejected")
      BY <1>4 DEF Handle
    <2> QED
      BY <1>1, <1>2, <2>1, <2>2, AnswerInv
  <1> QED
    BY <1>3, <1>4

(* The rejected token is dropped, so that the next one is newer.           *)
LEMMA RetryInv ==
    ASSUME Inv, NEW t \in Threads, Retry(t) PROVE Inv'
  <1>1. /\ token \in Nat /\ generation \in Nat /\ call[t].phase = "rejected"
        /\ generation' = generation /\ token' \in {token, 0} /\ mu' = mu
        /\ Auth = "password" => token' = 0
    BY DEF Inv, TypeOK, Retry, authVars, serverVars
  <1>2. /\ call' \in [Threads -> Calls \cup {NoCall}]
        /\ call'[t].phase = "token" /\ call'[t].req = call[t].req
        /\ \A s \in Threads \ {t} : call'[s] = call[s]
    BY <1>1, RetryStep DEF Inv, Retry
  <1>3. TypeOK'
    <2>1. {token', generation'} \subseteq 0..MaxRevocations + 1
      BY <1>1, ClientAssumption DEF Inv, TypeOK
    <2> QED
      BY <1>1, <1>2, <2>1 DEF Inv, TypeOK, Retry, clientVars, serverVars
  <1>4. Fresh(t)'
    <2>1. call[t].req.tok \in Nat /\ call[t].req.tok < generation
      BY <1>1, InCall DEF Inv, Tokens, Fresh
    <2> QED
      BY <1>1, <1>2, <2>1 DEF Fresh
  <1>5. Tokens'
    <2>1. \A s \in Threads : Fresh(s)'
      BY <1>1, <1>2, <1>4, OthersFresh
    <2> QED
      BY <1>1, <2>1 DEF Inv, Tokens
  <1> QED
    BY <1>3, <1>5, ControlKept DEF Inv, Retry

-----------------------------------------------------------------------------
(* The registry and the time.                                              *)
LEMMA RevokeInv == Inv /\ Revoke => Inv'
  <1> SUFFICES ASSUME Inv, Revoke PROVE Inv'
    OBVIOUS
  <1>1. /\ generation \in Nat /\ token \in Nat /\ token <= generation
        /\ generation' = generation + 1 /\ token' = token /\ call' = call
        /\ generation' \in 0..MaxRevocations + 1
    BY ClientAssumption DEF Inv, TypeOK, Tokens, Revoke, authVars
  <1>2. TypeOK'
    BY <1>1 DEF Inv, TypeOK, Revoke, clientVars, authVars
  <1>3. Tokens'
    BY <1>1, OthersFresh DEF Tokens
  <1> QED
    BY <1>2, <1>3, ControlKept DEF Inv, Revoke

LEMMA TokenExpiresInv == Inv /\ TokenExpires => Inv'
  <1> SUFFICES ASSUME Inv, TokenExpires PROVE Inv'
    OBVIOUS
  <1>1. /\ generation \in Nat /\ generation' = generation /\ token' = 0 /\ call' = call
    BY DEF Inv, TypeOK, TokenExpires, serverVars
  <1>2. TypeOK'
    BY ClientAssumption DEF Inv, TypeOK, TokenExpires, clientVars, serverVars
  <1>3. Tokens'
    BY <1>1, OthersFresh DEF Tokens
  <1> QED
    BY <1>2, <1>3, ControlKept DEF Inv, TokenExpires

(* The client does not see what happens to its row.                        *)
LEMMA RowInv ==
    ASSUME Inv, row' \in [Namespaces -> BOOLEAN], late' \subseteq Requests,
           UNCHANGED <<clientVars, call, authVars, generation>>
    PROVE  Inv'
  <1>1. TypeOK'
    BY DEF Inv, TypeOK, clientVars, authVars
  <1>2. Tokens'
    BY DEF Inv, Tokens, Fresh, authVars
  <1> QED
    BY <1>1, <1>2, ControlKept DEF Inv

LEMMA HandleLateInv == Inv /\ HandleLate => Inv'
  <1> SUFFICES ASSUME Inv, HandleLate PROVE Inv'
    OBVIOUS
  <1>1. late' \subseteq Requests /\ row' \in [Namespaces -> BOOLEAN]
    BY ApplyType DEF Inv, TypeOK, HandleLate
  <1> QED
    BY <1>1, RowInv DEF HandleLate

LEMMA SweepInv ==
    ASSUME Inv, NEW n \in Namespaces, Sweep(n) PROVE Inv'
  <1>1. late' \subseteq Requests /\ row' \in [Namespaces -> BOOLEAN]
    BY DEF Inv, TypeOK, Sweep
  <1> QED
    BY <1>1, RowInv DEF Sweep

-----------------------------------------------------------------------------
(* The application and the loops.                                          *)
LEMMA StartInv ==
    ASSUME Inv, NEW l \in Loops, Start(l) PROVE Inv'
  <1>1. Control' /\ loop' \in [Loops -> {"new", "check", "register", "backoff", "interval",
                                         "sleep", "beat", "exited"}]
    BY ControlStart DEF Start
  <1>2. TypeOK'
    BY <1>1 DEF Inv, TypeOK, Start, StartUnlocked, authVars, serverVars
  <1>3. Tokens'
    BY DEF Inv, Tokens, Fresh, Start, authVars, serverVars
  <1> QED
    BY <1>1, <1>2, <1>3 DEF Inv

(* A goroutine is through with its call.                                   *)
LEMMA EndTokens ==
    ASSUME Inv, NEW t \in Threads, call' = [call EXCEPT ![t] = NoCall],
           UNCHANGED <<token, generation>>
    PROVE  Tokens' /\ call' \in [Threads -> Calls \cup {NoCall}]
  <1>1. /\ call' \in [Threads -> Calls \cup {NoCall}]
        /\ call'[t].phase = "idle"
        /\ \A s \in Threads \ {t} : call'[s] = call[s]
    BY EndStep DEF Inv
  <1>2. Fresh(t)'
    BY <1>1 DEF Fresh
  <1> QED
    BY <1>1, <1>2, TokensKept

(* A goroutine begins a call.                                              *)
LEMMA BeginTokens ==
    ASSUME Inv, NEW t \in Threads, NEW kind \in Kinds, BeginCall(t, kind),
           UNCHANGED <<token, generation>>
    PROVE  Tokens' /\ call' \in [Threads -> Calls \cup {NoCall}]
  <1>1. /\ call' \in [Threads -> Calls \cup {NoCall}]
        /\ call'[t].phase = "token" /\ call'[t].req.tok = 0 /\ call'[t].retry = FALSE
        /\ \A s \in Threads \ {t} : call'[s] = call[s]
    BY BeginStep DEF Inv
  <1>2. Fresh(t)'
    BY <1>1 DEF Fresh, Inv, TypeOK
  <1> QED
    BY <1>1, <1>2, TokensKept

LEMMA AnnounceInv == Inv /\ Announce => Inv'
  <1> SUFFICES ASSUME Inv, Announce PROVE Inv'
    OBVIOUS
  <1>1. Tokens' /\ call' \in [Threads -> Calls \cup {NoCall}]
    BY BeginTokens, ThreadsType DEF Announce, Kinds, authVars, serverVars
  <1>2. TypeOK'
    BY <1>1 DEF Inv, TypeOK, Announce, authVars, serverVars
  <1>3. Control'
    BY DEF Inv, Control, Reachable, Live, StartedInOrder, Started, StopOrder,
           LoopEndsBeforeDeregister, Announce
  <1> QED
    BY <1>1, <1>2, <1>3 DEF Inv

LEMMA AnnounceEndInv ==
    ASSUME Inv, AnnounceFailed \/ \E l \in Loops : AnnounceOk(l) PROVE Inv'
  <1>1. Tokens' /\ call' \in [Threads -> Calls \cup {NoCall}]
    BY EndTokens, ThreadsType DEF AnnounceFailed, AnnounceOk, authVars, serverVars
  <1>2. CASE AnnounceFailed
    <2>1. TypeOK'
      BY <1>1, <1>2 DEF Inv, TypeOK, AnnounceFailed, authVars, serverVars
    <2>2. Control'
      BY <1>2 DEF Inv, Control, Reachable, Live, StartedInOrder, Started, StopOrder,
                  LoopEndsBeforeDeregister, AnnounceFailed
    <2> QED
      BY <1>1, <2>1, <2>2 DEF Inv
  <1>3. ASSUME NEW l \in Loops, AnnounceOk(l) PROVE Inv'
    <2>1. Control' /\ loop' \in [Loops -> {"new", "check", "register", "backoff", "interval",
                                           "sleep", "beat", "exited"}]
      BY <1>3, ControlStart DEF AnnounceOk
    <2>2. TypeOK'
      BY <1>1, <1>3, <2>1 DEF Inv, TypeOK, AnnounceOk, StartUnlocked, authVars, serverVars
    <2> QED
      BY <1>1, <2>1, <2>2 DEF Inv
  <1> QED
    BY <1>2, <1>3

LEMMA ParentCancelledInv ==
    ASSUME Inv, NEW l \in Loops, ParentCancelled(l) PROVE Inv'
  <1>1. TypeOK'
    BY DEF Inv, TypeOK, ParentCancelled, authVars, serverVars
  <1>2. \A k \in Loops : Live(k)' => Live(k)
    BY DEF Inv, TypeOK, Live, ParentCancelled
  <1>3. Control'
    BY <1>2 DEF Inv, Control, Reachable, StartedInOrder, Started, StopOrder,
                LoopEndsBeforeDeregister, ParentCancelled
  <1>4. Tokens'
    BY DEF Inv, Tokens, Fresh, ParentCancelled, authVars, serverVars
  <1> QED
    BY <1>1, <1>3, <1>4 DEF Inv

(* What a step of a loop has to show: where it goes, and its calls.        *)
LEMMA LoopMoves ==
    ASSUME Inv, NEW l \in Loops,
           NEW p \in {"check", "register", "backoff", "interval", "sleep", "beat", "exited"},
           loop[l] \notin {"new", "exited"}, Goto(l, p),
           failures' \in [Loops -> 0..BeatFailureThreshold - 1],
           \/ call' = call
           \/ call' = [call EXCEPT ![l] = NoCall]
           \/ \E kind \in Kinds : BeginCall(l, kind),
           UNCHANGED LoopRest
    PROVE  Inv'
  <1>1. Tokens' /\ call' \in [Threads -> Calls \cup {NoCall}]
    <2>1. l \in Threads /\ UNCHANGED <<token, generation>>
      BY ThreadsType DEF LoopRest, authVars, serverVars
    <2>2. CASE call' = call
      BY <2>1, <2>2 DEF Inv, TypeOK, Tokens, Fresh
    <2> QED
      BY <2>1, <2>2, EndTokens, BeginTokens
  <1>2. Control'
    BY ControlLoopMoves DEF LoopRest
  <1>3. TypeOK'
    BY <1>1 DEF Inv, TypeOK, Goto, LoopRest, authVars, serverVars
  <1> QED
    BY <1>1, <1>2, <1>3 DEF Inv

LEMMA RunInv ==
    ASSUME Inv, NEW l \in Loops, Run(l) \/ LoopSleep(l) PROVE Inv'
  <1>1. /\ failures \in [Loops -> 0..BeatFailureThreshold - 1]
        /\ [failures EXCEPT ![l] = 0] \in [Loops -> 0..BeatFailureThreshold - 1]
    BY ClientAssumption DEF Inv, TypeOK
  <1>2. CASE LoopRegister(l) \/ LoopBeat(l)
    BY <1>1, <1>2, LoopMoves DEF LoopRegister, LoopBeat, Kinds
  <1>3. CASE LoopExit(l)
    BY <1>1, <1>3, LoopMoves DEF LoopExit
  <1>4. CASE LoopRegistered(l) \/ LoopBackoff(l)
    BY <1>1, <1>4, LoopMoves DEF LoopRegistered, LoopBackoff
  <1>5. CASE LoopRetry(l) \/ LoopSleep(l)
    BY <1>1, <1>5, LoopMoves DEF LoopRetry, LoopSleep
  <1>6. CASE LoopBeaten(l)
    BY <1>1, <1>6, LoopMoves DEF LoopBeaten
  <1>7. CASE LoopBeatFailed(l)
    <2>1. failures' \in [Loops -> 0..BeatFailureThreshold - 1]
      BY <1>1, <1>7, ClientAssumption DEF LoopBeatFailed
    <2> QED
      BY <1>7, <2>1, LoopMoves DEF LoopBeatFailed
  <1> QED
    BY <1>2, <1>3, <1>4, <1>5, <1>6, <1>7 DEF Run

-----------------------------------------------------------------------------
(* Stop.                                                                   *)
LEMMA StopBeginInv == Inv /\ StopBegin => Inv'
  <1> SUFFICES ASSUME Inv, StopBegin PROVE Inv'
    OBVIOUS
  <1>1. TypeOK'
    BY DEF Inv, TypeOK, StopBegin, StopRest, authVars, serverVars
  <1>2. Tokens'
    BY DEF Inv, Tokens, Fresh, StopBegin, StopRest, authVars, serverVars
  <1>3. \A l \in Loops : ~Live(l)'
    BY ClientAssumption DEF Inv, TypeOK, Control, Reachable, Live, StopBegin, Threads
  <1>4. Reachable' /\ StartedInOrder'
    BY <1>3 DEF Reachable, Inv, Control, StartedInOrder, Started, StopBegin
  <1>5. StopOrder'
    BY DEF Inv, TypeOK, StopOrder, LoopEndsBeforeDeregister, StopBegin
  <1> QED
    BY <1>1, <1>2, <1>4, <1>5 DEF Inv, Control

(* Every other step of Stop leaves the loops alone.                        *)
LEMMA StopStepInv ==
    ASSUME Inv, StopTimesOut \/ Stopping PROVE Inv'
  <1>1. UNCHANGED <<cancel, stopped, loop, ctxDone, StopRest>>
    BY DEF StopTimesOut, Stopping, StopWait, StopDeregister, StopReturn
  <1>2. Tokens' /\ call' \in [Threads -> Calls \cup {NoCall}]
    <2>1. UNCHANGED <<token, generation>>
      BY <1>1 DEF StopRest, authVars, serverVars
    <2>2. CASE UNCHANGED call
      BY <2>1, <2>2 DEF Inv, TypeOK, Tokens, Fresh
    <2>3. CASE StopDeregister
      BY <2>1, <2>3, BeginTokens, ThreadsType DEF StopDeregister, Kinds
    <2>4. CASE StopReturn
      BY <2>1, <2>4, EndTokens, ThreadsType DEF StopReturn
    <2> QED
      BY <2>2, <2>3, <2>4 DEF Stopping, StopTimesOut, StopWait
  <1>3. /\ stop' \in {"idle", "waitLoop", "decide", "deregister"}
        /\ waiting' \in Loops \cup {Nobody} /\ stopCtx' \in BOOLEAN
    BY DEF Inv, TypeOK, StopTimesOut, Stopping, StopWait, StopDeregister, StopReturn
  <1>4. TypeOK'
    BY <1>1, <1>2, <1>3 DEF Inv, TypeOK, StopRest, authVars, serverVars
  <1>5. Reachable' /\ StartedInOrder'
    BY <1>1 DEF Inv, Control, Reachable, Live, StartedInOrder, Started
  <1>6. StopOrder'
    BY DEF Inv, TypeOK, Control, StopOrder, LoopEndsBeforeDeregister,
           StopTimesOut, Stopping, StopWait, StopDeregister, StopReturn
  <1> QED
    BY <1>2, <1>4, <1>5, <1>6 DEF Inv, Control

-----------------------------------------------------------------------------
LEMMA NextInv == Inv /\ [Next]_vars => Inv'
  <1> SUFFICES ASSUME Inv, [Next]_vars PROVE Inv'
    OBVIOUS
  <1>1. ASSUME NEW t \in Threads, Exchange(t) \/ NeedsMutex(t) PROVE Inv'
    BY <1>1, LoginInv, LoginFailedInv, GiveUpInv, HandleInv, EnsureTokenInv, RetryInv
       DEF Exchange, NeedsMutex
  <1>2. ASSUME NEW l \in Loops, Run(l) \/ LoopSleep(l) \/ Start(l) \/ ParentCancelled(l)
        PROVE  Inv'
    BY <1>2, RunInv, StartInv, ParentCancelledInv
  <1>3. CASE Booting
    BY <1>3, AnnounceEndInv DEF Booting
  <1>4. CASE Environment
    BY <1>4, HandleLateInv, SweepInv, RevokeInv, TokenExpiresInv DEF Environment
  <1>5. CASE StopTimesOut \/ Stopping
    BY <1>5, StopStepInv
  <1>6. CASE UNCHANGED vars
    <2>1. row' \in [Namespaces -> BOOLEAN] /\ late' \subseteq Requests
      BY <1>6 DEF vars, serverVars, Inv, TypeOK
    <2> QED
      BY <1>6, <2>1, RowInv DEF vars, serverVars
  <1> QED
    BY <1>1, <1>2, <1>3, <1>4, <1>5, <1>6, AnnounceInv, StopBeginInv DEF Next

LEMMA Invariance == Spec => []Inv
  BY InitInv, NextInv, PTL DEF Spec

-----------------------------------------------------------------------------
(* However often the service starts and stops, and whenever its context is *)
(* cancelled: a loop that still runs is the one that Stop will cancel, and *)
(* there is none while the client is stopped.                              *)
THEOREM NoOrphanLoop == Spec => []StopCanReachEveryLoop
  <1>1. Inv => StopCanReachEveryLoop
    BY DEF Inv, Control, Reachable, StopCanReachEveryLoop
  <1> QED
    BY Invariance, <1>1, PTL

(* Stop deregisters only after the loop it has cancelled has exited, so no *)
(* beat of that loop follows the deregistration.                           *)
THEOREM DeregisterIsLast == Spec => []LoopEndsBeforeDeregister
  <1>1. Inv => LoopEndsBeforeDeregister
    BY DEF Inv, Control, StopOrder
  <1> QED
    BY Invariance, <1>1, PTL

(* Only a goroutine that has its token sends its request.                  *)
LEMMA OnlyTokenSends ==
    ASSUME Inv, Next, NEW t \in Threads,
           call[t].phase \in {"token", "login"}, call'[t].phase = "sent"
    PROVE  EnsureToken(t) \/ Login(t)
  <1>1. call' # call
    OBVIOUS
  <1>2. ASSUME NEW s \in Threads, Exchange(s) \/ NeedsMutex(s)
        PROVE  EnsureToken(t) \/ Login(t)
    <2>1. s = t
      <3>1. CASE LoginFailed(s) \/ GiveUp(s) \/ Handle(s)
        BY <3>1 DEF LoginFailed, GiveUp, Handle, Phase, Inv, TypeOK
      <3>2. CASE EnsureToken(s) \/ Login(s) \/ Retry(s)
        BY <3>2 DEF EnsureToken, Login, Retry, Phase, Inv, TypeOK
      <3> QED
        BY <1>2, <3>1, <3>2 DEF Exchange, NeedsMutex
    <2>2. ~LoginFailed(t) /\ ~GiveUp(t) /\ ~Handle(t)
      <3>1. ~LoginFailed(t)
        BY PhaseStep DEF LoginFailed, Inv
      <3> QED
        BY <3>1 DEF GiveUp, Handle
    <2> QED
      BY <1>2, <2>1, <2>2 DEF Exchange, NeedsMutex, Retry
  <1>3. ASSUME NEW s \in Threads, NEW kind \in Kinds,
               BeginCall(s, kind) \/ call' = [call EXCEPT ![s] = NoCall]
        PROVE  FALSE
    BY <1>3, BeginStep, EndStep DEF Inv
  <1>4. ASSUME NEW l \in Loops, Run(l) \/ LoopSleep(l) \/ Start(l) \/ ParentCancelled(l)
        PROVE  FALSE
    BY <1>1, <1>3, <1>4, ThreadsType
       DEF Run, LoopSleep, Start, ParentCancelled, LoopRegister, LoopExit, LoopRegistered,
           LoopBackoff, LoopRetry, LoopBeat, LoopBeaten, LoopBeatFailed, Kinds
  <1>5. ~Announce /\ ~Booting
    BY <1>3, ThreadsType DEF Announce, Booting, AnnounceOk, AnnounceFailed, Kinds
  <1>6. ~StopBegin /\ ~StopTimesOut /\ ~Stopping
    BY <1>1, <1>3, ThreadsType
       DEF StopBegin, StopTimesOut, Stopping, StopWait, StopDeregister, StopReturn, Kinds
  <1>7. ~Environment
    BY <1>1 DEF Environment, HandleLate, Sweep, Revoke, TokenExpires
  <1> QED
    BY <1>2, <1>4, <1>5, <1>6, <1>7 DEF Next

(* One revocation costs one retry: the token that a retry presents is      *)
(* newer than the rejected one, however the other goroutines log in, drop  *)
(* and replace the cached token in between.                                *)
THEOREM RetryRenewsToken == Spec => RetryHasNewToken
  <1>1. ASSUME Inv, [Next]_vars, NEW t \in Threads,
               call[t].phase \in {"token", "login"}, call[t].retry,
               call'[t].phase = "sent", Auth = "password"
        PROVE  call'[t].req.tok > call[t].req.tok
    <2>1. EnsureToken(t) \/ Login(t)
      BY <1>1, OnlyTokenSends DEF vars
    <2>2. /\ call[t].req.tok \in Nat /\ token \in Nat /\ generation \in Nat
          /\ call[t].req.tok < generation /\ (token = 0 \/ token > call[t].req.tok)
      BY <1>1, InCall DEF Inv, TypeOK, Tokens, Fresh
    <2>3. CASE Login(t)
      BY <1>1, <2>2, <2>3, SentStep DEF Login, Inv
    <2>4. CASE EnsureToken(t)
      <3>1. ~Phase(t, "login")
        BY <1>1, PhaseStep DEF Inv
      <3>2. token # 0 /\ call' = [call EXCEPT ![t].phase = "sent", ![t].req.tok = token]
        BY <1>1, <2>4, <3>1 DEF EnsureToken
      <3> QED
        BY <1>1, <2>2, <3>2, SentStep DEF Inv
    <2> QED
      BY <2>1, <2>3, <2>4
  <1>2. Inv /\ [Next]_vars =>
           [\A t \in Threads :
              call[t].phase \in {"token", "login"} /\ call[t].retry /\ call'[t].phase = "sent"
                 /\ Auth = "password"
              => call'[t].req.tok > call[t].req.tok]_vars
    BY <1>1
  <1> QED
    BY Invariance, <1>2, PTL DEF Spec, RetryHasNewToken
=============================================================================

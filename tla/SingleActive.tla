----------------------------- MODULE SingleActive -----------------------------
(***************************************************************************)
(* What single-active configuration ownership promises its clients, with   *)
(* the sessions, transactions, semaphores and processes abstracted away:   *)
(* at any time at most one process owns the configuration tables; a        *)
(* process that has lost them never owns them again; a request takes       *)
(* effect at most once, at one instant, on the tables as they are at that  *)
(* instant, and while the process it was sent to owns them; "ok" is        *)
(* answered only to a request that took effect, and "rejected" only to one *)
(* that did not and will not.  "unavailable" (HTTP 503) leaves it open:    *)
(* the request may have taken effect or still do so, but not once the      *)
(* process it was sent to has lost the tables.  So a client that sees a    *)
(* successor answer knows that its 503 is settled.  What the tables are    *)
(* does not matter here.                                                   *)
(***************************************************************************)
CONSTANTS
    Procs,          \* server processes
    Requests,       \* client requests
    NoProc,         \* nobody
    Ops,            \* the operations of the requests
    NoOp,           \* none yet
    EmptyDatabase,  \* the tables at the beginning
    Apply(_, _)     \* Apply(d, o): the tables d after the operation o

VARIABLES
    db,         \* the tables
    owner,      \* the process that owns them, or NoProc
    retired,    \* the processes that have owned them and no longer do
    committed,  \* the requests that took effect
    askedOf,    \* [Requests -> ...] the process the request was sent to
    asked,      \* [Requests -> ...] the operation it asks for
    answer      \* [Requests -> ...] the answers

vars == <<db, owner, retired, committed, askedOf, asked, answer>>

Init ==
    /\ db = EmptyDatabase
    /\ owner = NoProc
    /\ retired = {}
    /\ committed = {}
    /\ askedOf = [r \in Requests |-> NoProc]
    /\ asked = [r \in Requests |-> NoOp]
    /\ answer = [r \in Requests |-> "none"]

Acquire(p) ==
    /\ owner = NoProc
    /\ p \notin retired
    /\ owner' = p
    /\ UNCHANGED <<db, retired, committed, askedOf, asked, answer>>

Retire(p) ==
    /\ owner = p
    /\ owner' = NoProc
    /\ retired' = retired \cup {p}
    /\ UNCHANGED <<db, committed, askedOf, asked, answer>>

(* A process that knows it has lost the tables refuses at once.            *)
Receive(r, p, o) ==
    /\ askedOf[r] = NoProc
    /\ askedOf' = [askedOf EXCEPT ![r] = p]
    /\ asked' = [asked EXCEPT ![r] = o]
    /\ answer' \in {answer, [answer EXCEPT ![r] = "unavailable"]}
    /\ UNCHANGED <<db, owner, retired, committed>>

Commit(r) ==
    /\ owner # NoProc
    /\ owner = askedOf[r]
    /\ r \notin committed
    /\ answer[r] \in {"none", "unavailable"}
    /\ db' = Apply(db, asked[r])
    /\ committed' = committed \cup {r}
    /\ UNCHANGED <<owner, retired, askedOf, asked, answer>>

Respond(r, a) ==
    /\ askedOf[r] # NoProc
    /\ answer[r] = "none"
    /\ a = "ok" => r \in committed
    /\ a = "rejected" => r \notin committed
    /\ answer' = [answer EXCEPT ![r] = a]
    /\ UNCHANGED <<db, owner, retired, committed, askedOf, asked>>

Next ==
    \/ \E p \in Procs : Acquire(p) \/ Retire(p)
    \/ \E r \in Requests :
          \/ \E p \in Procs, o \in Ops : Receive(r, p, o)
          \/ Commit(r)
          \/ \E a \in {"ok", "rejected", "unavailable"} : Respond(r, a)

Spec == Init /\ [][Next]_vars
=============================================================================

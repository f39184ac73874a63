----------------------------- MODULE SchemaProofs -----------------------------
(***************************************************************************)
(* Proofs about Schema, for any number of processes, any scripts and any   *)
(* number of deaths.                                                       *)
(***************************************************************************)
EXTENDS Schema, TLAPS

(* The places of a process that makes the administrator.                   *)
Seeding == {"user", "role", "permission"}

(* What the place of a process says about the database: what is left of    *)
(* its script is all that can be missing of it, and the versions it need   *)
(* not apply any more are in the ledger.                                   *)
Progress(p) ==
    /\ At(p, "base") => Made(BaseScript) \subseteq objects \cup Made(proc[p].left)
    /\ proc[p].pc \notin {"down", "base"} => Made(BaseScript) \subseteq objects
    /\ At(p, "migrate") => Versions \subseteq ledger \cup proc[p].pending
    /\ At(p, "apply") =>
          /\ proc[p].version \in Versions
          /\ Versions \subseteq ledger \cup proc[p].pending \cup {proc[p].version}
          /\ \A w \in Versions : w < proc[p].version => w \in ledger
          /\ Made(Script[proc[p].version]) \subseteq objects \cup Made(proc[p].left)
    /\ proc[p].pc \in Seeding \cup {"validate", "serving"} => Versions \subseteq ledger
    /\ proc[p].pc \in Seeding => found = {} /\ Admin # NoName
    /\ proc[p].pc \in {"role", "permission"} => Admin \in users
    /\ proc[p].pc \in {"validate", "serving"} /\ Admin # NoName => users # {}
    /\ At(p, "serving") /\ p \in AuthEnabled /\ PublicAdmin => found = {}

(* Who made the users that there are: they were found, or are the one that *)
(* the seed makes, with a public password only if somebody seeds that.     *)
Provenance ==
    /\ found # {} => users = found
    /\ found = {} => users \subseteq {Admin}
    /\ found = {} /\ weak # {} => PublicSeed # {}

(* Where the role of the administrator is, that the seed makes.            *)
RoleOnItsWay ==
    found = {} /\ users # {} =>
        Admin \in roles \/ faults > 0 \/ \E q \in Procs : At(q, "role")

(* The inductive invariant.                                                *)
Inv ==
    /\ TypeOK /\ LedgerMeansApplied
    /\ Provenance /\ RoleOnItsWay
    /\ \A p \in Procs : Progress(p)

-----------------------------------------------------------------------------
(* The head of a script that is run makes what its tail does not.          *)
LEMMA MadeHeadTail ==
    ASSUME NEW script \in Seq(Statements), script # << >>
    PROVE  /\ Made(script) \subseteq {Head(script).object} \cup Made(Tail(script))
           /\ Head(script) \in Statements
           /\ Tail(script) \in Seq(Statements)
  <1>1. ASSUME NEW i \in DOMAIN script
        PROVE  script[i].object \in {Head(script).object} \cup Made(Tail(script))
    <2>1. CASE i = 1
      BY <2>1
    <2>2. CASE i # 1
      <3>1. i - 1 \in DOMAIN Tail(script) /\ Tail(script)[i - 1] = script[i]
        BY <2>2
      <3> QED
        BY <3>1 DEF Made
    <2> QED
      BY <2>1, <2>2
  <1>2. Head(script) \in Statements /\ Tail(script) \in Seq(Statements)
    OBVIOUS
  <1> QED
    BY <1>1, <1>2 DEF Made

(* Nothing is missing of a script of which nothing is left.                *)
LEMMA MadeEmpty == Made(<< >>) = {}
  BY DEF Made

LEMMA MadeType ==
    ASSUME NEW script \in Seq(Statements) PROVE Made(script) \subseteq STRING
  <1>1. \A i \in DOMAIN script : script[i] \in Statements
    OBVIOUS
  <1> QED
    BY <1>1 DEF Made, Statements

LEMMA DownType == Down \in Places
  BY DEF Down, Places

LEMMA BaseScriptType == BaseScript \in Seq(Statements)
  BY SchemaAssumption DEF BaseScript, Statements

-----------------------------------------------------------------------------
(* An empty database, or one from before the ledger, satisfies it.         *)
LEMMA InitInv == Init => Inv
  <1> SUFFICES ASSUME Init PROVE Inv
    OBVIOUS
  <1>1. Made(BaseScript) \subseteq STRING
    BY BaseScriptType, MadeType
  <1>2. TypeOK
    <2>1. proc \in [Procs -> Places]
      BY DownType DEF Init
    <2>2. objects \subseteq STRING /\ ledger \subseteq Versions
      BY <1>1 DEF Init
    <2>3. /\ users \subseteq Accounts /\ roles \subseteq users /\ weak \subseteq users
          /\ allowed \in BOOLEAN /\ found \subseteq users
      BY DEF Init
    <2>4. faults \in 0..MaxFaults
      BY SchemaAssumption DEF Init
    <2> QED
      BY <2>1, <2>2, <2>3, <2>4 DEF TypeOK
  <1>3. LedgerMeansApplied
    BY DEF Init, LedgerMeansApplied
  <1>4. \A p \in Procs : Progress(p)
    BY DEF Init, Progress, Seeding, At, Down
  <1>5. Provenance /\ RoleOnItsWay
    BY DEF Init, Provenance, RoleOnItsWay
  <1> QED
    BY <1>2, <1>3, <1>4, <1>5 DEF Inv

(* The processes that do not step keep their place, and what it says: the  *)
(* tables, the ledger and the users only grow.                             *)
LEMMA OthersProgress ==
    ASSUME Inv, NEW q \in Procs,
           proc'[q] = proc[q],
           objects \subseteq objects', ledger \subseteq ledger', users \subseteq users',
           found' = found, found # {} => UNCHANGED <<roles, weak>>
    PROVE  Progress(q)'
  BY DEF Inv, Progress, Seeding, At, PublicAdmin

(* A step that leaves the accounts alone, of a process that is not before  *)
(* the role or that ends there, says nothing new about them.               *)
LEMMA AccountsKept ==
    ASSUME Inv, NEW p \in Procs, UNCHANGED accounts,
           \A q \in Procs \ {p} : proc'[q] = proc[q],
           (~At(p, "role") /\ faults' = faults) \/ faults' > 0
    PROVE  Provenance' /\ RoleOnItsWay'
  <1>1. Provenance'
    BY DEF Inv, Provenance, accounts
  <1>2. RoleOnItsWay'
    <2>1. CASE faults' > 0
      BY <2>1 DEF RoleOnItsWay
    <2>2. CASE ~At(p, "role") /\ faults' = faults
      <3>1. \A q \in Procs : At(q, "role") => At(q, "role")'
        BY <2>2 DEF At
      <3> QED
        BY <2>2, <3>1 DEF Inv, RoleOnItsWay, accounts
    <2> QED
      BY <2>1, <2>2
  <1> QED
    BY <1>1, <1>2

(* A step that leaves tables and accounts alone, and the ledger too, keeps *)
(* the ledger's meaning.                                                   *)
LEMMA LedgerKept ==
    ASSUME Inv, objects \subseteq objects', ledger' = ledger
    PROVE  LedgerMeansApplied'
  BY DEF Inv, LedgerMeansApplied, Made

-----------------------------------------------------------------------------
(* One lemma per action: Next keeps Inv.                                   *)
LEMMA BootInv ==
    ASSUME Inv, NEW p \in Procs, Boot(p) PROVE Inv'
  <1>1. TypeOK'
    BY BaseScriptType DEF Inv, TypeOK, Places, Boot, accounts
  <1>2. LedgerMeansApplied'
    BY LedgerKept DEF Boot
  <1>3. Progress(p)'
    BY DEF Inv, TypeOK, Places, Boot, Progress, Seeding, At, accounts
  <1>4. \A q \in Procs : Progress(q)'
    BY <1>3, OthersProgress DEF Boot, accounts, Inv, TypeOK, Places
  <1>5. Provenance' /\ RoleOnItsWay'
    BY AccountsKept DEF Boot, At, Inv, TypeOK
  <1> QED
    BY <1>1, <1>2, <1>4, <1>5 DEF Inv

LEMMA StatementInv ==
    ASSUME Inv, NEW p \in Procs, Statement(p) PROVE Inv'
  <1> DEFINE left == proc[p].left
  <1>1. /\ left \in Seq(Statements) /\ left # << >>
        /\ objects' = objects \cup {Head(left).object}
        /\ proc' = [proc EXCEPT ![p].left = Tail(left)]
    BY DEF Inv, TypeOK, Places, Statement
  <1>2. /\ Made(left) \subseteq {Head(left).object} \cup Made(Tail(left))
        /\ Head(left) \in Statements /\ Tail(left) \in Seq(Statements)
    BY <1>1, MadeHeadTail
  <1>3. TypeOK'
    <2>1. objects' \subseteq STRING
      BY <1>1, <1>2 DEF Inv, TypeOK, Statements
    <2>2. proc' \in [Procs -> Places]
      BY <1>1, <1>2 DEF Inv, TypeOK, Places
    <2> QED
      BY <2>1, <2>2 DEF Inv, TypeOK, Statement, accounts
  <1>4. LedgerMeansApplied'
    BY LedgerKept DEF Statement
  <1>5. Progress(p)'
    <2>1. proc'[p] = [proc[p] EXCEPT !.left = Tail(left)]
      BY <1>1 DEF Inv, TypeOK, Places
    <2>2. proc'[p].pc = proc[p].pc /\ proc'[p].left = Tail(left)
          /\ proc'[p].pending = proc[p].pending /\ proc'[p].version = proc[p].version
      BY <2>1 DEF Inv, TypeOK, Places
    <2> QED
      BY <1>1, <1>2, <2>2 DEF Inv, Statement, Progress, Seeding, At, accounts
  <1>6. \A q \in Procs : Progress(q)'
    BY <1>1, <1>5, OthersProgress DEF Statement, accounts, Inv, TypeOK, Places
  <1>7. Provenance' /\ RoleOnItsWay'
    BY <1>1, AccountsKept DEF Statement, At, Inv, TypeOK
  <1> QED
    BY <1>3, <1>4, <1>6, <1>7 DEF Inv

(* A process that ends says nothing about the database.                    *)
LEMMA DownInv ==
    ASSUME Inv, NEW p \in Procs, proc' = [proc EXCEPT ![p] = Down],
           UNCHANGED <<objects, ledger, accounts>>, faults' \in 0..MaxFaults,
           (~At(p, "role") /\ faults' = faults) \/ faults' > 0
    PROVE  Inv'
  <1>1. TypeOK'
    BY DownType DEF Inv, TypeOK, accounts
  <1>2. LedgerMeansApplied'
    BY LedgerKept
  <1>3. Progress(p)'
    BY DEF Inv, TypeOK, Places, Progress, Seeding, At, Down
  <1>4. \A q \in Procs : Progress(q)'
    BY <1>3, OthersProgress DEF accounts, Inv, TypeOK, Places
  <1>5. Provenance' /\ RoleOnItsWay'
    BY AccountsKept DEF Inv, TypeOK
  <1> QED
    BY <1>1, <1>2, <1>4, <1>5 DEF Inv

LEMMA StatementFailsInv ==
    ASSUME Inv, NEW p \in Procs, StatementFails(p) PROVE Inv'
  BY DownInv DEF StatementFails, At, Inv, TypeOK

LEMMA FaultInv ==
    ASSUME Inv, NEW p \in Procs, Fault(p) PROVE Inv'
  <1>1. faults' \in 0..MaxFaults /\ faults' > 0
    BY SchemaAssumption DEF Fault, Inv, TypeOK
  <1> QED
    BY <1>1, DownInv DEF Fault

LEMMA BaseDoneInv ==
    ASSUME Inv, NEW p \in Procs, BaseDone(p) PROVE Inv'
  <1>1. TypeOK'
    BY DEF Inv, TypeOK, Places, BaseDone, Goto, accounts
  <1>2. LedgerMeansApplied'
    BY LedgerKept DEF BaseDone
  <1>3. Progress(p)'
    BY MadeEmpty DEF Inv, TypeOK, Places, BaseDone, Goto, Progress, Seeding, At, accounts
  <1>4. \A q \in Procs : Progress(q)'
    BY <1>3, OthersProgress DEF BaseDone, Goto, accounts, Inv, TypeOK
  <1>5. Provenance' /\ RoleOnItsWay'
    BY AccountsKept DEF BaseDone, Goto, At, Inv, TypeOK
  <1> QED
    BY <1>1, <1>2, <1>4, <1>5 DEF Inv

LEMMA ReadLedgerInv ==
    ASSUME Inv, NEW p \in Procs, ReadLedger(p) PROVE Inv'
  <1>1. TypeOK'
    BY DEF Inv, TypeOK, Places, ReadLedger, Pending, accounts
  <1>2. LedgerMeansApplied'
    BY LedgerKept DEF ReadLedger
  <1>3. Progress(p)'
    BY DEF Inv, TypeOK, Places, ReadLedger, Pending, Progress, Seeding, At, accounts
  <1>4. \A q \in Procs : Progress(q)'
    BY <1>3, OthersProgress DEF ReadLedger, accounts, Inv, TypeOK
  <1>5. Provenance' /\ RoleOnItsWay'
    BY AccountsKept DEF ReadLedger, At, Inv, TypeOK
  <1> QED
    BY <1>1, <1>2, <1>4, <1>5 DEF Inv

(* The lowest version that is left has every lower one in the ledger: they *)
(* were there when the ledger was read, or were recorded since.            *)
LEMMA StartMigrationInv ==
    ASSUME Inv, NEW p \in Procs, StartMigration(p) PROVE Inv'
  <1>1. PICK v \in proc[p].pending : Lowest(v, proc[p].pending) /\ Apply(p, v)
    BY DEF StartMigration
  <1>2. v \in Versions /\ Script[v] \in Seq(Statements) /\ Versions \subseteq Nat
    BY <1>1, SchemaAssumption DEF Inv, TypeOK, Places
  <1>3. TypeOK'
    BY <1>1, <1>2 DEF Inv, TypeOK, Places, StartMigration, Apply, accounts
  <1>4. LedgerMeansApplied'
    BY LedgerKept DEF StartMigration
  <1>5. \A w \in Versions : w < v => w \in ledger
    <2>1. Versions \subseteq ledger \cup proc[p].pending
      BY DEF Inv, Progress, StartMigration
    <2> QED
      BY <1>1, <1>2, <2>1 DEF Lowest
  <1>6. Progress(p)'
    <2>1. /\ proc'[p].pc = "apply" /\ proc'[p].left = Script[v]
          /\ proc'[p].version = v /\ proc'[p].pending = proc[p].pending \ {v}
      BY <1>1 DEF Inv, TypeOK, Places, Apply
    <2> QED
      BY <1>2, <1>5, <2>1 DEF Inv, StartMigration, Progress, Seeding, At, accounts
  <1>7. \A q \in Procs : Progress(q)'
    BY <1>1, <1>6, OthersProgress DEF StartMigration, Apply, accounts, Inv, TypeOK
  <1>8. Provenance' /\ RoleOnItsWay'
    BY <1>1, AccountsKept DEF StartMigration, Apply, At, Inv, TypeOK
  <1> QED
    BY <1>3, <1>4, <1>7, <1>8 DEF Inv

(* A version enters the ledger when nothing of it is missing and all that  *)
(* are lower are there.                                                    *)
LEMMA RecordMigrationInv ==
    ASSUME Inv, NEW p \in Procs, RecordMigration(p) PROVE Inv'
  <1> DEFINE v == proc[p].version
  <1>1. /\ v \in Versions
        /\ Versions \subseteq ledger \cup proc[p].pending \cup {v}
        /\ \A w \in Versions : w < v => w \in ledger
        /\ Made(Script[v]) \subseteq objects
    BY MadeEmpty DEF Inv, Progress, RecordMigration
  <1>2. proc' = [proc EXCEPT ![p] = IF v \in ledger THEN Down ELSE [@ EXCEPT !.pc = "migrate"]]
    BY DEF RecordMigration
  <1>3. TypeOK'
    <2>1. [proc[p] EXCEPT !.pc = "migrate"] \in Places
      BY DEF Inv, TypeOK, Places
    <2>2. proc' \in [Procs -> Places]
      BY <1>2, <2>1, DownType DEF Inv, TypeOK
    <2> QED
      BY <1>1, <2>2 DEF Inv, TypeOK, RecordMigration, accounts
  <1>4. LedgerMeansApplied'
    <2>1. ledger' = ledger \cup {v} /\ objects' = objects
      BY DEF RecordMigration
    <2> QED
      BY <1>1, <2>1 DEF Inv, LedgerMeansApplied, Made
  <1>5. Progress(p)'
    <2>1. CASE v \in ledger
      BY <1>2, <2>1 DEF Inv, TypeOK, Progress, Seeding, At, Down
    <2>2. CASE v \notin ledger
      <3>1. proc'[p].pc = "migrate" /\ proc'[p].pending = proc[p].pending
        BY <1>2, <2>2 DEF Inv, TypeOK, Places
      <3> QED
        BY <1>1, <3>1 DEF Inv, RecordMigration, Progress, Seeding, At, accounts
    <2> QED
      BY <2>1, <2>2
  <1>6. \A q \in Procs : Progress(q)'
    BY <1>2, <1>5, OthersProgress DEF RecordMigration, accounts, Inv, TypeOK
  <1>7. Provenance' /\ RoleOnItsWay'
    BY AccountsKept DEF RecordMigration, At, Inv, TypeOK
  <1> QED
    BY <1>3, <1>4, <1>6, <1>7 DEF Inv

(* The steps of the seed up to its check: users and roles only grow, and   *)
(* do so only in a database in which no users were found.                  *)
LEMMA SeedInv ==
    ASSUME Inv, NEW p \in Procs,
           SeedCheck(p) \/ SeedUser(p) \/ SeedRole(p) \/ SeedPermission(p)
    PROVE  Inv'
  <1> USE DEF Goto, accounts
  <1>1. /\ proc' = [proc EXCEPT ![p].pc = proc'[p].pc]
        /\ proc'[p].pc \in Seeding \cup {"validate"}
        /\ UNCHANGED <<objects, ledger, found, faults>>
        /\ users \subseteq users' /\ roles \subseteq roles'
    BY DEF Inv, TypeOK, Places, Seeding, SeedCheck, SeedUser, SeedRole, SeedPermission
  <1>2. proc[p].pc \in Seeding => found = {} /\ Admin \in Accounts
    BY SchemaAssumption DEF Inv, Progress
  <1>3. found # {} => UNCHANGED <<users, roles, weak>>
    BY <1>2 DEF SeedCheck, SeedUser, SeedRole, SeedPermission, Seeding, At
  <1>4. TypeOK'
    <2>1. users' \subseteq Accounts /\ roles' \subseteq users' /\ weak' \subseteq users'
      BY <1>2 DEF Inv, TypeOK, Progress, Seeding, At, SeedCheck, SeedUser, SeedRole, SeedPermission
    <2>2. allowed' \in BOOLEAN /\ found' \subseteq users'
      BY <1>1 DEF Inv, TypeOK, SeedCheck, SeedUser, SeedRole, SeedPermission
    <2> QED
      BY <1>1, <2>1, <2>2 DEF Inv, TypeOK, Places, Seeding
  <1>5. LedgerMeansApplied'
    BY <1>1, LedgerKept
  <1>6. Provenance'
    BY <1>1, <1>3 DEF Inv, Provenance, SeedCheck, SeedUser, SeedRole, SeedPermission
  <1>7. RoleOnItsWay'
    <2>1. CASE SeedUser(p)
      <3>1. At(p, "role")'
        BY <2>1 DEF SeedUser, At, Inv, TypeOK, Places
      <3> QED
        BY <3>1 DEF RoleOnItsWay
    <2>2. CASE SeedRole(p)
      BY <2>2 DEF SeedRole, RoleOnItsWay
    <2>3. CASE SeedCheck(p) \/ SeedPermission(p)
      <3>1. \A q \in Procs : At(q, "role") => At(q, "role")'
        BY <1>1, <2>3 DEF SeedCheck, SeedPermission, At, Inv, TypeOK
      <3> QED
        BY <1>1, <2>3, <3>1 DEF SeedCheck, SeedPermission, Inv, RoleOnItsWay
    <2> QED
      BY <2>1, <2>2, <2>3
  <1>8. Progress(p)'
    <2>1. Made(BaseScript) \subseteq objects /\ Versions \subseteq ledger
      BY DEF Inv, Progress, Seeding, At, SeedCheck, SeedUser, SeedRole, SeedPermission
    <2>2. proc'[p].pc \in Seeding => found' = {} /\ Admin # NoName
      BY <1>1 DEF Inv, TypeOK, Places, Progress, Seeding, At,
         SeedCheck, SeedUser, SeedRole, SeedPermission
    <2>3. proc'[p].pc \in {"role", "permission"} => Admin \in users'
      BY DEF Inv, TypeOK, Places, Progress, Seeding, At, SeedCheck, SeedUser, SeedRole, SeedPermission
    <2>4. proc'[p].pc = "validate" /\ Admin # NoName => users' # {}
      BY DEF Inv, TypeOK, Places, Progress, Seeding, At, SeedCheck, SeedUser, SeedRole, SeedPermission
    <2> QED
      BY <1>1, <2>1, <2>2, <2>3, <2>4 DEF Progress, Seeding, At
  <1>9. \A q \in Procs : Progress(q)'
    BY <1>1, <1>3, <1>8, OthersProgress DEF Inv, TypeOK
  <1> QED
    BY <1>4, <1>5, <1>6, <1>7, <1>9 DEF Inv

(* The check ends the process or lets it serve, with no public             *)
(* administrator if it asks for that.                                      *)
LEMMA ValidateAuthStateInv ==
    ASSUME Inv, NEW p \in Procs, ValidateAuthState(p) PROVE Inv'
  <1>1. CASE p \in AuthEnabled /\ PublicAdmin
    BY <1>1, DownInv DEF ValidateAuthState, At, Inv, TypeOK
  <1>2. CASE ~(p \in AuthEnabled /\ PublicAdmin)
    <2>1. proc' = [proc EXCEPT ![p].pc = "serving"]
      BY <1>2 DEF ValidateAuthState, Inv, TypeOK
    <2>2. TypeOK'
      BY <2>1 DEF Inv, TypeOK, Places, ValidateAuthState, accounts
    <2>3. LedgerMeansApplied'
      BY LedgerKept DEF ValidateAuthState
    <2>4. Progress(p)'
      BY <1>2, <2>1 DEF Inv, TypeOK, Places, Progress, Seeding, At, PublicAdmin,
         ValidateAuthState, accounts
    <2>5. \A q \in Procs : Progress(q)'
      BY <2>1, <2>4, OthersProgress DEF ValidateAuthState, accounts, Inv, TypeOK
    <2>6. Provenance' /\ RoleOnItsWay'
      BY <2>1, AccountsKept DEF ValidateAuthState, At, Inv, TypeOK
    <2> QED
      BY <2>2, <2>3, <2>5, <2>6 DEF Inv
  <1> QED
    BY <1>1, <1>2

-----------------------------------------------------------------------------
(* Every reachable state satisfies Inv: wherever processes die and however *)
(* their boots interleave.                                                 *)
THEOREM Invariance == Spec => []Inv
  <1>1. Inv /\ [Next]_vars => Inv'
    <2> SUFFICES ASSUME Inv, [Next]_vars PROVE Inv'
      OBVIOUS
    <2>1. CASE UNCHANGED vars
      BY <2>1 DEF vars, accounts, Inv, TypeOK, LedgerMeansApplied, Provenance, RoleOnItsWay,
         Progress, PublicAdmin, At
    <2>2. ASSUME NEW p \in Procs, Step(p) \/ Fault(p) PROVE Inv'
      BY <2>2, BootInv, StatementInv, StatementFailsInv, BaseDoneInv, ReadLedgerInv,
         StartMigrationInv, RecordMigrationInv, SeedInv, ValidateAuthStateInv, FaultInv
         DEF Step
    <2> QED
      BY <2>1, <2>2 DEF Next
  <1> QED
    BY <1>1, InitInv, PTL DEF Spec

(* The ledger of runMigrations never names a migration that is not applied *)
(* to its last statement, and names them in order, for any scripts and     *)
(* any number of processes and deaths.                                     *)
THEOREM LedgerMeansAppliedAlways == Spec => []LedgerMeansApplied
  <1>1. Inv => LedgerMeansApplied
    BY DEF Inv
  <1> QED
    BY <1>1, Invariance, PTL

(* A process that serves has every table of the base script and of every   *)
(* migration under it.  The users of the database are those it had, or     *)
(* else the configured administrator, whose role is missing only while the *)
(* process that seeds it is before it or after somebody died; and an       *)
(* administrator of a database with authentication has the public          *)
(* credential only if a process without authentication seeded it.          *)
THEOREM ServingMeansReadyAlways == Spec => []ServingMeansReady
  <1>1. Inv => ServingMeansReady
    <2> SUFFICES ASSUME Inv, NEW p \in Procs, At(p, "serving")
                 PROVE  /\ Made(BaseScript) \subseteq objects
                        /\ \A v \in Versions : v \in ledger /\ Made(Script[v]) \subseteq objects
                        /\ Seeded
                        /\ p \in AuthEnabled /\ PublicAdmin => found = {} /\ PublicSeed # {}
      BY DEF ServingMeansReady
    <2>1. /\ Made(BaseScript) \subseteq objects
          /\ \A v \in Versions : v \in ledger /\ Made(Script[v]) \subseteq objects
      BY DEF Inv, LedgerMeansApplied, Progress, Seeding, At
    <2>2. Seeded
      <3>1. Admin # NoName => users # {}
        BY DEF Inv, Progress, Seeding, At
      <3> QED
        BY <3>1 DEF Inv, Provenance, RoleOnItsWay, Seeded
    <2>3. p \in AuthEnabled /\ PublicAdmin => found = {} /\ PublicSeed # {}
      BY DEF Inv, Provenance, Progress, Seeding, At, PublicAdmin
    <2> QED
      BY <2>1, <2>2, <2>3
  <1> QED
    BY <1>1, Invariance, PTL
=============================================================================

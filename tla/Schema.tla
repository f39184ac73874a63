-------------------------------- MODULE Schema --------------------------------
(***************************************************************************)
(* How a process brings its database up (internal/storage: store.go,       *)
(* migrate.go, schema/migrations): Open applies the base script, then the  *)
(* migrations that the ledger does not name, then the seed and its check   *)
(* of the administrators, and only then serves.  Every statement is a transaction of its own, several processes *)
(* may boot on one database, and a process may die between any two of      *)
(* them; what it was booting under starts it again (--restart              *)
(* unless-stopped).                                                        *)
(***************************************************************************)
EXTENDS Naturals, Sequences

CONSTANTS
    Procs,      \* the processes that share the database
    Base,       \* the tables of the base script, in its order
    Versions,   \* the versions of the migrations
    Script,     \* [version -> Seq([object, guarded])] the statements of a migration
    Accounts,   \* the names that users may have
    Admin,      \* the configured ADMIN_USERNAME, or NoName
    NoName,
    AuthEnabled, \* the processes that run with authentication
    PublicSeed, \* those whose ADMIN_PASSWORD is the public one, the default
    MaxFaults   \* bound: deaths and failed statements

(* guarded: IF NOT EXISTS, as everything in the base script is.            *)
Statements == [object : STRING, guarded : BOOLEAN]

ASSUME SchemaAssumption ==
    /\ Base \in Seq(STRING)
    /\ Versions \subseteq Nat /\ \A v \in Versions : v > 1   \* baselineSchemaVersion
    /\ Script \in [Versions -> Seq(Statements)]
    /\ NoName \notin Accounts /\ Admin \in Accounts \cup {NoName}
    /\ AuthEnabled \subseteq Procs /\ PublicSeed \subseteq Procs
    /\ AuthEnabled # {} => Admin # NoName         \* Config.ValidateAuth, before Open
    /\ AuthEnabled \cap PublicSeed = {}
    /\ MaxFaults \in Nat

Made(script) == { script[i].object : i \in DOMAIN script }
BaseScript == [i \in 1..Len(Base) |-> [object |-> Base[i], guarded |-> TRUE]]

VARIABLES
    objects,    \* the tables and indexes that exist
    ledger,     \* goacos_schema_version
    users,      \* the rows of users
    roles,      \* the users that are ROLE_ADMIN
    weak,       \* the enabled users whose hash is of the public password, or is no hash
    allowed,    \* does permissions have the row of ROLE_ADMIN?
    found,      \* history: the users that were there before the first boot
    proc,       \* where each process is: pc, the statements and the versions
                \* that are left, and the version that is being applied
    faults      \* how many deaths there were

vars == <<objects, ledger, users, roles, weak, allowed, found, proc, faults>>
accounts == <<users, roles, weak, allowed, found>>

Down == [pc |-> "down", left |-> << >>, pending |-> {}, version |-> 0]

Places == [pc : {"down", "base", "ledger", "migrate", "apply",
                 "user", "role", "permission", "validate", "serving"},
           left : Seq(Statements), pending : SUBSET Versions, version : Nat]

TypeOK ==
    /\ objects \subseteq STRING /\ ledger \subseteq Versions
    /\ users \subseteq Accounts /\ roles \subseteq users /\ weak \subseteq users
    /\ allowed \in BOOLEAN /\ found \subseteq users
    /\ proc \in [Procs -> Places]
    /\ faults \in 0..MaxFaults

(* An empty database, or one that was made before there was a ledger, with *)
(* whatever users it has by now.                                           *)
Init ==
    /\ objects \in {{}, Made(BaseScript)} /\ ledger = {}
    /\ users \in SUBSET Accounts /\ (objects = {} => users = {})
    /\ roles \in SUBSET users /\ weak \in SUBSET users
    /\ allowed = (roles # {})
    /\ found = users
    /\ proc = [p \in Procs |-> Down]
    /\ faults = 0

At(p, pc) == proc[p].pc = pc

Goto(p, pc) == proc' = [proc EXCEPT ![p].pc = pc]

-----------------------------------------------------------------------------
(* Open creates the database if there is none, and ensureSchema begins.    *)
Boot(p) ==
    /\ At(p, "down")
    /\ proc' = [proc EXCEPT ![p].pc = "base", ![p].left = BaseScript]
    /\ UNCHANGED <<objects, ledger, accounts, faults>>

(* A statement that finds its object there does nothing if it is guarded.  *)
Runs(statement) == statement.guarded \/ statement.object \notin objects

(* The next statement of the base script or of a migration.                *)
Statement(p) ==
    /\ proc[p].pc \in {"base", "apply"} /\ proc[p].left # << >>
    /\ Runs(Head(proc[p].left))
    /\ objects' = objects \cup {Head(proc[p].left).object}
    /\ proc' = [proc EXCEPT ![p].left = Tail(@)]
    /\ UNCHANGED <<ledger, accounts, faults>>

(* It fails: Open returns the error, and the process ends.                 *)
StatementFails(p) ==
    /\ proc[p].pc = "apply" /\ proc[p].left # << >>
    /\ ~Runs(Head(proc[p].left))
    /\ proc' = [proc EXCEPT ![p] = Down]
    /\ UNCHANGED <<objects, ledger, accounts, faults>>

BaseDone(p) ==
    /\ At(p, "base") /\ proc[p].left = << >>
    /\ Goto(p, "ledger")
    /\ UNCHANGED <<objects, ledger, accounts, faults>>

(* A faulty Pending, for the sensitivity checks: the ledger is not asked.  *)
PendingAll == Versions

(* runMigrations: the versions that the ledger does not name.              *)
Pending == Versions \ ledger

ReadLedger(p) ==
    /\ At(p, "ledger")
    /\ proc' = [proc EXCEPT ![p].pc = "migrate", ![p].pending = Pending]
    /\ UNCHANGED <<objects, ledger, accounts, faults>>

(* They are sorted: the next one is the lowest.                            *)
Lowest(v, versions) == v \in versions /\ \A w \in versions : v <= w

Apply(p, v) ==
    proc' = [proc EXCEPT ![p].pc = "apply", ![p].left = Script[v], ![p].version = v,
                         ![p].pending = @ \ {v}]

(* A faulty StartMigration, for the sensitivity checks: recorded first.    *)
StartMigrationRecords(p) ==
    /\ At(p, "migrate")
    /\ \E v \in proc[p].pending :
          /\ Lowest(v, proc[p].pending) /\ v \notin ledger
          /\ ledger' = ledger \cup {v}
          /\ Apply(p, v)
    /\ UNCHANGED <<objects, accounts, faults>>

StartMigration(p) ==
    /\ At(p, "migrate")
    /\ \E v \in proc[p].pending : Lowest(v, proc[p].pending) /\ Apply(p, v)
    /\ UNCHANGED <<objects, ledger, accounts, faults>>

(* The row of the ledger, whose primary key refuses a second one.          *)
RecordMigration(p) ==
    /\ At(p, "apply") /\ proc[p].left = << >>
    /\ ledger' = ledger \cup {proc[p].version}
    /\ proc' = [proc EXCEPT ![p] =
                  IF @.version \in ledger THEN Down ELSE [@ EXCEPT !.pc = "migrate"]]
    /\ UNCHANGED <<objects, accounts, faults>>

(* Seed counts the users ...                                               *)
SeedCheck(p) ==
    /\ At(p, "migrate") /\ proc[p].pending = {}
    /\ Goto(p, IF users = {} /\ Admin # NoName THEN "user" ELSE "validate")
    /\ UNCHANGED <<objects, ledger, accounts, faults>>

(* ... and three statements, each of which does nothing when its row is    *)
(* there, make the administrator.                                          *)
SeedUser(p) ==
    /\ At(p, "user")
    /\ users' = users \cup {Admin}
    /\ weak' = weak \cup (IF Admin \notin users /\ p \in PublicSeed THEN {Admin} ELSE {})
    /\ Goto(p, "role")
    /\ UNCHANGED <<objects, ledger, roles, allowed, found, faults>>

SeedRole(p) ==
    /\ At(p, "role")
    /\ roles' = roles \cup {Admin}
    /\ Goto(p, "permission")
    /\ UNCHANGED <<objects, ledger, users, weak, allowed, found, faults>>

SeedPermission(p) ==
    /\ At(p, "permission")
    /\ allowed' = TRUE
    /\ Goto(p, "validate")
    /\ UNCHANGED <<objects, ledger, users, roles, weak, found, faults>>

(* The join of users and roles: an enabled administrator whose password is *)
(* the public one of old, or no password that could be compared.           *)
PublicAdmin == roles \cap weak # {}

(* A faulty ValidateAuthState, for the sensitivity checks: only the        *)
(* configured administrator is looked at.                                  *)
ValidateAuthStateOfAdmin(p) ==
    /\ At(p, "validate")
    /\ proc' = [proc EXCEPT ![p] =
                  IF p \in AuthEnabled /\ Admin \in roles \cap weak
                  THEN Down ELSE [@ EXCEPT !.pc = "serving"]]
    /\ UNCHANGED <<objects, ledger, accounts, faults>>

(* The last of the seed: with authentication, Open refuses such a database.*)
ValidateAuthState(p) ==
    /\ At(p, "validate")
    /\ proc' = [proc EXCEPT ![p] =
                  IF p \in AuthEnabled /\ PublicAdmin
                  THEN Down ELSE [@ EXCEPT !.pc = "serving"]]
    /\ UNCHANGED <<objects, ledger, accounts, faults>>

(* A process dies, or the database fails a statement of it.                *)
Fault(p) ==
    /\ ~At(p, "down") /\ faults < MaxFaults
    /\ faults' = faults + 1
    /\ proc' = [proc EXCEPT ![p] = Down]
    /\ UNCHANGED <<objects, ledger, accounts>>

-----------------------------------------------------------------------------
Step(p) ==
    \/ Boot(p) \/ Statement(p) \/ StatementFails(p) \/ BaseDone(p)
    \/ ReadLedger(p) \/ StartMigration(p) \/ RecordMigration(p)
    \/ SeedCheck(p) \/ SeedUser(p) \/ SeedRole(p) \/ SeedPermission(p)
    \/ ValidateAuthState(p)

Next == \E p \in Procs : Step(p) \/ Fault(p)

Spec == Init /\ [][Next]_vars

(* A process goes on, and is started again when it ends.                   *)
FairSpec == Spec /\ \A p \in Procs : WF_vars(Step(p))

-----------------------------------------------------------------------------
(***************************************************************************)
(* Properties                                                              *)
(***************************************************************************)

(* The ledger never names a migration that is not applied to its last      *)
(* statement, wherever a process died and whoever else was migrating: a    *)
(* version that it names is never tried again.  And it names them in order.*)
LedgerMeansApplied ==
    \A v \in ledger :
        /\ Made(Script[v]) \subseteq objects
        /\ \A w \in Versions : w < v => w \in ledger

(* Seed makes an administrator in a table without users and only there:    *)
(* users that were found are neither replaced nor added to, be they        *)
(* administrators or not.  The administrator it makes has its role unless  *)
(* the one who made it is still at it, or died over it.                    *)
Seeded ==
    /\ found # {} => users = found
    /\ found = {} /\ Admin # NoName =>
          /\ users = {Admin}
          /\ Admin \in roles \/ faults > 0 \/ \E q \in Procs : At(q, "role")

(* A process that serves has the whole schema under it, also when another  *)
(* one made it, and the users that the seed promises.  If it runs with     *)
(* authentication, no administrator has the public credential: but one     *)
(* that a process without authentication seeded, which may get its role    *)
(* after it was looked for.                                                *)
ServingMeansReady ==
    \A p \in Procs : At(p, "serving") =>
        /\ Made(BaseScript) \subseteq objects
        /\ \A v \in Versions : v \in ledger /\ Made(Script[v]) \subseteq objects
        /\ Seeded
        /\ p \in AuthEnabled /\ PublicAdmin => found = {} /\ PublicSeed # {}

(* Was a statement that cannot be run twice run, and its version never     *)
(* recorded?  So it is when a process dies between the ALTER TABLE of      *)
(* 004_instance_sweep.mysql.sql, which commits by itself, and the INSERT   *)
(* into the ledger: every later boot fails at the ALTER TABLE.             *)
HalfMigrated ==
    \E v \in Versions \ ledger : \E i \in DOMAIN Script[v] :
        ~Script[v][i].guarded /\ Script[v][i].object \in objects

(* "Safe to call on every boot" (runMigrations), up to that: once nothing  *)
(* dies any more every process comes to serve, whatever an earlier one     *)
(* left half done and although one that loses a race for a row of the      *)
(* ledger ends and is started again.  One that runs with authentication    *)
(* comes to it unless an administrator has the public credential.          *)
ServesUnlessRefused ==
    <>[](HalfMigrated \/ \A p \in Procs :
            At(p, "serving") \/ (p \in AuthEnabled /\ PublicAdmin))
=============================================================================

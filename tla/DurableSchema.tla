---------------------------- MODULE DurableSchema ----------------------------
(***************************************************************************)
(* Opening the database file of the durable stores and bringing its schema *)
(* up to date (engine::persist, Db::open and migrate).  The wallet store   *)
(* and the event log open a connection each, and nothing keeps two of them *)
(* from opening one file at the same time.  A process is of one build,     *)
(* which knows the first so many migrations; the next process may be of a  *)
(* newer or an older build, and either may end at any step.                *)
(*                                                                         *)
(* SQLite is external: a transaction takes effect as a whole or not at     *)
(* all, and two of them one after the other.                               *)
(***************************************************************************)
EXTENDS Naturals

CONSTANTS
    Opener,        \* who opens the file: the wallet store, the event log
    Newest,        \* MIGRATIONS.len() of the newest build
    MaxProcesses   \* bound: processes

ASSUME NewestAssumption == Newest \in Nat \ {0}

VARIABLES
    version,      \* the row of schema_version, 0 when there is none
    applied,      \* how often the statements of each migration have run
    build,        \* MIGRATIONS.len() of the running process, 0 when none runs
    at,           \* where each opener's Db::init stands
    todo,         \* the next migration of its loop
    overlapped,   \* history: have two openers migrated at the same time
    processes     \* processes so far

schemaVars == <<version, applied, build, at, todo, overlapped, processes>>

Migrations == 1..Newest

SchemaInit ==
    /\ version = 0 /\ applied = [v \in Migrations |-> 0]
    /\ build = 0 /\ processes = 0
    /\ at = [o \in Opener |-> "closed"] /\ todo = [o \in Opener |-> 1]
    /\ overlapped = FALSE

-----------------------------------------------------------------------------
BeginProcess(b) ==
    /\ build = 0 /\ processes < MaxProcesses
    /\ build' = b /\ processes' = processes + 1
    /\ UNCHANGED <<version, applied, at, todo, overlapped>>

(* The pragmas and CREATE TABLE IF NOT EXISTS schema_version.              *)
OpenFile(o) ==
    /\ build # 0 /\ at[o] = "closed"
    /\ at' = [at EXCEPT ![o] = "select"]
    /\ UNCHANGED <<version, applied, build, todo, overlapped, processes>>

(* Mutant: the migration the file already has is run once more.            *)
FirstPending_Again(current) == IF current = 0 THEN 1 ELSE current

(* The loop passes over what the file already has.                         *)
FirstPending(current) == current + 1

(* SELECT version: a newer file is refused, a current one is open.         *)
ReadVersion(o) ==
    /\ at[o] = "select"
    /\ \/ /\ version > build
          /\ at' = [at EXCEPT ![o] = "closed"]
          /\ UNCHANGED <<todo, overlapped>>
       \/ /\ version <= build /\ FirstPending(version) > build
          /\ at' = [at EXCEPT ![o] = "open"]
          /\ UNCHANGED <<todo, overlapped>>
       \/ /\ version <= build /\ FirstPending(version) <= build
          /\ at'   = [at EXCEPT ![o] = "migrate"]
          /\ todo' = [todo EXCEPT ![o] = FirstPending(version)]
          /\ overlapped' = (overlapped \/ \E p \in Opener : at[p] = "migrate")
    /\ UNCHANGED <<version, applied, build, processes>>

(* One transaction: the migration's statements and its number.             *)
RunMigration(o) ==
    /\ at[o] = "migrate"
    /\ applied' = [applied EXCEPT ![todo[o]] = @ + 1]
    /\ version' = todo[o]
    /\ IF todo[o] = build
       THEN at' = [at EXCEPT ![o] = "open"] /\ UNCHANGED todo
       ELSE todo' = [todo EXCEPT ![o] = @ + 1] /\ UNCHANGED at
    /\ UNCHANGED <<build, overlapped, processes>>

(* A statement of Db::init fails and the connection is dropped, or an open *)
(* one is.                                                                 *)
CloseFile(o) ==
    /\ at[o] # "closed"
    /\ at' = [at EXCEPT ![o] = "closed"]
    /\ UNCHANGED <<version, applied, build, todo, overlapped, processes>>

EndProcess ==
    /\ build # 0
    /\ build' = 0 /\ at' = [o \in Opener |-> "closed"]
    /\ UNCHANGED <<version, applied, todo, overlapped, processes>>

SchemaNext ==
    \/ \E b \in Migrations : BeginProcess(b)
    \/ \E o \in Opener : OpenFile(o) \/ ReadVersion(o) \/ RunMigration(o) \/ CloseFile(o)
    \/ EndProcess

SchemaSpec == SchemaInit /\ [][SchemaNext]_schemaVars

SchemaTypeOK ==
    /\ version \in 0..Newest /\ applied \in [Migrations -> Nat]
    /\ build \in 0..Newest
    /\ at \in [Opener -> {"closed", "select", "migrate", "open"}]
    /\ todo \in [Opener -> Migrations]
    /\ overlapped \in BOOLEAN /\ processes \in Nat

(* Whatever builds have opened the file, in whatever order, and wherever   *)
(* they were cut short: what the file says it has is there, and a store    *)
(* that is open has all the tables its build asks for.  Unless two openers *)
(* migrated at the same time, every migration ran exactly once, the        *)
(* version is the last of them ("the DB is never left with the schema      *)
(* upgraded but the version unrecorded"), and no build has a file open     *)
(* that a newer one upgraded.                                              *)
UpgradedOnce ==
    /\ \A v \in Migrations : v <= version => applied[v] > 0
    /\ \A o \in Opener, v \in Migrations : at[o] = "open" /\ v <= build => applied[v] > 0
    /\ ~overlapped =>
         /\ \A v \in Migrations : applied[v] = IF v <= version THEN 1 ELSE 0
         /\ \A o \in Opener : at[o] = "open" => version = build
=============================================================================

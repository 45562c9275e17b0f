-------------------------- MODULE SchemaMigrations --------------------------
(* tools/schema_migrations.py: a database is installed from, or adopted to,  *)
(* the baseline, then upgraded by the managed migrations of a checkout, each *)
(* in a transaction of its own that also writes its row of the ledger.       *)
(* Runners of different checkouts compete for an advisory lock and may be    *)
(* lost at any step; tables may be made by other means before.               *)
EXTENDS Integers, FiniteSets

CONSTANTS Checkouts,    \* releases of the repository that a runner may be of
          Runners,      \* processes of the tool
          MaxVersion,   \* bound: the versions are 1..MaxVersion, in their order
          Checksums,    \* of a file's bytes
          Managed,      \* Managed[o][v]: the checksum of o's file of version v
          Baseline,     \* Baseline[o]: the checksum of o's baseline.sql
          Compatible,   \* Compatible[o]: COMPATIBLE_BASELINE_CHECKSUMS
          NoFile, NoRunner

Versions == 1..MaxVersion
BaselineVersion == 0

ASSUME ManagedAssumption ==
  /\ MaxVersion \in Nat
  /\ Managed \in [Checkouts -> [Versions -> Checksums \cup {NoFile}]]
  /\ Baseline \in [Checkouts -> Checksums]
  /\ Compatible \in [Checkouts -> SUBSET Checksums]
  /\ NoFile \notin Checksums /\ NoRunner \notin Runners

VARIABLES tables,   \* the scripts that have made the public tables what they are
          ledger,   \* schema_migrations: version and checksum of each row
          lock,     \* who holds LOCK_KEY
          runner    \* the runs under way

migrationVars == <<tables, ledger, lock, runner>>

Script == [version : Versions \cup {BaselineVersion}, checksum : Checksums]
\* Tables nobody's baseline has made.
ByHand == [version |-> BaselineVersion, checksum |-> NoFile]

BaselineOf(o) == [version |-> BaselineVersion, checksum |-> Baseline[o]]

Run == [pc : {"wait", "analyze", "install", "adopt", "plan", "apply", "verify"},
        command : {"upgrade", "adopt-baseline"}, checkout : Checkouts]
NoRun == [pc |-> "idle"]

MigrationInit ==
  /\ tables \in {{}, {ByHand}} \cup {{BaselineOf(o)} : o \in Checkouts}
  /\ ledger = {} /\ lock = NoRunner
  /\ runner = [p \in Runners |-> NoRun]

-----------------------------------------------------------------------------
(* analyze_state                                                            *)

BaselineRows == {r \in ledger : r.version = BaselineVersion}
Applied      == {r.version : r \in ledger \ BaselineRows}
FileOf(o, v) == [version |-> v, checksum |-> Managed[o][v]]
FilesOf(o)   == {v \in Versions : Managed[o][v] # NoFile}
Pending(o)   == FilesOf(o) \ Applied

\* Faulty variant: any order will do.
AnyOrder(o) == TRUE

RecordedAsFiled(o) == \A r \in ledger \ BaselineRows :
  r.version \in FilesOf(o) /\ r = FileOf(o, r.version)

NoneSkipped(o) == \A v \in Pending(o), w \in Applied : w < v

BaselineKnown(o) ==
  /\ Cardinality(BaselineRows) = 1
  /\ \A r \in BaselineRows : r.checksum \in {Baseline[o]} \cup Compatible[o]

SchemaState(o) ==
  CASE ledger = {} /\ tables = {} -> "empty"
    [] ledger = {} /\ tables # {} -> "adoption_required"
    [] OTHER -> IF ~(BaselineKnown(o) /\ RecordedAsFiled(o) /\ NoneSkipped(o)) THEN "invalid"
                ELSE IF Pending(o) # {} THEN "pending" ELSE "current"

Upgradeable(o) == SchemaState(o) \in {"empty", "pending", "current"}

-----------------------------------------------------------------------------
(* run_upgrade and run_adopt_baseline                                       *)

AtStep(p, pc) == runner[p].pc = pc
Continue(p, pc) == runner' = [runner EXCEPT ![p].pc = pc]
Checkout(p) == runner[p].checkout

\* The connection closes, or finally releases the lock.
Leave(p) == /\ runner' = [runner EXCEPT ![p] = NoRun]
            /\ lock' = IF lock = p THEN NoRunner ELSE lock

StartRunner(p, command, o) ==
  /\ runner[p] = NoRun
  /\ runner' = [runner EXCEPT ![p] = [pc |-> "wait", command |-> command, checkout |-> o]]
  /\ UNCHANGED <<tables, ledger, lock>>

LockFree == lock = NoRunner

\* acquire_lock; a runner that waits too long gives up (LoseRunner).
AcquireLock(p) ==
  /\ AtStep(p, "wait") /\ LockFree
  /\ lock' = p /\ Continue(p, "analyze")
  /\ UNCHANGED <<tables, ledger>>

Analyze(p) ==
  /\ AtStep(p, "analyze")
  /\ LET s == SchemaState(Checkout(p)) IN
     \/ /\ runner[p].command = "upgrade" /\ Upgradeable(Checkout(p))
        /\ Continue(p, IF s = "empty" THEN "install" ELSE "plan")
     \/ /\ runner[p].command = "adopt-baseline" /\ s = "adoption_required"
        /\ Continue(p, "adopt")
  /\ UNCHANGED <<tables, ledger, lock>>

\* validate_schema_against_baseline: the tables are what the baseline makes.
Matches(o) == tables' = {BaselineOf(o)}

\* The baseline makes what is missing of its tables, and is taken back if they
\* are others then.
InstallBaseline(p) ==
  /\ AtStep(p, "install")
  /\ tables' = tables \cup {BaselineOf(Checkout(p))} /\ Matches(Checkout(p))
  /\ ledger' = ledger \cup {BaselineOf(Checkout(p))}
  /\ Continue(p, "plan")
  /\ UNCHANGED lock

AdoptBaseline(p) ==
  /\ AtStep(p, "adopt")
  /\ UNCHANGED tables /\ Matches(Checkout(p))
  /\ ledger' = ledger \cup {BaselineOf(Checkout(p))}
  /\ Continue(p, "verify")
  /\ UNCHANGED lock

\* apply_pending_managed_migrations analyzes again before it applies anything.
PlanMigrations(p) ==
  /\ AtStep(p, "plan") /\ Upgradeable(Checkout(p))
  /\ Continue(p, "apply")
  /\ UNCHANGED <<tables, ledger, lock>>

\* Faulty variant: the ledger is written later.
LeaveOut(r) == UNCHANGED ledger

WriteLedger(r) == r \notin ledger /\ ledger' = ledger \cup {r}

\* The next file in the order of versions, and its row, in one transaction.
ApplyMigration(p) ==
  /\ AtStep(p, "apply")
  /\ \E v \in Pending(Checkout(p)) :
       /\ \A w \in Pending(Checkout(p)) : v <= w
       /\ tables' = tables \cup {FileOf(Checkout(p), v)}
       /\ WriteLedger(FileOf(Checkout(p), v))
  /\ UNCHANGED <<lock, runner>>

EndMigrations(p) ==
  /\ AtStep(p, "apply") /\ Pending(Checkout(p)) = {}
  /\ Continue(p, "verify")
  /\ UNCHANGED <<tables, ledger, lock>>

\* The final analysis: the run is answered with it.
EndRun(p) ==
  /\ AtStep(p, "verify")
  /\ SchemaState(Checkout(p)) \in
       IF runner[p].command = "upgrade" THEN {"current"} ELSE {"current", "pending"}
  /\ Leave(p)
  /\ UNCHANGED <<tables, ledger>>

\* A state that does not allow the command, SQL that fails, a validation that
\* fails, or a process that ends: the transaction under way is rolled back.
LoseRunner(p) ==
  /\ runner[p] # NoRun
  /\ Leave(p)
  /\ UNCHANGED <<tables, ledger>>

MigrationNext == \E p \in Runners :
  \/ \E command \in {"upgrade", "adopt-baseline"}, o \in Checkouts : StartRunner(p, command, o)
  \/ AcquireLock(p) \/ Analyze(p) \/ InstallBaseline(p) \/ AdoptBaseline(p)
  \/ PlanMigrations(p) \/ ApplyMigration(p) \/ EndMigrations(p) \/ EndRun(p)
  \/ LoseRunner(p)

MigrationSpec == MigrationInit /\ [][MigrationNext]_migrationVars

-----------------------------------------------------------------------------
(* Properties.                                                              *)

\* Scripts, rows and runs are what their columns allow.
MigrationTypeOK ==
  /\ tables \subseteq Script \cup {ByHand} /\ ledger \subseteq Script
  /\ lock \in Runners \cup {NoRunner}
  /\ runner \in [Runners -> Run \cup {NoRun}]

\* Wherever runs are lost and whichever checkouts they are of, the ledger of an
\* enrolled database lists exactly the scripts that have run on it, one
\* baseline among them.
LedgerTellsTables ==
  ledger # {} => tables = ledger /\ Cardinality(BaselineRows) = 1

\* A migration is never run on a database that a later one has changed before,
\* though the files of two checkouts may interleave.
MigrationsRunInOrder ==
  [][\A s \in tables' \ tables : \A r \in ledger : r.version < s.version]_migrationVars

\* The two are inductive together with what the lock guarantees its holder: a
\* database it found empty, or not enrolled, still is; one it has planned for
\* is enrolled, and every file still to be run comes after all that have.
Locked == \A p \in Runners : runner[p].pc \notin {"idle", "wait"} => lock = p

HolderKnows == \A p \in Runners :
  /\ AtStep(p, "install") => tables = {} /\ ledger = {}
  /\ AtStep(p, "adopt") => ledger = {}
  /\ AtStep(p, "plan") \/ AtStep(p, "apply") => ledger # {}
  /\ AtStep(p, "apply") => NoneSkipped(Checkout(p))

MigrationInv == MigrationTypeOK /\ LedgerTellsTables /\ Locked /\ HolderKnows
=============================================================================

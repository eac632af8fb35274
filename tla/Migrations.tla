----------------------------- MODULE Migrations -----------------------------
(***************************************************************************)
(* PostgresControlPlaneRepository.init: every gateway and every worker     *)
(* brings the tables of the control plane up to date before it serves, all *)
(* of them at once and without a lock between them.                        *)
(*                                                                         *)
(* Postgres is external: CREATE TABLE IF NOT EXISTS looks for the table,   *)
(* and fails when another transaction has created it since it looked.      *)
(***************************************************************************)
EXTENDS Naturals

CONSTANTS
    Processes,   \* the gateways and the workers
    Failing      \* those that may die

\* CONTROL_PLANE_MIGRATIONS
Versions == 1..3

VARIABLES
    ledger,     \* whether the table control_plane_migrations exists
    recorded,   \* its rows: the versions recorded as applied
    tables,     \* the versions whose tables exist
    life,       \* per process, what it does next
    applied,    \* per process, the versions that it need not apply
    saw         \* per process, whether the last table it looked for was there

migrationVars == <<ledger, recorded, tables, life, applied, saw>>

MigrationTypeOK ==
    /\ ledger \in BOOLEAN
    /\ recorded \subseteq Versions
    /\ tables \subseteq Versions
    /\ life \in [Processes ->
                    {"down", "create", "read", "migrate", "commit", "serving"}]
    /\ applied \in [Processes -> SUBSET Versions]
    /\ saw \in [Processes -> BOOLEAN]

\* A new database.
MigrationInit ==
    /\ ledger = FALSE
    /\ recorded = {}
    /\ tables = {}
    /\ life = [p \in Processes |-> "down"]
    /\ applied = [p \in Processes |-> {}]
    /\ saw = [p \in Processes |-> FALSE]

\* p begins anew, with nothing in its memory.
Down(p) ==
    /\ life' = [life EXCEPT ![p] = "down"]
    /\ applied' = [applied EXCEPT ![p] = {}]
    /\ saw' = [saw EXCEPT ![p] = FALSE]

\* Fault variant of LookForLedger: CREATE TABLE without IF NOT EXISTS.
LookNowhere(p) ==
    /\ life[p] = "down"
    /\ life' = [life EXCEPT ![p] = "create"]
    /\ UNCHANGED <<ledger, recorded, tables, applied, saw>>

\* The container is started, or started again whenever it ended, and looks first.
LookForLedger(p) ==
    /\ life[p] = "down"
    /\ saw' = [saw EXCEPT ![p] = ledger]
    /\ life' = [life EXCEPT ![p] = "create"]
    /\ UNCHANGED <<ledger, recorded, tables, applied>>

CreateLedger(p) ==
    /\ life[p] = "create"
    /\ IF ledger /\ ~saw[p]
       THEN Down(p)
       ELSE life' = [life EXCEPT ![p] = "read"] /\ UNCHANGED <<applied, saw>>
    /\ ledger' = TRUE
    /\ UNCHANGED <<recorded, tables>>

ReadApplied(p) ==
    /\ life[p] = "read"
    /\ applied' = [applied EXCEPT ![p] = recorded]
    /\ life' = [life EXCEPT ![p] = "migrate"]
    /\ UNCHANGED <<ledger, recorded, tables, saw>>

\* The loop over the versions in their order.
NextVersions(p) ==
    {v \in Versions \ applied[p] : \A w \in Versions \ applied[p] : v <= w}

\* A transaction begins, and its first CREATE TABLE looks for the table.
BeginVersion(p) ==
    /\ life[p] = "migrate"
    /\ \E v \in NextVersions(p) : saw' = [saw EXCEPT ![p] = v \in tables]
    /\ life' = [life EXCEPT ![p] = "commit"]
    /\ UNCHANGED <<ledger, recorded, tables, applied>>

\* Fault variant of CommitVersion: no transaction, and the row first.
RecordThenCreate(p) ==
    /\ life[p] = "commit"
    /\ \E v \in NextVersions(p) :
          IF v \notin recorded
          THEN recorded' = recorded \cup {v} /\ UNCHANGED <<tables, life, applied, saw>>
          ELSE /\ tables' = tables \cup {v}
               /\ applied' = [applied EXCEPT ![p] = @ \cup {v}]
               /\ life' = [life EXCEPT ![p] = "migrate"]
               /\ UNCHANGED <<recorded, saw>>
    /\ UNCHANGED ledger

\* The transaction commits the tables of the version with the row that records it, ON
\* CONFLICT DO NOTHING; or it failed because another one has committed them meanwhile.
CommitVersion(p) ==
    /\ life[p] = "commit"
    /\ \E v \in NextVersions(p) :
          IF v \in tables /\ ~saw[p]
          THEN Down(p) /\ UNCHANGED <<recorded, tables>>
          ELSE /\ tables' = tables \cup {v}
               /\ recorded' = recorded \cup {v}
               /\ applied' = [applied EXCEPT ![p] = @ \cup {v}]
               /\ life' = [life EXCEPT ![p] = "migrate"]
               /\ UNCHANGED saw
    /\ UNCHANGED ledger

Serve(p) ==
    /\ life[p] = "migrate"
    /\ applied[p] = Versions
    /\ life' = [life EXCEPT ![p] = "serving"]
    /\ saw' = [saw EXCEPT ![p] = FALSE]
    /\ UNCHANGED <<ledger, recorded, tables, applied>>

Crash(p) ==
    /\ p \in Failing
    /\ life[p] # "down"
    /\ Down(p)
    /\ UNCHANGED <<ledger, recorded, tables>>

Starting(p) ==
    \/ LookForLedger(p) \/ CreateLedger(p) \/ ReadApplied(p)
    \/ BeginVersion(p) \/ CommitVersion(p) \/ Serve(p)

MigrationNext == \E p \in Processes : Starting(p) \/ Crash(p)

MigrationSpec == MigrationInit /\ [][MigrationNext]_migrationVars

-----------------------------------------------------------------------------

\* Whoever serves finds the tables of every version, and no version is recorded whose
\* tables are not there, however the starts and the crashes fell together.
ServingHasTables ==
    /\ recorded \subseteq tables
    /\ \A p \in Processes : life[p] = "serving" => tables = Versions

\* A process that stops dying serves in the end, whatever the others do: a start that
\* failed because another was faster succeeds when it is tried again.
StartsSettle ==
    \A p \in Processes : <>[][~Crash(p)]_migrationVars => <>[](life[p] = "serving")

=============================================================================

-------------------------- MODULE MigrationsProofs --------------------------
(***************************************************************************)
(* Theorems about Migrations, for any processes, any of which may die.     *)
(***************************************************************************)
EXTENDS Migrations, TLAPS

\* What a process need not apply is recorded, and what is recorded has its tables: the
\* first is a stale reading of a set that only grows.
AppliedOK ==
    /\ recorded \subseteq tables
    /\ \A p \in Processes : applied[p] \subseteq recorded
    /\ \A p \in Processes : life[p] = "serving" => applied[p] = Versions

MigrationInv == MigrationTypeOK /\ AppliedOK

LEMMA MigrationInvInit == MigrationInit => MigrationInv
BY DEF MigrationInit, MigrationInv, MigrationTypeOK, AppliedOK

\* A process that begins anew relies on nothing.
LEMMA DownKeeps ==
    ASSUME MigrationInv, NEW p \in Processes, Down(p), UNCHANGED <<recorded, tables>>,
           ledger' \in BOOLEAN
    PROVE  MigrationInv'
<1>1. MigrationTypeOK'
  BY DEF MigrationInv, MigrationTypeOK, Down
<1>2. AppliedOK'
  BY DEF MigrationInv, MigrationTypeOK, AppliedOK, Down
<1> QED
  BY <1>1, <1>2 DEF MigrationInv

LEMMA MigrationStep ==
    ASSUME MigrationInv, MigrationNext
    PROVE  MigrationInv'
<1> SUFFICES ASSUME NEW p \in Processes, Starting(p) \/ Crash(p)
             PROVE  MigrationInv'
  BY DEF MigrationNext
<1> USE DEF MigrationInv
<1>1. CASE LookForLedger(p)
  BY <1>1 DEF LookForLedger, MigrationTypeOK, AppliedOK
<1>2. CASE CreateLedger(p)
  <2>1. CASE Down(p)
    BY <1>2, <2>1, DownKeeps DEF CreateLedger
  <2>2. CASE ~Down(p)
    BY <1>2, <2>2 DEF CreateLedger, MigrationTypeOK, AppliedOK
  <2> QED
    BY <2>1, <2>2
<1>3. CASE ReadApplied(p)
  BY <1>3 DEF ReadApplied, MigrationTypeOK, AppliedOK
<1>4. CASE BeginVersion(p)
  BY <1>4 DEF BeginVersion, MigrationTypeOK, AppliedOK
<1>5. CASE CommitVersion(p)
  <2> PICK v \in NextVersions(p) :
        IF v \in tables /\ ~saw[p]
        THEN Down(p) /\ UNCHANGED <<recorded, tables>>
        ELSE /\ tables' = tables \cup {v}
             /\ recorded' = recorded \cup {v}
             /\ applied' = [applied EXCEPT ![p] = @ \cup {v}]
             /\ life' = [life EXCEPT ![p] = "migrate"]
             /\ UNCHANGED saw
    BY <1>5 DEF CommitVersion
  <2>1. v \in Versions
    BY DEF NextVersions
  <2>2. CASE v \in tables /\ ~saw[p]
    BY <1>5, <2>2, DownKeeps DEF CommitVersion, MigrationTypeOK
  <2>3. CASE ~(v \in tables /\ ~saw[p])
    <3>1. MigrationTypeOK'
      BY <1>5, <2>1, <2>3 DEF CommitVersion, MigrationTypeOK
    <3>2. AppliedOK'
      BY <1>5, <2>1, <2>3 DEF CommitVersion, MigrationTypeOK, AppliedOK
    <3> QED
      BY <3>1, <3>2
  <2> QED
    BY <2>2, <2>3
<1>6. CASE Serve(p)
  BY <1>6 DEF Serve, MigrationTypeOK, AppliedOK
<1>7. CASE Crash(p)
  BY <1>7, DownKeeps DEF Crash, MigrationTypeOK
<1> QED
  BY <1>1, <1>2, <1>3, <1>4, <1>5, <1>6, <1>7 DEF Starting

LEMMA MigrationInvStutter ==
    ASSUME MigrationInv, UNCHANGED migrationVars
    PROVE  MigrationInv'
BY DEF MigrationInv, MigrationTypeOK, AppliedOK, migrationVars

LEMMA MigrationInvServes == MigrationInv => ServingHasTables
BY DEF MigrationInv, MigrationTypeOK, AppliedOK, ServingHasTables

\* However many processes start, die and start again: whoever serves has the tables of
\* every version, though none of them waits for another.
THEOREM NobodyServesWithoutTables == MigrationSpec => []ServingHasTables
<1>1. MigrationInit => MigrationInv
  BY MigrationInvInit
<1>2. MigrationInv /\ [MigrationNext]_migrationVars => MigrationInv'
  BY MigrationStep, MigrationInvStutter
<1>3. MigrationInv => ServingHasTables
  BY MigrationInvServes
<1> QED
  BY <1>1, <1>2, <1>3, PTL DEF MigrationSpec

=============================================================================

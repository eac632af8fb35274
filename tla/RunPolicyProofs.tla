--------------------------- MODULE RunPolicyProofs ---------------------------
(***************************************************************************)
(* Theorems about RunLifecycle where heartbeats are in time: no worker     *)
(* that has a run misses so many in a row that the run looks stale. They   *)
(* hold for any sets of runs, stray entries and workers, any of which may  *)
(* fail, and with cancel requests unless a theorem says otherwise.         *)
(***************************************************************************)
EXTENDS RunLifecycleProofs

USE Environment DEF Messages

\* A run that was handed out and is in no worker's hands.
Left(r) == Handed(r) /\ ~Held(r)

\* Nobody gets such a run back.
LEMMA LeftStays ==
    ASSUME TypeInv, DispatchOK, [Next]_vars, NEW r \in Runs, Left(r)
    PROVE  Left(r)'
<1>1. Handed(r) /\ Handed(r)'
  BY HandedStays DEF Left
<1>2. \A w \in Workers : msg'[w] # r
  BY <1>1, Takes DEF Left, Held
<1>3. QED
  BY <1>1, <1>2 DEF Left, Held

\* A run looks stale only after the clock says so.
LEMMA StaleMoves ==
    ASSUME TypeInv, [Next]_vars, NEW r \in Runs, stale'[r]
    PROVE  stale[r] \/ Age(r)
<1> USE DEF TypeInv, TypeOK, StoreTypes, storeVars
<1>1. CASE UNCHANGED stale
  BY <1>1
<1>2. ASSUME NEW q \in Runs, Age(q) PROVE stale[r] \/ Age(r)
  BY <1>2 DEF Age
<1>3. ASSUME NEW w \in Workers, Write(w) \/ Heartbeat(w) PROVE stale[r]
  BY <1>3 DEF Write, Heartbeat
<1>4. QED
  BY <1>1, <1>2, <1>3
     DEF Next, vars, Gateway, CreateRun, LogQueued, Publish, CancelRead, CancelWrite,
         CancelLog, PublishStray, Consumer, Failure, Sweep, MarkLost, LogLost, Read,
         ReadNothing, Lookup, DeadLetter, CancelCheck, CancelChoose, Check, Log, Execute,
         PostCheck, RecordArtifacts, RecordReply, StopHeartbeat, Ack, StoreFault, LoseRead,
         Crash, Interrupt

\* The victim of a sweeper is a run of its snapshot that it has just marked lost.
LEMMA VictimMoves ==
    ASSUME TypeInv, [Next]_vars, NEW w \in Workers
    PROVE  \/ victim'[w] \in {victim[w], None}
           \/ MarkLost(w) /\ victim'[w] \in swept[w] /\ status'[victim'[w]] = "lost"
<1> USE DEF TypeInv, TypeOK, WorkerTypes, StoreTypes, sweepVars
<1>1. CASE UNCHANGED victim
  BY <1>1
<1>2. ASSUME NEW v \in Workers, Raise(v) \/ Crash(v) \/ LogLost(v)
      PROVE  victim'[w] \in {victim[w], None}
  BY <1>2 DEF Raise, End, Crash, LogLost
<1>3. ASSUME NEW v \in Workers, MarkLost(v)
      PROVE  \/ victim'[w] \in {victim[w], None}
             \/ MarkLost(w) /\ victim'[w] \in swept[w] /\ status'[victim'[w]] = "lost"
  <2>1. CASE v # w
    BY <1>3, <2>1 DEF MarkLost
  <2>2. CASE v = w
    <3>1. PICK r \in swept[w] : /\ status' = [status EXCEPT ![r] = "lost"]
                               /\ victim' = [victim EXCEPT ![w] = r]
      BY <1>3, <2>2 DEF MarkLost
    <3>2. QED
      BY <1>3, <2>2, <3>1
  <2>3. QED
    BY <2>1, <2>2
<1>4. QED
  BY <1>1, <1>2, <1>3
     DEF Next, vars, Gateway, CreateRun, LogQueued, Publish, CancelRead, CancelWrite,
         CancelLog, Age, PublishStray, Consumer, Heartbeat, Failure, Sweep, Read,
         ReadNothing, Lookup, DeadLetter, CancelCheck, CancelChoose, Check, Write, Log,
         Execute, PostCheck, RecordArtifacts, RecordReply, StopHeartbeat, Ack, StoreFault,
         LoseRead, Interrupt

-----------------------------------------------------------------------------
\* A run in hand looks stale only before its start: later its worker heartbeats.
Beats(w) ==
    msg[w] \in Runs /\ stale[msg[w]] =>
        /\ ctx[w] = "pre" /\ status[msg[w]] \notin HEARTBEAT_RUN_STATUSES
        /\ ~(pc[w] = "log" /\ goal[w] = "starting")

\* Before its start a run waits, or its cancellation was asked for.
EntryPc == {"lookup", "cancelCheck", "cancelRead", "check", "write"}

Enters(w) ==
    ctx[w] = "pre" /\ pc[w] \in EntryPc /\ msg[w] \in Runs =>
        /\ status[msg[w]] \in {"queued", "cancel_requested"}
        /\ pc[w] = "cancelRead" => status[msg[w]] = "cancel_requested"
        /\ pc[w] \in {"check", "write"} => goal[w] # "cancelling"

\* What a worker is about to write is allowed, or a cancel request came in between; what
\* it has written is still there, unless one did.
Changes(w) ==
    /\ pc[w] = "write" =>
          \/ status[msg[w]] = "cancel_requested"
          \/ IsValidTransition(status[msg[w]], goal[w])
    /\ pc[w] = "log" => msg[w] \in Cancellable \/ status[msg[w]] = goal[w]

Care(w) == Beats(w) /\ Enters(w) /\ Changes(w)

CareOK == \A w \in Workers : Care(w)

\* A sweeper has in its snapshot only runs that were left, and so are those marked lost.
Sweeps(w) ==
    /\ \A r \in swept[w] :
          Left(r) /\ status[r] \in HEARTBEAT_RUN_STATUSES \cup {"lost", "cancel_requested"}
    /\ \A r \in Uncancelled : victim[w] = r => Left(r) /\ status[r] = "lost"

SweepOK == \A w \in Workers : Sweeps(w)

\* A run no worker has had is not marked by one, and a lost run was left.
RowsOK == \A r \in Runs :
    /\ Handed(r) \/ status[r] \in {"none", "queued", "cancel_requested"}
    /\ status[r] = "lost" => Left(r)

TimelyOK == CareOK /\ SweepOK /\ RowsOK

\* While a worker has a run, nobody else writes its status but the owner's cancel request.
LEMMA HeldStatus ==
    ASSUME TypeInv, DispatchOK, UnaskedOK, TimelyOK, [Next]_vars,
           NEW w \in Workers, msg[w] \in Runs, ~Write(w)
    PROVE  \/ status'[msg[w]] = status[msg[w]]
           \/ status'[msg[w]] = "cancel_requested" /\ msg[w] \in Cancellable
<1> DEFINE r == msg[w]
<1>1. ~CreateRun(r)
  BY HeldIsHanded, HandedIsPublished DEF CreateRun
<1>2. CancelWrite(r) => r \in Cancellable
  BY DEF CancelWrite, UnaskedOK, Unasked, Uncancelled
<1>3. \A v \in Workers : r \notin swept[v]
  BY DEF TimelyOK, SweepOK, Sweeps, Left, Held
<1>4. \A v \in Workers : msg[v] = r => v = w
  BY DEF DispatchOK, HoldOK
<1>5. QED
  BY <1>1, <1>2, <1>3, <1>4, StatusMoves

\* In time, its run does not go stale either.
LEMMA HeldStale ==
    ASSUME ~LateHeartbeats, TypeInv, [Next]_vars, NEW w \in Workers, msg[w] \in Runs,
           stale'[msg[w]]
    PROVE  stale[msg[w]]
BY StaleMoves DEF Age

\* Whatever the others do, a worker that does not move stays as careful as it was.
LEMMA CareFrame ==
    ASSUME ~LateHeartbeats, TypeInv, DispatchOK, UnaskedOK, TimelyOK, [Next]_vars,
           NEW v \in Workers,
           pc'[v] = pc[v], ctx'[v] = ctx[v], goal'[v] = goal[v], msg'[v] = msg[v]
    PROVE  Care(v)'
<1>0. Care(v) /\ Job(v)
  BY DEF TimelyOK, CareOK, TypeInv, JobOK
<1>1. CASE msg[v] \notin Runs
  BY <1>0, <1>1 DEF Care, Beats, Enters, Changes, Job, TryPc, StorePc
<1>2. CASE msg[v] \in Runs
  <2>1. ~Write(v)
    BY DEF Write, Aim, Goto, TypeInv, TypeOK, WorkerTypes
  <2>2. \/ status'[msg[v]] = status[msg[v]]
        \/ status'[msg[v]] = "cancel_requested" /\ msg[v] \in Cancellable
    BY <1>2, <2>1, HeldStatus
  <2>3. stale'[msg[v]] => stale[msg[v]]
    BY <1>2, HeldStale
  <2>4. QED
    BY <1>0, <1>2, <2>2, <2>3 DEF Care, Beats, Enters, Changes, HEARTBEAT_RUN_STATUSES
<1>3. QED
  BY <1>1, <1>2

\* An exception leaves the worker as careful as it was.
LEMMA RaiseCare ==
    ASSUME TypeInv, NEW w \in Workers, Care(w), Raise(w), UNCHANGED <<status, stale>>
    PROVE  Care(w)'
<1> USE DEF TypeInv, TypeOK, WorkerTypes, Goto, Aim, Care, Beats, Enters, Changes, EntryPc
<1>1. CASE End(w, "dead")
  BY <1>1 DEF End
<1>2. CASE ctx[w] = "body" /\ ctx' = [ctx EXCEPT ![w] = "handler"] /\ Aim(w, "failed")
           /\ UNCHANGED msg
  BY <1>2
<1>3. CASE ctx[w] = "handler" /\ ctx' = [ctx EXCEPT ![w] = "raise"]
           /\ Goto(w, "finally") /\ UNCHANGED <<msg, goal>>
  BY <1>3
<1>4. QED
  BY <1>1, <1>2, <1>3 DEF Raise

\* So do a refused write, a crash, a SIGTERM and a lost read.
LEMMA CareFailure ==
    ASSUME TypeInv, NEW w \in Workers, Care(w), Failure(w)
    PROVE  Care(w)'
<1> USE DEF TypeInv, TypeOK, WorkerTypes, Goto, storeVars, streamVars, Care, Beats, Enters,
            Changes, EntryPc
<1>1. CASE StoreFault(w)
  BY <1>1, RaiseCare DEF StoreFault
<1>2. CASE Crash(w)
  BY <1>2 DEF Crash, End
<1>3. CASE Interrupt(w)
  BY <1>3 DEF Interrupt
<1>4. CASE LoseRead(w)
  BY <1>4 DEF LoseRead
<1>5. QED
  BY <1>1, <1>2, <1>3, <1>4 DEF Failure

\* And so does every step of the code of its loop.
LEMMA CareConsumer ==
    ASSUME TypeInv, DispatchOK, RowsOK, [Next]_vars, NEW w \in Workers, Care(w), Consumer(w)
    PROVE  Care(w)'
<1> USE DEF TypeInv, TypeOK, WorkerTypes, Goto, Aim, storeVars, streamVars, Care, Beats,
            Enters, Changes, EntryPc
<1>0. Job(w)
  BY DEF JobOK
<1>1. CASE Sweep(w) \/ MarkLost(w) \/ LogLost(w) \/ ReadNothing(w)
  <2>1. msg'[w] = None /\ pc'[w] \in LoopPc
    BY <1>0, <1>1 DEF Sweep, MarkLost, LogLost, ReadNothing, Job, LoopPc
  <2>2. QED
    BY <2>1 DEF LoopPc
<1>2. CASE Read(w)
  <2>0. PICK m \in Messages : m = stream[delivered + 1]
    BY <1>2 DEF Read, StreamTypes
  <2>1. msg'[w] = m /\ m # msg[w] /\ UNCHANGED <<status, stale>>
    BY <1>0, <1>2, <2>0 DEF Read, Job, LoopPc
  <2>2. ~Handed(m) /\ pc'[w] = "lookup" /\ ctx'[w] = "pre"
    BY <2>1, Takes
  <2>3. m \in Runs => status[m] \in {"queued", "cancel_requested"}
    <3>1. m \in Runs => submit[m] = "published"
      BY <2>0, <1>2 DEF Read, DispatchOK, StreamOK, StreamTypes
    <3>2. m \in Runs => status[m] # "none"
      BY <3>1 DEF DispatchOK, RowOK
    <3>3. QED
      BY <2>2, <3>2 DEF RowsOK
  <2>4. QED
    BY <2>1, <2>2, <2>3 DEF HEARTBEAT_RUN_STATUSES
<1>3. CASE Lookup(w)
  BY <1>0, <1>3 DEF Lookup
<1>4. CASE DeadLetter(w)
  BY <1>0, <1>4 DEF DeadLetter
<1>5. CASE CancelCheck(w)
  BY <1>0, <1>5 DEF CancelCheck, CancelSeen
<1>6. CASE CancelChoose(w)
  BY <1>0, <1>6 DEF CancelChoose
<1>7. CASE Check(w)
  <2>1. CASE Raise(w)
    BY <1>7, <2>1, RaiseCare DEF Check
  <2>2. CASE IsValidTransition(status[msg[w]], goal[w]) /\ ~Raise(w)
    BY <1>7, <2>2 DEF Check
  <2>3. QED
    BY <1>7, <2>1, <2>2 DEF Check
<1>8. CASE Write(w)
  <2>1. msg[w] \in Runs /\ goal[w] \in Target
    BY <1>0, <1>8 DEF Write, Job, TryPc, StorePc
  <2>2. status'[msg[w]] = goal[w] /\ UNCHANGED <<msg, ctx>>
    BY <1>8, <2>1 DEF Write, StoreTypes
  <2>3. stale'[msg[w]] => stale[msg[w]] /\ goal[w] # "starting"
    BY <1>8, <2>1 DEF Write, StoreTypes
  <2>4. CASE goal[w] = "cancelling"
    <3>1. pc'[w] = "check" /\ goal'[w] = "canceled" /\ ctx[w] # "pre"
      BY <1>8, <2>1, <2>4 DEF Write
    <3>2. QED
      BY <2>1, <2>2, <2>3, <3>1
  <2>5. CASE goal[w] # "cancelling"
    <3>1. pc'[w] = "log" /\ goal'[w] = goal[w]
      BY <1>8, <2>5 DEF Write
    <3>2. ctx[w] = "pre" => goal[w] \notin {"running", "succeeded"}
      BY <1>0, <1>8 DEF Write, Job
    <3>3. QED
      BY <2>1, <2>2, <2>3, <2>5, <3>1, <3>2 DEF HEARTBEAT_RUN_STATUSES, Target, Outcomes
  <2>6. QED
    BY <2>4, <2>5
<1>9. CASE Log(w)
  <2>1. UNCHANGED <<msg, status, stale>>
    BY <1>9 DEF Log
  <2>2. CASE goal[w] = "starting"
    <3>1. pc'[w] = "check" /\ goal'[w] = "running" /\ ctx'[w] = "body"
      BY <1>9, <2>2 DEF Log, Outcomes
    <3>2. QED
      BY <1>9, <2>1, <2>2, <3>1 DEF Log
  <2>3. CASE goal[w] = "running"
    <3>1. pc'[w] = "execute" /\ UNCHANGED <<goal, ctx>>
      BY <1>9, <2>3 DEF Log, Outcomes
    <3>2. QED
      BY <2>1, <3>1
  <2>4. CASE goal[w] \in Outcomes
    <3>1. pc'[w] \in {"ack", "finally"} /\ UNCHANGED <<goal, ctx>>
      BY <1>9, <2>4 DEF Log, Outcomes
    <3>2. QED
      BY <2>1, <3>1
  <2>5. QED
    BY <1>9, <2>2, <2>3, <2>4 DEF Log
<1>10. CASE Execute(w)
  BY <1>0, <1>10 DEF Execute, Job
<1>11. CASE PostCheck(w)
  BY <1>0, <1>11 DEF PostCheck, Job
<1>12. CASE RecordArtifacts(w)
  BY <1>0, <1>12 DEF RecordArtifacts, Job
<1>13. CASE RecordReply(w)
  BY <1>0, <1>13 DEF RecordReply, Job
<1>14. CASE StopHeartbeat(w)
  BY <1>0, <1>14 DEF StopHeartbeat, Job
<1>15. CASE Ack(w)
  BY <1>15 DEF Ack
<1>16. QED
  BY <1>1, <1>2, <1>3, <1>4, <1>5, <1>6, <1>7, <1>8, <1>9, <1>10, <1>11, <1>12, <1>13,
     <1>14, <1>15 DEF Consumer

\* Every step keeps every worker careful ...
LEMMA CareStep ==
    ASSUME ~LateHeartbeats, TypeInv, DispatchOK, UnaskedOK, TimelyOK, [Next]_vars
    PROVE  CareOK'
BY Movers, CareFrame, CareConsumer, CareFailure DEF CareOK, TimelyOK

\* ... every snapshot of a sweeper free of runs in hand ...
LEMMA SweepStep ==
    ASSUME TypeInv, DispatchOK, UnaskedOK, TimelyOK, [Next]_vars
    PROVE  SweepOK'
<1> SUFFICES ASSUME NEW w \in Workers PROVE Sweeps(w)'
  BY DEF SweepOK
<1> USE DEF TypeInv, TypeOK, WorkerTypes
<1>0. Sweeps(w) /\ \A r \in swept[w] : r \in Runs
  BY DEF TimelyOK, SweepOK
<1>1. ASSUME NEW r \in Runs, Left(r)
      PROVE  \/ status'[r] = status[r]
             \/ status'[r] = "lost"
             \/ status'[r] = "cancel_requested" /\ r \notin Uncancelled
  <2>1. ~CreateRun(r)
    BY <1>1, HandedIsPublished DEF Left, CreateRun
  <2>2. \A v \in Workers : msg[v] # r
    BY <1>1 DEF Left, Held
  <2>3. CancelWrite(r) => r \notin Uncancelled
    BY DEF CancelWrite, UnaskedOK, Unasked
  <2>4. QED
    BY <2>1, <2>2, <2>3, StatusMoves
<1>2. ASSUME NEW r \in swept'[w]
      PROVE  /\ Left(r)'
             /\ status'[r] \in HEARTBEAT_RUN_STATUSES \cup {"lost", "cancel_requested"}
  <2>1. CASE r \in swept[w]
    BY <1>0, <1>1, <2>1, LeftStays DEF Sweeps
  <2>2. CASE Sweep(w)
    <3>1. r \in Runs /\ status[r] \in HEARTBEAT_RUN_STATUSES /\ stale[r] /\ status' = status
      BY <1>2, <2>2 DEF Sweep, storeVars
    <3>2. Handed(r)
      BY <3>1 DEF TimelyOK, RowsOK, HEARTBEAT_RUN_STATUSES
    <3>3. ~Held(r)
      BY <3>1 DEF TimelyOK, CareOK, Care, Beats, Held
    <3>4. QED
      BY <3>1, <3>2, <3>3, LeftStays DEF Left
  <2>3. QED
    BY <1>2, <2>1, <2>2, SweptMoves
<1>3. ASSUME NEW r \in Uncancelled, victim'[w] = r
      PROVE  Left(r)' /\ status'[r] = "lost"
  <2>0. r \in Runs /\ r # None
    BY DEF Uncancelled
  <2>1. CASE victim[w] = r
    <3>1. Left(r) /\ status[r] = "lost"
      BY <1>0, <2>1 DEF Sweeps
    <3>2. QED
      BY <1>1, <2>0, <3>1, LeftStays
  <2>2. CASE r \in swept[w] /\ status'[r] = "lost"
    BY <1>0, <2>0, <2>2, LeftStays DEF Sweeps
  <2>3. QED
    BY <1>3, <2>0, <2>1, <2>2, VictimMoves
<1>4. QED
  BY <1>2, <1>3 DEF Sweeps

\* ... and every row in order.
LEMMA RowsStep ==
    ASSUME TypeInv, DispatchOK, TimelyOK, [Next]_vars
    PROVE  RowsOK'
<1> SUFFICES ASSUME NEW r \in Runs
             PROVE  /\ Handed(r)' \/ status'[r] \in {"none", "queued", "cancel_requested"}
                    /\ status'[r] = "lost" => Left(r)'
  BY DEF RowsOK
<1>1. ASSUME NEW w \in Workers, r \in swept[w] PROVE Left(r)
  BY <1>1 DEF TimelyOK, SweepOK, Sweeps
<1>2. ASSUME ~Handed(r)' PROVE status'[r] \in {"none", "queued", "cancel_requested"}
  <2>1. ~Handed(r)
    BY <1>2, HandedStays
  <2>2. status[r] \in {"none", "queued", "cancel_requested"}
    BY <2>1 DEF TimelyOK, RowsOK
  <2>3. \A w \in Workers : r \notin swept[w] /\ msg[w] # r
    BY <1>1, <2>1, HeldIsHanded DEF Left
  <2>4. QED
    BY <2>2, <2>3, StatusMoves
<1>3. ASSUME status'[r] = "lost" PROVE Left(r)'
  <2>1. status[r] = "lost" \/ \E w \in Workers : r \in swept[w]
    BY <1>3, StatusMoves DEF Target, Outcomes
  <2>2. QED
    BY <1>1, <2>1, LeftStays DEF TimelyOK, RowsOK
<1>4. QED
  BY <1>2, <1>3

\* Together they are inductive.
LEMMA TimelyAlways ==
    ASSUME ~LateHeartbeats
    PROVE  Spec => []TimelyOK
<1>1. Init => TimelyOK
  BY DEF Init, TimelyOK, CareOK, Care, Beats, Enters, Changes, SweepOK, Sweeps, RowsOK,
         Uncancelled, EntryPc
<1>2. TypeInv /\ DispatchOK /\ UnaskedOK /\ TimelyOK /\ [Next]_vars => TimelyOK'
  BY CareStep, SweepStep, RowsStep DEF TimelyOK
<1>3. QED
  BY TypeInvAlways, DispatchOKAlways, UnaskedAlways, <1>1, <1>2, PTL DEF Spec

\* A run that is marked lost was handed out and is in nobody's hands, and stays so: the
\* sweeper (mark_lost_workload_runs) takes no run from a worker that is executing it. And
\* no heartbeat speaks for a run its worker has let go of.
THEOREM LostRunsAreLeft ==
    ASSUME ~LateHeartbeats
    PROVE  Spec => []LivenessIsTruthful
<1>1. TimelyOK /\ HeartbeatCoversExecution => LivenessIsTruthful
  BY DEF TimelyOK, RowsOK, Left, LivenessIsTruthful, LostMeansAbandoned
<1>2. Spec => []TimelyOK
  BY TimelyAlways
<1>3. QED
  BY HeartbeatIsBounded, <1>1, <1>2, PTL

-----------------------------------------------------------------------------
\* One step writes the status of one run at most.
LEMMA OneRowAtATime ==
    ASSUME TypeInv, [Next]_vars
    PROVE  \/ UNCHANGED status
           \/ \E r \in Runs, s \in RunStatus : status' = [status EXCEPT ![r] = s]
<1> USE DEF storeVars
<1>1. ASSUME NEW r \in Runs, CreateRun(r) \/ CancelWrite(r)
      PROVE  \E s \in RunStatus : status' = [status EXCEPT ![r] = s]
  BY <1>1 DEF CreateRun, CancelWrite, RunStatus
<1>2. ASSUME NEW w \in Workers, MarkLost(w)
      PROVE  \E r \in Runs, s \in RunStatus : status' = [status EXCEPT ![r] = s]
  BY <1>2 DEF MarkLost, RunStatus, TypeInv, TypeOK, WorkerTypes
<1>3. ASSUME NEW w \in Workers, Write(w)
      PROVE  \E r \in Runs, s \in RunStatus : status' = [status EXCEPT ![r] = s]
  <2>1. msg[w] \in Runs /\ goal[w] \in RunStatus
    BY <1>3 DEF Write, TypeInv, JobOK, Job, TryPc, StorePc, Target, Outcomes, RunStatus
  <2>2. QED
    BY <1>3, <2>1 DEF Write
<1>4. QED
  BY <1>1, <1>2, <1>3
     DEF Next, vars, Gateway, LogQueued, Publish, CancelRead, CancelLog, Age, PublishStray,
         Consumer, Heartbeat, Failure, Sweep, LogLost, Read, ReadNothing, Lookup,
         DeadLetter, CancelCheck, CancelChoose, Check, Log, Execute, PostCheck,
         RecordArtifacts, RecordReply, StopHeartbeat, Ack, StoreFault, LoseRead, Crash,
         Interrupt

\* The status of a run nobody cancels moves only along the policy.
LEMMA PolicyStep ==
    ASSUME TypeInv, DispatchOK, UnbornOK, UnaskedOK, TimelyOK, [Next]_vars,
           NEW r \in Uncancelled
    PROVE  \/ status'[r] = status[r]
           \/ status[r] = "none" /\ status'[r] = "queued"
           \/ status[r] # "none" /\ status'[r] \in VALID_RUN_TRANSITIONS[status[r]]
<1>0. r \in Runs
  BY DEF Uncancelled
<1>1. CASE CreateRun(r) /\ status'[r] = "queued"
  BY <1>0, <1>1 DEF CreateRun, UnbornOK, Unborn
<1>2. ~CancelWrite(r)
  BY DEF CancelWrite, UnaskedOK, Unasked
<1>3. ASSUME NEW w \in Workers, r \in swept[w], status'[r] = "lost"
      PROVE  \/ status'[r] = status[r]
             \/ status[r] # "none" /\ status'[r] \in VALID_RUN_TRANSITIONS[status[r]]
  <2>1. status[r] \in HEARTBEAT_RUN_STATUSES \cup {"lost"}
    BY <1>3 DEF TimelyOK, SweepOK, Sweeps, UnaskedOK, Unasked
  <2>2. QED
    BY <1>3, <2>1 DEF HEARTBEAT_RUN_STATUSES, VALID_RUN_TRANSITIONS, TERMINAL_RUN_STATUSES
<1>4. ASSUME NEW w \in Workers, Write(w), msg[w] = r, status'[r] = goal[w]
      PROVE  \/ status'[r] = status[r]
             \/ status[r] # "none" /\ status'[r] \in VALID_RUN_TRANSITIONS[status[r]]
  <2>1. IsValidTransition(status[r], goal[w])
    BY <1>4 DEF Write, TimelyOK, CareOK, Care, Changes, UnaskedOK, Unasked
  <2>2. status[r] # "none"
    BY <1>0, <1>4, HeldIsHanded, HandedIsPublished
  <2>3. QED
    BY <1>4, <2>1, <2>2 DEF IsValidTransition
<1>5. QED
  BY <1>0, <1>1, <1>2, <1>3, <1>4, StatusMoves

\* A terminal run is written over by nothing but a cancel request that was late.
LEMMA ReviveStep ==
    ASSUME TypeInv, DispatchOK, UnbornOK, UnaskedOK, TimelyOK, [Next]_vars, NEW r \in Runs,
           status[r] \in TERMINAL_RUN_STATUSES, status'[r] # status[r]
    PROVE  cancel[r] = "writing" /\ status'[r] = "cancel_requested"
<1> USE DEF TERMINAL_RUN_STATUSES
<1>1. ~CreateRun(r)
  BY DEF CreateRun, UnbornOK, Unborn
<1>2. \A w \in Workers : r \in swept[w] => status[r] = "lost"
  BY DEF TimelyOK, SweepOK, Sweeps, HEARTBEAT_RUN_STATUSES
<1>3. ASSUME NEW w \in Workers, Write(w), msg[w] = r PROVE goal[w] = status[r]
  BY <1>3 DEF Write, TimelyOK, CareOK, Care, Changes, IsValidTransition,
     VALID_RUN_TRANSITIONS
<1>4. CancelWrite(r) => cancel[r] = "writing"
  BY DEF CancelWrite
<1>5. QED
  BY <1>1, <1>2, <1>3, <1>4, StatusMoves

\* The lifecycle implements ManagedRun for the runs nobody cancels, and of the others only
\* a late cancel request overwrites a terminal status, if heartbeats are in time.
THEOREM StatusesFollowPolicy ==
    ASSUME ~LateHeartbeats
    PROVE  Spec => StatusFollowsPolicy
<1> DEFINE row == [r \in Uncancelled |-> status[r]]
<1>1. Init => Managed!Init
  BY DEF Init, Managed!Init, Uncancelled
<1>2. ASSUME TypeInv, DispatchOK, UnbornOK, UnaskedOK, TimelyOK, [Next]_vars
      PROVE  [Managed!Next]_row
  <2>1. CASE UNCHANGED status
    BY <2>1
  <2>2. ASSUME NEW r \in Runs, NEW s \in RunStatus, status' = [status EXCEPT ![r] = s]
        PROVE  [Managed!Next]_row
    <3>0. \A q \in Uncancelled : q \in Runs
      BY DEF Uncancelled
    <3>1. CASE r \notin Uncancelled
      <4>1. row' = row
        BY <2>2, <3>0, <3>1
      <4>2. QED
        BY <4>1
    <3>2. CASE r \in Uncancelled
      <4>1. status'[r] = s
        BY <1>2, <2>2 DEF TypeInv, TypeOK, StoreTypes
      <4>2. row' = [row EXCEPT ![r] = s]
        BY <1>2, <2>2, <3>0, <3>2, <4>1 DEF TypeInv, TypeOK, StoreTypes
      <4>3. row[r] = status[r]
        BY <3>2
      <4>4. Managed!VALID_RUN_TRANSITIONS = VALID_RUN_TRANSITIONS
        BY DEF Managed!VALID_RUN_TRANSITIONS, VALID_RUN_TRANSITIONS,
               Managed!TERMINAL_RUN_STATUSES, TERMINAL_RUN_STATUSES
      <4>5. CASE s = status[r]
        <5>1. row' = row
          BY <4>2, <4>3, <4>5
        <5>2. QED
          BY <5>1
      <4>6. CASE status[r] = "none" /\ s = "queued"
        <5>1. Managed!Create(r)
          BY <4>2, <4>3, <4>6 DEF Managed!Create
        <5>2. QED
          BY <3>2, <5>1 DEF Managed!Next
      <4>7. CASE status[r] # "none" /\ s \in VALID_RUN_TRANSITIONS[status[r]]
        <5>1. Managed!Move(r)
          BY <4>2, <4>3, <4>4, <4>7 DEF Managed!Move
        <5>2. QED
          BY <3>2, <5>1 DEF Managed!Next
      <4>8. QED
        BY <1>2, <3>2, <4>1, <4>5, <4>6, <4>7, PolicyStep
    <3>3. QED
      BY <3>1, <3>2
  <2>3. QED
    BY <1>2, <2>1, <2>2, OneRowAtATime
<1>3. ASSUME TypeInv, DispatchOK, UnbornOK, UnaskedOK, TimelyOK, [Next]_vars
      PROVE  [\A r \in Runs :
                 status[r] \in TERMINAL_RUN_STATUSES /\ status'[r] # status[r]
                    => cancel[r] = "writing" /\ status'[r] = "cancel_requested"]_vars
  BY <1>3, ReviveStep
<1>4. Spec => []TimelyOK
  BY TimelyAlways
<1>5. Spec => Managed!Spec
  BY TypeInvAlways, DispatchOKAlways, UnbornAlways, UnaskedAlways, <1>1, <1>2, <1>4, PTL
     DEF Spec, Managed!Spec
<1>6. Spec => OnlyCancelRevives
  BY TypeInvAlways, DispatchOKAlways, UnbornAlways, UnaskedAlways, <1>3, <1>4, PTL
     DEF Spec, OnlyCancelRevives
<1>7. QED
  BY <1>5, <1>6 DEF StatusFollowsPolicy

\* An outcome that is in the events of a run nobody cancels is its status, for ever.
THEOREM LoggedOutcomesAreStatuses ==
    ASSUME ~LateHeartbeats
    PROVE  Spec => []LoggedOutcomeIsStatus
<1>1. Init => LoggedOutcomeIsStatus
  BY DEF Init, LoggedOutcomeIsStatus, Uncancelled
<1>2. ASSUME TypeInv, DispatchOK, UnbornOK, UnaskedOK, TimelyOK, LoggedOutcomeIsStatus,
             [Next]_vars
      PROVE  LoggedOutcomeIsStatus'
  <2> SUFFICES ASSUME NEW r \in Uncancelled, NEW s \in TERMINAL_RUN_STATUSES, s \in log'[r]
               PROVE  status'[r] = s
    BY DEF LoggedOutcomeIsStatus
  <2>0. r \in Runs /\ r \notin Cancellable
    BY DEF Uncancelled
  <2>1. status[r] = s
    <3>1. CASE s \in log[r]
      BY <1>2, <3>1 DEF LoggedOutcomeIsStatus
    <3>2. ASSUME NEW w \in Workers, victim[w] = r, s = "lost" PROVE status[r] = s
      BY <1>2, <3>2 DEF TimelyOK, SweepOK, Sweeps
    <3>3. ASSUME NEW w \in Workers, pc[w] = "log", goal[w] = s, msg[w] = r
          PROVE  status[r] = s
      BY <1>2, <2>0, <3>3 DEF TimelyOK, CareOK, Care, Changes
    <3>4. QED
      BY <1>2, <2>0, <3>1, <3>2, <3>3, EventWrites DEF TERMINAL_RUN_STATUSES
  <2>2. QED
    BY <1>2, <2>0, <2>1, ReviveStep DEF UnaskedOK, Unasked
<1>3. Spec => []TimelyOK
  BY TimelyAlways
<1>4. QED
  BY TypeInvAlways, DispatchOKAlways, UnbornAlways, UnaskedAlways, <1>1, <1>2, <1>3, PTL
     DEF Spec

-----------------------------------------------------------------------------
\* Where a worker that nothing happens to stands with its run, when nobody cancels.
Serves(w) ==
    /\ pc[w] \notin EndedPc \cup {"cancelRead"} /\ ctx[w] \notin {"raise", "stop"}
    /\ msg[w] \in Runs =>
          /\ pc[w] \in {"lookup", "cancelCheck"} => status[msg[w]] = "queued"
          /\ pc[w] \in {"check", "write"} =>
                \/ /\ ctx[w] = "pre" /\ goal[w] \in {"starting", "failed"}
                   /\ status[msg[w]] = "queued"
                \/ ctx[w] = "body" /\ goal[w] = "running" /\ status[msg[w]] = "starting"
                \/ ctx[w] = "body" /\ goal[w] = "succeeded" /\ status[msg[w]] = "running"
                \/ ctx[w] = "handler" /\ goal[w] = "failed" /\ status[msg[w]] = "running"
          /\ pc[w] = "log" => status[msg[w]] = goal[w]
          /\ pc[w] \in {"execute", "postCheck", "artifacts", "reply"} =>
                status[msg[w]] = "running"

ServesOK == \A w \in Workers \ Unreliable : Serves(w)

\* Nobody else moves the run of a worker.
LEMMA ServesFrame ==
    ASSUME Cancellable = {}, TypeInv, DispatchOK, UnaskedOK, TimelyOK, [Next]_vars,
           NEW w \in Workers, Serves(w),
           pc'[w] = pc[w], ctx'[w] = ctx[w], goal'[w] = goal[w], msg'[w] = msg[w]
    PROVE  Serves(w)'
<1>1. ~Write(w)
  BY DEF Write, Aim, Goto, TypeInv, TypeOK, WorkerTypes
<1>2. msg[w] \in Runs => status'[msg[w]] = status[msg[w]]
  BY <1>1, HeldStatus
<1>3. QED
  BY <1>2 DEF Serves

\* Each step of its loop finds the run where the step before left it.
LEMMA ServesConsumer ==
    ASSUME Cancellable = {}, TypeInv, DispatchOK, UnaskedOK, TimelyOK, [Next]_vars,
           NEW w \in Workers, Serves(w), Consumer(w)
    PROVE  Serves(w)'
<1> USE DEF TypeInv, TypeOK, WorkerTypes, Goto, Aim, storeVars, streamVars, Serves, EndedPc
<1>0. Job(w)
  BY DEF JobOK
<1>1. CASE Sweep(w) \/ MarkLost(w) \/ LogLost(w) \/ ReadNothing(w)
  <2>1. /\ msg'[w] = None /\ pc'[w] \in LoopPc /\ ctx'[w] = ctx[w]
    BY <1>0, <1>1 DEF Sweep, MarkLost, LogLost, ReadNothing, Job, LoopPc
  <2>2. QED
    BY <2>1 DEF LoopPc
<1>2. CASE Read(w)
  <2>0. PICK m \in Messages : m = stream[delivered + 1]
    BY <1>2 DEF Read, StreamTypes
  <2>1. msg'[w] = m /\ m # msg[w] /\ UNCHANGED status
    BY <1>0, <1>2, <2>0 DEF Read, Job, LoopPc
  <2>2. ~Handed(m) /\ pc'[w] = "lookup" /\ ctx'[w] = "pre"
    BY <2>1, Takes
  <2>3. m \in Runs => status[m] = "queued"
    <3>1. m \in Runs => submit[m] = "published"
      BY <2>0, <1>2 DEF Read, DispatchOK, StreamOK, StreamTypes
    <3>2. m \in Runs => status[m] # "none"
      BY <3>1 DEF DispatchOK, RowOK
    <3>3. m \in Runs => status[m] # "cancel_requested"
      BY DEF UnaskedOK, Unasked, Uncancelled
    <3>4. QED
      BY <2>2, <3>2, <3>3 DEF TimelyOK, RowsOK
  <2>4. QED
    BY <2>1, <2>2, <2>3
<1>3. CASE Lookup(w)
  BY <1>0, <1>3 DEF Lookup, TERMINAL_RUN_STATUSES, Job, TryPc, StorePc, Context
<1>4. CASE DeadLetter(w)
  BY <1>0, <1>4 DEF DeadLetter
<1>5. CASE CancelCheck(w)
  BY <1>0, <1>5 DEF CancelCheck, CancelSeen, Job, TryPc, StorePc, Context
<1>6. CASE CancelChoose(w)
  BY <1>6 DEF CancelChoose
<1>7. CASE Check(w)
  <2>1. msg[w] \in Runs
    BY <1>0, <1>7 DEF Check, Job, TryPc, StorePc
  <2>2. IsValidTransition(status[msg[w]], goal[w])
    BY <1>7, <2>1 DEF Check, IsValidTransition, VALID_RUN_TRANSITIONS, TERMINAL_RUN_STATUSES
  <2>3. pc' = [pc EXCEPT ![w] = "write"] /\ UNCHANGED <<ctx, goal, msg, status>>
    BY <1>7, <2>2 DEF Check
  <2>4. QED
    BY <1>7, <2>3 DEF Check
<1>8. CASE Write(w)
  <2>1. msg[w] \in Runs /\ goal[w] # "cancelling"
    BY <1>0, <1>8 DEF Write, Job, TryPc, StorePc
  <2>2. status'[msg[w]] = goal[w] /\ UNCHANGED <<msg, ctx>>
    BY <1>8, <2>1 DEF Write, StoreTypes
  <2>3. pc'[w] = "log" /\ goal'[w] = goal[w]
    BY <1>8, <2>1 DEF Write
  <2>4. QED
    BY <2>2, <2>3
<1>9. CASE Log(w)
  <2>1. UNCHANGED <<msg, status>> /\ msg[w] \in Runs
    BY <1>0, <1>9 DEF Log, Job, TryPc, StorePc
  <2>2. CASE goal[w] = "starting"
    <3>1. pc'[w] = "check" /\ goal'[w] = "running" /\ ctx'[w] = "body"
      BY <1>9, <2>2 DEF Log, Outcomes
    <3>2. QED
      BY <1>9, <2>1, <2>2, <3>1 DEF Log
  <2>3. CASE goal[w] = "running"
    <3>1. pc'[w] = "execute" /\ UNCHANGED <<goal, ctx>>
      BY <1>9, <2>3 DEF Log, Outcomes
    <3>2. QED
      BY <1>9, <2>1, <2>3, <3>1 DEF Log
  <2>4. CASE goal[w] \in Outcomes
    <3>1. pc'[w] \in {"ack", "finally"} /\ UNCHANGED <<goal, ctx>>
      BY <1>9, <2>4 DEF Log, Outcomes
    <3>2. QED
      BY <2>1, <3>1
  <2>5. QED
    BY <1>9, <2>2, <2>3, <2>4 DEF Log
<1>10. CASE Execute(w)
  BY <1>0, <1>10 DEF Execute, Job, TryPc, StorePc, CancelSeen
<1>11. CASE PostCheck(w)
  BY <1>0, <1>11 DEF PostCheck, Job, TryPc, StorePc, CancelSeen
<1>12. CASE RecordArtifacts(w)
  BY <1>0, <1>12 DEF RecordArtifacts, Job
<1>13. CASE RecordReply(w)
  BY <1>0, <1>13 DEF RecordReply, Job
<1>14. CASE StopHeartbeat(w)
  BY <1>0, <1>14 DEF StopHeartbeat, Job
<1>15. CASE Ack(w)
  BY <1>15 DEF Ack
<1>16. QED
  BY <1>1, <1>2, <1>3, <1>4, <1>5, <1>6, <1>7, <1>8, <1>9, <1>10, <1>11, <1>12, <1>13,
     <1>14, <1>15 DEF Consumer

\* Where nobody cancels and heartbeats are in time, no refused transition and no other
\* step of the code ends the loop of a worker whose process and stores do not fail.
THEOREM ReliableConsumersStay ==
    ASSUME ~LateHeartbeats, Cancellable = {}
    PROVE  Spec => []ReliableConsumersSurvive
<1>1. Init => ServesOK
  BY DEF Init, ServesOK, Serves, EndedPc
<1>2. ASSUME TypeInv, DispatchOK, UnaskedOK, TimelyOK, ServesOK, [Next]_vars
      PROVE  ServesOK'
  <2> SUFFICES ASSUME NEW w \in Workers, w \notin Unreliable PROVE Serves(w)'
    BY DEF ServesOK
  <2>1. ~Failure(w)
    BY DEF Failure, StoreFault, LoseRead, Crash, Interrupt
  <2>2. Serves(w)
    BY <1>2 DEF ServesOK
  <2>3. QED
    BY <1>2, <2>1, <2>2, Movers, ServesFrame, ServesConsumer
<1>3. ServesOK => ReliableConsumersSurvive
  BY DEF ServesOK, Serves, ReliableConsumersSurvive, Alive
<1>4. Spec => []TimelyOK
  BY TimelyAlways
<1>5. QED
  BY TypeInvAlways, DispatchOKAlways, UnaskedAlways, <1>1, <1>2, <1>3, <1>4, PTL DEF Spec

=============================================================================

------------------------- MODULE RunLifecycleProofs -------------------------
(***************************************************************************)
(* Theorems about RunLifecycle, for any sets of runs, stray entries and    *)
(* workers and in every environment. The proofs go from the types over the *)
(* bookkeeping of one worker (JobOK) to what several workers and the       *)
(* stream share (DispatchOK), to what is left of a run (ResultOK), to the  *)
(* cancel requests, and to the refinement of AtMostOnceDispatch.           *)
(***************************************************************************)
EXTENDS RunLifecycle, SequenceTheorems, TLAPS

USE Environment DEF Messages

\* What a worker can aim at.
Target == {"starting", "running", "cancelling"} \cup Outcomes

\* The awaits the try statement and its handlers can be at.
TryPc == StorePc \ {"lookup", "deadLetter", "cancelCheck"}

\* What the await a worker is at says about its other variables.
Job(w) ==
    /\ msg[w] = None <=> pc[w] \in LoopPc \cup EndedPc
    /\ pc[w] \in TryPc \cup {"cancelCheck", "finally"} => msg[w] \in Runs
    /\ pc[w] \in {"check", "write"} => goal[w] \in Target
    /\ pc[w] = "log" => goal[w] \in Target \ {"cancelling"}
    /\ pc[w] \in {"check", "write", "log"} =>
          /\ goal[w] = "starting" => ctx[w] = "pre"
          /\ goal[w] \in {"running", "succeeded"} => ctx[w] = "body"
    /\ pc[w] = "sweepLog" => victim[w] \in Runs
    /\ pc[w] \in {"execute", "postCheck", "artifacts", "reply"} => ctx[w] = "body"
    /\ ctx[w] \in {"body", "handler"} => pc[w] \in TryPc \cup {"finally"}
    /\ ctx[w] \in {"raise", "stop"} => pc[w] \in {"finally", "ack"}
    /\ pc[w] = "finally" => ctx[w] # "pre"
    /\ beating[w] <=> pc[w] = "finally" \/ ctx[w] \in {"body", "handler"}

JobOK == \A w \in Workers : Job(w)

TypeInv == TypeOK /\ JobOK

-----------------------------------------------------------------------------
\* A worker whose own variables do not change keeps its bookkeeping.
LEMMA JobFrame ==
    ASSUME NEW v \in Workers, Job(v),
           pc'[v] = pc[v], ctx'[v] = ctx[v], goal'[v] = goal[v], msg'[v] = msg[v],
           beating'[v] = beating[v], victim'[v] = victim[v]
    PROVE  Job(v)'
BY DEF Job

\* So does everybody when no worker moves.
LEMMA JobIdle ==
    ASSUME JobOK, UNCHANGED <<jobVars, sweepVars>>
    PROVE  JobOK'
BY JobFrame DEF JobOK, jobVars, sweepVars

\* When one worker moves only its own bookkeeping has to be looked at.
LEMMA JobMove ==
    ASSUME JobOK, NEW w \in Workers, Job(w)',
           \A v \in Workers \ {w} :
               /\ pc'[v] = pc[v] /\ ctx'[v] = ctx[v] /\ goal'[v] = goal[v]
               /\ msg'[v] = msg[v] /\ beating'[v] = beating[v] /\ victim'[v] = victim[v]
    PROVE  JobOK'
BY JobFrame DEF JobOK

\* An exception raised at any await keeps the types and the bookkeeping.
LEMMA RaiseKeeps ==
    ASSUME TypeInv, NEW w \in Workers, Raise(w),
           pc[w] \notin EndedPc \cup {"finally"}
    PROVE  WorkerTypes' /\ JobOK'
<1> USE DEF TypeInv, TypeOK, WorkerTypes, Goto, Aim, sweepVars
<1>1. Job(w) /\ pc[w] \in Pc /\ ctx[w] \in Context
  BY DEF JobOK
<1>2. CASE End(w, "dead")
  <2>1. WorkerTypes'
    BY <1>2 DEF End, Pc, EndedPc, Context
  <2>2. Job(w)'
    BY <1>2 DEF End, Job, Pc, EndedPc, LoopPc, StorePc, TryPc
  <2>3. ASSUME NEW v \in Workers, v # w PROVE Job(v)'
    BY <1>2, <2>3, JobFrame DEF End, JobOK
  <2>4. QED
    BY <2>1, <2>2, <2>3 DEF JobOK
<1>3. CASE /\ ctx[w] = "body"
           /\ ctx' = [ctx EXCEPT ![w] = "handler"]
           /\ Aim(w, "failed")
           /\ UNCHANGED <<msg, beating, sweepVars>>
  <2>1. WorkerTypes'
    BY <1>3 DEF Pc, StorePc, Context, RunStatus
  <2>2. Job(w)'
    BY <1>1, <1>3 DEF Job, Pc, EndedPc, LoopPc, StorePc, TryPc, Target, Outcomes
  <2>3. ASSUME NEW v \in Workers, v # w PROVE Job(v)'
    BY <1>3, <2>3, JobFrame DEF JobOK
  <2>4. QED
    BY <2>1, <2>2, <2>3 DEF JobOK
<1>4. CASE /\ ctx[w] = "handler"
           /\ ctx' = [ctx EXCEPT ![w] = "raise"]
           /\ Goto(w, "finally")
           /\ UNCHANGED <<goal, msg, beating, sweepVars>>
  <2>1. WorkerTypes'
    BY <1>4 DEF Pc, Context
  <2>2. Job(w)'
    BY <1>1, <1>4 DEF Job, Pc, EndedPc, LoopPc, StorePc, TryPc
  <2>3. ASSUME NEW v \in Workers, v # w PROVE Job(v)'
    BY <1>4, <2>3, JobFrame DEF JobOK
  <2>4. QED
    BY <2>1, <2>2, <2>3 DEF JobOK
<1>5. QED
  BY <1>2, <1>3, <1>4 DEF Raise

\* The initial state has the types and the bookkeeping.
LEMMA TypeInvInit == Init => TypeInv
BY DEF Init, TypeInv, TypeOK, StoreTypes, StreamTypes, WorkerTypes, JobOK, Job, Pc,
       StorePc, LoopPc, EndedPc, TryPc, Context, RunStatus

\* No step of the gateway disturbs them, nor does a stray entry or a clock.
LEMMA TypeInvGateway ==
    ASSUME TypeInv,
           \/ \E r \in Runs : Gateway(r) \/ Age(r)
           \/ \E s \in Strays : PublishStray(s)
    PROVE  TypeInv'
<1> USE DEF TypeInv, TypeOK, storeVars, streamVars, jobVars, sweepVars, gatewayVars
<1>1. UNCHANGED <<jobVars, sweepVars>>
  BY DEF Gateway, CreateRun, LogQueued, Publish, CancelRead, CancelWrite, CancelLog,
         Age, PublishStray
<1>2. WorkerTypes' /\ JobOK'
  BY <1>1, JobIdle DEF WorkerTypes
<1>3. StreamTypes'
  <2>1. ASSUME NEW m \in Messages, stream' = Append(stream, m),
               UNCHANGED <<delivered, pending, deadLetters>>
        PROVE  StreamTypes'
    BY <2>1 DEF StreamTypes
  <2>2. CASE UNCHANGED streamVars
    BY <2>2 DEF StreamTypes
  <2>3. QED
    BY <2>1, <2>2 DEF Gateway, CreateRun, LogQueued, Publish, CancelRead, CancelWrite,
                      CancelLog, Age, PublishStray
<1>4. StoreTypes'
  <2>1. CASE \E s \in Strays : PublishStray(s)
    BY <2>1 DEF PublishStray, StoreTypes
  <2>2. ASSUME NEW r \in Runs, Gateway(r) \/ Age(r) PROVE StoreTypes'
    <3>1. CASE CreateRun(r) \/ Publish(r) \/ CancelRead(r) \/ CancelWrite(r)
      BY <3>1 DEF CreateRun, Publish, CancelRead, CancelWrite, StoreTypes, RunStatus
    <3>2. CASE LogQueued(r)
      BY <3>2 DEF LogQueued, StoreTypes, RunStatus, Event
    <3>3. CASE CancelLog(r)
      BY <3>3 DEF CancelLog, StoreTypes, RunStatus, Event
    <3>4. CASE Age(r)
      BY <3>4 DEF Age, StoreTypes
    <3>5. QED
      BY <2>2, <3>1, <3>2, <3>3, <3>4 DEF Gateway
  <2>3. QED
    BY <2>1, <2>2
<1>5. QED
  BY <1>2, <1>3, <1>4

\* Every step of a consumer that nothing goes wrong around keeps them.
LEMMA TypeInvConsumer ==
    ASSUME TypeInv, NEW w \in Workers, Consumer(w)
    PROVE  TypeInv'
<1> USE DEF TypeInv, TypeOK, storeVars, streamVars, jobVars, sweepVars, gatewayVars,
            Goto, Aim, Pc, LoopPc, EndedPc, StorePc, TryPc
<1>0. Job(w)
  BY DEF JobOK
<1>1. CASE Sweep(w)
  <2>1. StoreTypes' /\ StreamTypes'
    BY <1>0, <1>1 DEF Sweep, StoreTypes, StreamTypes
  <2>2. WorkerTypes'
    BY <1>1 DEF Sweep, WorkerTypes
  <2>3. Job(w)'
    BY <1>0, <1>1 DEF Sweep, WorkerTypes, Job
  <2>4. QED
    BY <1>1, <2>1, <2>2, <2>3, JobMove DEF Sweep, WorkerTypes
<1>2. CASE MarkLost(w)
  <2>1. StoreTypes' /\ StreamTypes'
    BY <1>0, <1>2 DEF MarkLost, StoreTypes, StreamTypes, WorkerTypes, RunStatus
  <2>2. WorkerTypes'
    BY <1>2 DEF MarkLost, WorkerTypes
  <2>3. Job(w)'
    BY <1>0, <1>2 DEF MarkLost, WorkerTypes, Job
  <2>4. QED
    BY <1>2, <2>1, <2>2, <2>3, JobMove DEF MarkLost, WorkerTypes
<1>3. CASE LogLost(w)
  <2>1. StoreTypes' /\ StreamTypes'
    BY <1>0, <1>3 DEF LogLost, StoreTypes, StreamTypes, WorkerTypes, Job, RunStatus, Event
  <2>2. WorkerTypes'
    BY <1>3 DEF LogLost, WorkerTypes
  <2>3. Job(w)'
    BY <1>0, <1>3 DEF LogLost, WorkerTypes, Job
  <2>4. QED
    BY <1>3, <2>1, <2>2, <2>3, JobMove DEF LogLost, WorkerTypes
<1>4. CASE Read(w)
  <2>1. StoreTypes' /\ StreamTypes'
    BY <1>0, <1>4 DEF Read, StoreTypes, StreamTypes
  <2>2. WorkerTypes'
    BY <1>4 DEF Read, WorkerTypes, StreamTypes
  <2>3. Job(w)'
    BY <1>0, <1>4 DEF Read, WorkerTypes, Job, StreamTypes
  <2>4. QED
    BY <1>4, <2>1, <2>2, <2>3, JobMove DEF Read, WorkerTypes
<1>5. CASE ReadNothing(w)
  <2>1. StoreTypes' /\ StreamTypes'
    BY <1>0, <1>5 DEF ReadNothing, StoreTypes, StreamTypes
  <2>2. WorkerTypes'
    BY <1>5 DEF ReadNothing, WorkerTypes
  <2>3. Job(w)'
    BY <1>0, <1>5 DEF ReadNothing, WorkerTypes, Job
  <2>4. QED
    BY <1>5, <2>1, <2>2, <2>3, JobMove DEF ReadNothing, WorkerTypes
<1>6. CASE Lookup(w)
  <2>1. StoreTypes' /\ StreamTypes'
    BY <1>0, <1>6 DEF Lookup, StoreTypes, StreamTypes
  <2>2. WorkerTypes'
    BY <1>6 DEF Lookup, WorkerTypes, RunStatus
  <2>3. Job(w)'
    BY <1>0, <1>6 DEF Lookup, WorkerTypes, Job, Target, Outcomes, RunStatus
  <2>4. QED
    BY <1>6, <2>1, <2>2, <2>3, JobMove DEF Lookup, WorkerTypes
<1>7. CASE DeadLetter(w)
  <2>1. StoreTypes' /\ StreamTypes'
    BY <1>0, <1>7 DEF DeadLetter, StoreTypes, StreamTypes, WorkerTypes, Job
  <2>2. WorkerTypes'
    BY <1>7 DEF DeadLetter, WorkerTypes
  <2>3. Job(w)'
    BY <1>0, <1>7 DEF DeadLetter, WorkerTypes, Job
  <2>4. QED
    BY <1>7, <2>1, <2>2, <2>3, JobMove DEF DeadLetter, WorkerTypes
<1>8. CASE CancelCheck(w)
  <2>1. StoreTypes' /\ StreamTypes'
    BY <1>0, <1>8 DEF CancelCheck, StoreTypes, StreamTypes
  <2>2. WorkerTypes'
    BY <1>8 DEF CancelCheck, WorkerTypes, RunStatus
  <2>3. Job(w)'
    BY <1>0, <1>8 DEF CancelCheck, WorkerTypes, Job, Target, Context
  <2>4. QED
    BY <1>8, <2>1, <2>2, <2>3, JobMove DEF CancelCheck, WorkerTypes
<1>9. CASE CancelChoose(w)
  <2>1. StoreTypes' /\ StreamTypes'
    BY <1>0, <1>9 DEF CancelChoose, StoreTypes, StreamTypes
  <2>2. WorkerTypes'
    BY <1>9 DEF CancelChoose, WorkerTypes, RunStatus
  <2>3. Job(w)'
    BY <1>0, <1>9 DEF CancelChoose, WorkerTypes, Job, Target, Outcomes
  <2>4. QED
    BY <1>9, <2>1, <2>2, <2>3, JobMove DEF CancelChoose, WorkerTypes
<1>10. CASE Check(w)
  <2>1. StoreTypes' /\ StreamTypes'
    BY <1>10 DEF Check, StoreTypes, StreamTypes
  <2>2. CASE Goto(w, "write") /\ UNCHANGED <<ctx, goal, msg, beating, sweepVars>>
    <3>1. WorkerTypes'
      BY <2>2 DEF WorkerTypes
    <3>2. Job(w)'
      BY <1>0, <1>10, <2>2 DEF Check, WorkerTypes, Job
    <3>3. QED
      BY <2>1, <2>2, <3>1, <3>2, JobMove DEF WorkerTypes
  <2>3. CASE Raise(w)
    BY <1>10, <2>1, <2>3, RaiseKeeps DEF Check
  <2>4. QED
    BY <1>10, <2>2, <2>3 DEF Check
<1>11. CASE Write(w)
  <2>1. StoreTypes' /\ StreamTypes'
    BY <1>0, <1>11 DEF Write, StoreTypes, StreamTypes, WorkerTypes, Job, Target, Outcomes,
                       RunStatus
  <2>2. WorkerTypes'
    BY <1>11 DEF Write, WorkerTypes, RunStatus
  <2>3. Job(w)'
    BY <1>0, <1>11 DEF Write, WorkerTypes, Job, Target, Outcomes
  <2>4. QED
    BY <1>11, <2>1, <2>2, <2>3, JobMove DEF Write, WorkerTypes
<1>12. CASE Log(w)
  <2>1. StoreTypes' /\ StreamTypes'
    BY <1>0, <1>12 DEF Log, StoreTypes, StreamTypes, WorkerTypes, Job, Target, Outcomes,
                         RunStatus, Event
  <2>2. UNCHANGED <<msg, swept, victim>>
    BY <1>12 DEF Log
  <2>3. CASE goal[w] = "starting"
    <3>1. /\ beating' = [beating EXCEPT ![w] = TRUE]
          /\ ctx' = [ctx EXCEPT ![w] = "body"]
          /\ goal' = [goal EXCEPT ![w] = "running"]
          /\ pc' = [pc EXCEPT ![w] = "check"]
      BY <1>12, <2>3 DEF Log, Outcomes
    <3>2. WorkerTypes'
      BY <2>2, <3>1 DEF WorkerTypes, Context, RunStatus
    <3>3. Job(w)'
      BY <1>0, <1>12, <2>2, <3>1 DEF Log, WorkerTypes, Job, Target
    <3>4. QED
      BY <2>1, <2>2, <3>1, <3>2, <3>3, JobMove DEF WorkerTypes
  <2>4. CASE goal[w] = "running"
    <3>1. pc' = [pc EXCEPT ![w] = "execute"] /\ UNCHANGED <<ctx, goal, beating>>
      BY <1>12, <2>4 DEF Log, Outcomes
    <3>2. WorkerTypes'
      BY <2>2, <3>1 DEF WorkerTypes
    <3>3. Job(w)'
      BY <1>0, <1>12, <2>2, <2>4, <3>1 DEF Log, WorkerTypes, Job
    <3>4. QED
      BY <2>1, <2>2, <3>1, <3>2, <3>3, JobMove DEF WorkerTypes
  <2>5. CASE goal[w] \in Outcomes
    <3>1. /\ pc' = [pc EXCEPT ![w] = IF ctx[w] = "pre" THEN "ack" ELSE "finally"]
          /\ UNCHANGED <<ctx, goal, beating>>
      BY <1>12, <2>5 DEF Log, Outcomes
    <3>2. WorkerTypes'
      BY <2>2, <3>1 DEF WorkerTypes
    <3>3. Job(w)'
      BY <1>0, <1>12, <2>2, <3>1 DEF Log, WorkerTypes, Job, Context
    <3>4. QED
      BY <2>1, <2>2, <3>1, <3>2, <3>3, JobMove DEF WorkerTypes
  <2>6. QED
    BY <1>12, <2>3, <2>4, <2>5 DEF Log
<1>13. CASE Execute(w)
  <2>1. StoreTypes' /\ StreamTypes'
    BY <1>0, <1>13 DEF Execute, StoreTypes, StreamTypes
  <2>2. WorkerTypes'
    BY <1>13 DEF Execute, WorkerTypes, Context, RunStatus
  <2>3. Job(w)'
    BY <1>0, <1>13 DEF Execute, WorkerTypes, Job, Target, Outcomes
  <2>4. QED
    BY <1>13, <2>1, <2>2, <2>3, JobMove DEF Execute, WorkerTypes
<1>14. CASE PostCheck(w)
  <2>1. StoreTypes' /\ StreamTypes'
    BY <1>0, <1>14 DEF PostCheck, StoreTypes, StreamTypes
  <2>2. WorkerTypes'
    BY <1>14 DEF PostCheck, WorkerTypes
  <2>3. Job(w)'
    BY <1>0, <1>14 DEF PostCheck, WorkerTypes, Job
  <2>4. QED
    BY <1>14, <2>1, <2>2, <2>3, JobMove DEF PostCheck, WorkerTypes
<1>15. CASE RecordArtifacts(w)
  <2>1. StoreTypes' /\ StreamTypes'
    BY <1>0, <1>15 DEF RecordArtifacts, StoreTypes, StreamTypes, WorkerTypes, Job, Output
  <2>2. WorkerTypes'
    BY <1>15 DEF RecordArtifacts, WorkerTypes
  <2>3. Job(w)'
    BY <1>0, <1>15 DEF RecordArtifacts, WorkerTypes, Job
  <2>4. QED
    BY <1>15, <2>1, <2>2, <2>3, JobMove DEF RecordArtifacts, WorkerTypes
<1>16. CASE RecordReply(w)
  <2>1. StoreTypes' /\ StreamTypes'
    BY <1>0, <1>16 DEF RecordReply, StoreTypes, StreamTypes, WorkerTypes, Job, Output
  <2>2. WorkerTypes'
    BY <1>16 DEF RecordReply, WorkerTypes, RunStatus
  <2>3. Job(w)'
    BY <1>0, <1>16 DEF RecordReply, WorkerTypes, Job, Target, Outcomes
  <2>4. QED
    BY <1>16, <2>1, <2>2, <2>3, JobMove DEF RecordReply, WorkerTypes
<1>17. CASE StopHeartbeat(w)
  <2>1. StoreTypes' /\ StreamTypes'
    BY <1>0, <1>17 DEF StopHeartbeat, StoreTypes, StreamTypes
  <2>2. WorkerTypes'
    BY <1>17 DEF StopHeartbeat, WorkerTypes, Context
  <2>3. Job(w)'
    BY <1>0, <1>17 DEF StopHeartbeat, WorkerTypes, Job, Context
  <2>4. QED
    BY <1>17, <2>1, <2>2, <2>3, JobMove DEF StopHeartbeat, WorkerTypes
<1>18. CASE Ack(w)
  <2>1. StoreTypes' /\ StreamTypes'
    BY <1>0, <1>18 DEF Ack, StoreTypes, StreamTypes
  <2>2. WorkerTypes'
    BY <1>18 DEF Ack, WorkerTypes, Context
  <2>3. Job(w)'
    BY <1>0, <1>18 DEF Ack, WorkerTypes, Job, Context
  <2>4. QED
    BY <1>18, <2>1, <2>2, <2>3, JobMove DEF Ack, WorkerTypes
<1>19. QED
  BY <1>1, <1>2, <1>3, <1>4, <1>5, <1>6, <1>7, <1>8, <1>9, <1>10, <1>11,
     <1>12, <1>13, <1>14, <1>15, <1>16, <1>17, <1>18 DEF Consumer

\* So does everything a failing environment does to a worker, and a heartbeat.
LEMMA TypeInvFailure ==
    ASSUME TypeInv, NEW w \in Workers, Heartbeat(w) \/ Failure(w)
    PROVE  TypeInv'
<1> USE DEF TypeInv, TypeOK, storeVars, streamVars, jobVars, sweepVars, gatewayVars,
            Goto, Pc, LoopPc, EndedPc, StorePc, TryPc
<1>0. Job(w)
  BY DEF JobOK
<1>1. CASE Heartbeat(w)
  <2>1. StoreTypes' /\ StreamTypes'
    BY <1>1 DEF Heartbeat, StoreTypes, StreamTypes
  <2>2. QED
    BY <1>1, <2>1, JobIdle DEF Heartbeat, WorkerTypes
<1>2. CASE StoreFault(w)
  <2>1. pc[w] \notin EndedPc \cup {"finally"} /\ Raise(w)
    BY <1>2 DEF StoreFault
  <2>2. StreamTypes'
    BY <1>2 DEF StoreFault, StreamTypes
  <2>3. UNCHANGED <<submit, cancel, status, stale, outputs, results>>
    BY <1>2 DEF StoreFault
  <2>4. CASE UNCHANGED log
    <3>1. StoreTypes'
      BY <2>3, <2>4 DEF StoreTypes
    <3>2. QED
      BY <2>1, <2>2, <3>1, RaiseKeeps
  <2>5. CASE pc[w] = "log" /\ log' = [log EXCEPT ![msg[w]] = @ \cup {goal[w]}]
    <3>1. msg[w] \in Runs /\ goal[w] \in Event
      BY <1>0, <2>5 DEF Job, Target, Outcomes, Event, RunStatus
    <3>2. StoreTypes'
      BY <2>3, <2>5, <3>1 DEF StoreTypes
    <3>3. QED
      BY <2>1, <2>2, <3>2, RaiseKeeps
  <2>6. QED
    BY <1>2, <2>4, <2>5 DEF StoreFault
<1>3. CASE Crash(w)
  <2>1. StoreTypes' /\ StreamTypes'
    BY <1>3 DEF Crash, StoreTypes, StreamTypes
  <2>2. WorkerTypes'
    BY <1>3 DEF Crash, End, WorkerTypes, Context
  <2>3. Job(w)'
    BY <1>3 DEF Crash, End, WorkerTypes, Job
  <2>4. QED
    BY <1>3, <2>1, <2>2, <2>3, JobMove DEF Crash, End, WorkerTypes
<1>4. CASE Interrupt(w)
  <2>1. StoreTypes' /\ StreamTypes'
    BY <1>4 DEF Interrupt, StoreTypes, StreamTypes
  <2>2. WorkerTypes'
    BY <1>4 DEF Interrupt, WorkerTypes, Context
  <2>3. Job(w)'
    BY <1>0, <1>4 DEF Interrupt, WorkerTypes, Job
  <2>4. QED
    BY <1>4, <2>1, <2>2, <2>3, JobMove DEF Interrupt, WorkerTypes
<1>5. CASE LoseRead(w)
  <2>1. StoreTypes' /\ StreamTypes'
    BY <1>5 DEF LoseRead, StoreTypes, StreamTypes
  <2>2. WorkerTypes'
    BY <1>5 DEF LoseRead, WorkerTypes
  <2>3. Job(w)'
    BY <1>0, <1>5 DEF LoseRead, WorkerTypes, Job
  <2>4. QED
    BY <1>5, <2>1, <2>2, <2>3, JobMove DEF LoseRead, WorkerTypes
<1>6. QED
  BY <1>1, <1>2, <1>3, <1>4, <1>5 DEF Failure

\* The types and the bookkeeping hold for ever.
LEMMA TypeInvAlways == Spec => []TypeInv
<1>1. TypeInv /\ [Next]_vars => TypeInv'
  <2> SUFFICES ASSUME TypeInv, [Next]_vars PROVE TypeInv'
    OBVIOUS
  <2>1. CASE UNCHANGED vars
    BY <2>1, JobIdle DEF vars, gatewayVars, storeVars, streamVars, TypeInv, TypeOK,
                         StoreTypes, StreamTypes, WorkerTypes, jobVars, sweepVars
  <2>2. CASE Next
    BY <2>2, TypeInvGateway, TypeInvConsumer, TypeInvFailure DEF Next
  <2>3. QED
    BY <2>1, <2>2
<1>2. QED
  BY TypeInvInit, <1>1, PTL DEF Spec

\* Every variable stays in its type, whatever fails and whoever cancels.
THEOREM TypeCorrect == Spec => []TypeOK
<1>1. TypeInv => TypeOK
  BY DEF TypeInv
<1>2. QED
  BY TypeInvAlways, <1>1, PTL

-----------------------------------------------------------------------------
\* The stream has no entry twice, and the entry of a run comes last in _create_run.
StreamOK ==
    /\ \A i, j \in 1..Len(stream) : stream[i] = stream[j] => i = j
    /\ \A i \in 1..Len(stream) : stream[i] \in Runs => submit[stream[i]] = "published"

\* A run that is more than announced has a row.
RowOK == \A r \in Runs : status[r] = "none" => submit[r] = "new"

\* What a worker has in hand is its own, unacknowledged, and was handed out.
HoldOK ==
    /\ \A v, w \in Workers : msg[v] = msg[w] /\ msg[v] # None => v = w
    /\ \A w \in Workers : msg[w] # None => msg[w] \in pending
    /\ \A m \in pending : Handed(m)

DispatchOK == StreamOK /\ RowOK /\ HoldOK


\* Who adds to the stream, and that nothing else takes a publication back.
LEMMA Sends ==
    ASSUME TypeInv, [Next]_vars
    PROVE  \/ \E r \in Runs : Publish(r)
           \/ \E s \in Strays : PublishStray(s)
           \/ UNCHANGED stream /\ \A r \in Runs :
                 submit[r] = "published" => submit'[r] = "published"
<1> USE DEF gatewayVars, storeVars, streamVars, jobVars, sweepVars
<1>1. CASE UNCHANGED vars
  BY <1>1 DEF vars
<1>2. ASSUME NEW r \in Runs, Gateway(r) \/ Age(r), ~Publish(r)
      PROVE  UNCHANGED stream /\ \A q \in Runs :
                 submit[q] = "published" => submit'[q] = "published"
  <2>1. CASE CreateRun(r) \/ LogQueued(r)
    BY <2>1 DEF CreateRun, LogQueued, TypeInv, TypeOK, StoreTypes
  <2>2. CASE CancelRead(r) \/ CancelWrite(r) \/ CancelLog(r) \/ Age(r)
    BY <2>2 DEF CancelRead, CancelWrite, CancelLog, Age
  <2>3. QED
    BY <1>2, <2>1, <2>2 DEF Gateway
<1>3. ASSUME NEW w \in Workers, Consumer(w) \/ Heartbeat(w) \/ Failure(w)
      PROVE  UNCHANGED <<stream, submit>>
  BY <1>3 DEF Consumer, Heartbeat, Failure, Sweep, MarkLost, LogLost, Read, ReadNothing,
              Lookup, DeadLetter, CancelCheck, CancelChoose, Check, Write, Log, Execute,
              PostCheck, RecordArtifacts, RecordReply, StopHeartbeat, Ack,
              StoreFault, LoseRead, Crash, Interrupt
<1>4. QED
  BY <1>1, <1>2, <1>3 DEF Next

\* What the exception that leaves an await does to the message of a worker.
LEMMA RaiseMsg ==
    ASSUME TypeInv, NEW w \in Workers, Raise(w)
    PROVE  UNCHANGED msg \/ msg' = [msg EXCEPT ![w] = None]
BY DEF Raise, End

\* Who takes a message, who acknowledges it, and who else lets go of one.
LEMMA Hands ==
    ASSUME TypeInv, [Next]_vars
    PROVE  \/ \E w \in Workers : Read(w) \/ LoseRead(w) \/ Ack(w)
           \/ /\ UNCHANGED <<delivered, pending>>
              /\ \A w \in Workers : msg'[w] \in {msg[w], None}
<1> USE DEF TypeInv, TypeOK, WorkerTypes, gatewayVars, storeVars, streamVars, jobVars,
            sweepVars
<1>1. CASE UNCHANGED vars
  BY <1>1 DEF vars
<1>2. CASE \/ \E r \in Runs : Gateway(r) \/ Age(r)
           \/ \E s \in Strays : PublishStray(s)
  BY <1>2 DEF Gateway, CreateRun, LogQueued, Publish, CancelRead, CancelWrite, CancelLog,
              Age, PublishStray
<1>3. ASSUME NEW w \in Workers,
             Consumer(w) \/ Heartbeat(w) \/ Failure(w), ~Read(w), ~LoseRead(w), ~Ack(w)
      PROVE  UNCHANGED <<delivered, pending>> /\ \A v \in Workers : msg'[v] \in {msg[v], None}
  <2>1. CASE Raise(w) /\ UNCHANGED <<delivered, pending>>
    BY <2>1, RaiseMsg
  <2>2. CASE Crash(w)
    BY <2>2 DEF Crash, End
  <2>3. CASE Check(w)
    BY <2>1, <2>3 DEF Check
  <2>4. CASE StoreFault(w)
    BY <2>1, <2>4 DEF StoreFault
  <2>5. CASE \/ Sweep(w) \/ MarkLost(w) \/ LogLost(w) \/ ReadNothing(w) \/ Lookup(w)
             \/ DeadLetter(w) \/ CancelCheck(w) \/ CancelChoose(w) \/ Write(w) \/ Log(w)
    BY <2>5 DEF Sweep, MarkLost, LogLost, ReadNothing, Lookup, DeadLetter, CancelCheck,
                CancelChoose, Write, Log
  <2>6. CASE \/ Execute(w) \/ PostCheck(w) \/ RecordArtifacts(w) \/ RecordReply(w)
             \/ StopHeartbeat(w) \/ Heartbeat(w) \/ Interrupt(w)
    BY <2>6 DEF Execute, PostCheck, RecordArtifacts, RecordReply, StopHeartbeat,
                Heartbeat, Interrupt
  <2>7. QED
    BY <1>3, <2>2, <2>3, <2>4, <2>5, <2>6 DEF Consumer, Failure
<1>4. QED
  BY <1>1, <1>2, <1>3 DEF Next

\* What is handed out stays handed out.
LEMMA HandedStays ==
    ASSUME TypeInv, [Next]_vars, NEW m, Handed(m)
    PROVE  Handed(m)'
<1> USE DEF TypeInv, TypeOK, StreamTypes
<1>1. delivered' \in Nat /\ delivered' >= delivered
  BY Hands DEF Read, LoseRead, Ack
<1>2. \A i \in 1..delivered : stream'[i] = stream[i]
  BY Sends DEF Publish, PublishStray, Messages
<1>3. QED
  BY <1>1, <1>2 DEF Handed

\* The stream is only appended to, by a message that is not in it.
LEMMA StreamStep ==
    ASSUME TypeInv, DispatchOK, [Next]_vars
    PROVE  StreamOK'
<1> USE DEF TypeInv, TypeOK, StreamTypes, StoreTypes, DispatchOK, StreamOK
<1>1. ASSUME NEW r \in Runs, Publish(r) PROVE StreamOK'
  <2>1. \A i \in 1..Len(stream) : stream[i] # r
    BY <1>1 DEF Publish
  <2>2. /\ Len(stream') = Len(stream) + 1 /\ stream'[Len(stream) + 1] = r
        /\ \A i \in 1..Len(stream) : stream'[i] = stream[i]
    BY <1>1 DEF Publish, Messages
  <2>3. submit' = [submit EXCEPT ![r] = "published"]
    BY <1>1 DEF Publish
  <2>4. 1..Len(stream') = (1..Len(stream)) \cup {Len(stream) + 1}
    BY <2>2
  <2>5. \A i, j \in 1..Len(stream') : stream'[i] = stream'[j] => i = j
    BY <2>1, <2>2, <2>4
  <2>6. ASSUME NEW i \in 1..Len(stream'), stream'[i] \in Runs
        PROVE  submit'[stream'[i]] = "published"
    BY <2>1, <2>2, <2>3, <2>4, <2>6
  <2>7. QED
    BY <2>5, <2>6
<1>2. ASSUME NEW s \in Strays, PublishStray(s) PROVE StreamOK'
  BY <1>2 DEF PublishStray, gatewayVars
<1>3. CASE UNCHANGED stream /\ \A r \in Runs :
              submit[r] = "published" => submit'[r] = "published"
  BY <1>3
<1>4. QED
  BY <1>1, <1>2, <1>3, Sends

\* How the status of a run changes: its row is inserted, a cancel request is written, a
\* sweeper gives it up, or its worker writes the status it aims at.
LEMMA StatusMoves ==
    ASSUME TypeInv, [Next]_vars, NEW r \in Runs
    PROVE  \/ status'[r] = status[r]
           \/ CreateRun(r) /\ status'[r] = "queued"
           \/ CancelWrite(r) /\ status'[r] = "cancel_requested"
           \/ \E w \in Workers : MarkLost(w) /\ r \in swept[w] /\ status'[r] = "lost"
           \/ \E w \in Workers :
                 Write(w) /\ msg[w] = r /\ status'[r] = goal[w] /\ goal[w] \in Target
<1> USE DEF TypeInv, TypeOK, StoreTypes, gatewayVars, storeVars, streamVars, jobVars,
            sweepVars
<1>1. CASE UNCHANGED vars
  BY <1>1 DEF vars
<1>2. CASE \E s \in Strays : PublishStray(s)
  BY <1>2 DEF PublishStray
<1>3. ASSUME NEW q \in Runs, Gateway(q) \/ Age(q)
      PROVE  \/ status'[r] = status[r]
             \/ CreateRun(r) /\ status'[r] = "queued"
             \/ CancelWrite(r) /\ status'[r] = "cancel_requested"
  <2>1. CASE CreateRun(q)
    BY <2>1 DEF CreateRun
  <2>2. CASE CancelWrite(q)
    BY <2>2 DEF CancelWrite
  <2>3. CASE LogQueued(q) \/ Publish(q) \/ CancelRead(q) \/ CancelLog(q) \/ Age(q)
    BY <2>3 DEF LogQueued, Publish, CancelRead, CancelLog, Age
  <2>4. QED
    BY <1>3, <2>1, <2>2, <2>3 DEF Gateway
<1>4. ASSUME NEW w \in Workers, Consumer(w) \/ Heartbeat(w) \/ Failure(w),
             status'[r] # status[r]
      PROVE  \/ MarkLost(w) /\ r \in swept[w] /\ status'[r] = "lost"
             \/ Write(w) /\ msg[w] = r /\ status'[r] = goal[w] /\ goal[w] \in Target
  <2>1. CASE MarkLost(w)
    BY <1>4, <2>1 DEF MarkLost
  <2>2. CASE Write(w)
    BY <1>4, <2>2 DEF Write, JobOK, Job
  <2>3. CASE UNCHANGED status
    BY <1>4, <2>3
  <2>4. QED
    BY <1>4, <2>1, <2>2, <2>3
       DEF Consumer, Heartbeat, Failure, Sweep, LogLost, Read, ReadNothing, Lookup,
           DeadLetter, CancelCheck, CancelChoose, Check, Log, Execute, PostCheck,
           RecordArtifacts, RecordReply, StopHeartbeat, Ack, StoreFault, LoseRead, Crash,
           Interrupt
<1>5. QED
  BY <1>1, <1>2, <1>3, <1>4 DEF Next

\* So a run becomes "canceled" or "succeeded" by its worker only, and "queued" once.
LEMMA StatusWrites ==
    ASSUME TypeInv, [Next]_vars, NEW r \in Runs
    PROVE  \/ status'[r] = status[r]
           \/ CreateRun(r) /\ status'[r] = "queued"
           \/ status'[r] \notin {"none", "queued", "canceled", "succeeded"}
           \/ \E w \in Workers :
                 Write(w) /\ msg[w] = r /\ status'[r] = goal[w] /\ goal[w] \in Target
BY StatusMoves

\* A row, once there, stays.
LEMMA RowStep ==
    ASSUME TypeInv, RowOK, [Next]_vars
    PROVE  RowOK'
<1> SUFFICES ASSUME NEW r \in Runs, status'[r] = "none" PROVE submit'[r] = "new"
  BY DEF RowOK
<1>1. status[r] = "none" /\ ~CreateRun(r)
  BY StatusWrites DEF Target, Outcomes, CreateRun, TypeInv, TypeOK, StoreTypes
<1>2. submit[r] = "new"
  BY <1>1 DEF RowOK
<1>3. submit'[r] = submit[r]
  <2> USE DEF TypeInv, TypeOK, StoreTypes, gatewayVars, storeVars, streamVars, jobVars,
              sweepVars
  <2>1. CASE UNCHANGED submit
    BY <2>1
  <2>2. ASSUME NEW q \in Runs, CreateRun(q) \/ LogQueued(q) \/ Publish(q)
        PROVE  submit'[r] = submit[r]
    BY <1>1, <1>2, <2>2 DEF CreateRun, LogQueued, Publish
  <2>3. QED
    BY <2>1, <2>2
       DEF Next, vars, Gateway, CancelRead, CancelWrite, CancelLog, Age, PublishStray,
           Consumer, Heartbeat, Failure, Sweep, MarkLost, LogLost, Read, ReadNothing,
           Lookup, DeadLetter, CancelCheck, CancelChoose, Check, Write, Log, Execute,
           PostCheck, RecordArtifacts, RecordReply, StopHeartbeat, Ack, StoreFault, LoseRead,
           Crash, Interrupt
<1>4. QED
  BY <1>2, <1>3

\* A worker that takes a message takes one that nobody has had.
LEMMA HoldStep ==
    ASSUME TypeInv, DispatchOK, [Next]_vars
    PROVE  HoldOK'
<1> USE DEF TypeInv, TypeOK, WorkerTypes, DispatchOK, HoldOK
<1>1. ASSUME NEW w \in Workers, Read(w) \/ LoseRead(w) PROVE HoldOK'
  <2>0. PICK m \in Messages : m = stream[delivered + 1]
    BY <1>1 DEF Read, LoseRead, StreamTypes
  <2>1. /\ stream' = stream /\ delivered' = delivered + 1
        /\ msg' = [msg EXCEPT ![w] = m] \/ msg' = msg
        /\ pending' = pending \cup {m}
        /\ delivered \in Nat /\ delivered < Len(stream)
    BY <1>1, <2>0 DEF Read, LoseRead, StreamTypes
  <2>2. ~Handed(m)
    <3>1. stream \in Seq(Messages)
      BY DEF StreamTypes
    <3>2. ASSUME NEW i \in 1..delivered PROVE stream[i] # m
      <4>1. /\ i \in 1..Len(stream) /\ delivered + 1 \in 1..Len(stream)
            /\ i # delivered + 1
        BY <2>1, <3>1
      <4>2. QED
        BY <2>0, <4>1 DEF StreamOK
    <3>3. QED
      BY <3>2 DEF Handed
  <2>3. \A v \in Workers : msg[v] # m
    BY <2>2
  <2>4. Handed(m)' /\ \A n \in pending : Handed(n)'
    <3>1. Handed(m)'
      BY <2>0, <2>1 DEF Handed
    <3>2. QED
      BY <3>1, HandedStays
  <2>5. QED
    BY <2>1, <2>2, <2>3, <2>4
<1>2. ASSUME NEW w \in Workers, Ack(w) PROVE HoldOK'
  <2>1. /\ msg' = [msg EXCEPT ![w] = None] /\ pending' = pending \ {msg[w]}
        /\ msg[w] # None
    BY <1>2 DEF Ack, JobOK, Job, LoopPc, EndedPc
  <2>2. \A n \in pending' : Handed(n)'
    BY <2>1, HandedStays
  <2>3. QED
    BY <2>1, <2>2
<1>3. CASE UNCHANGED <<delivered, pending>> /\ \A w \in Workers : msg'[w] \in {msg[w], None}
  <2>1. \A n \in pending' : Handed(n)'
    BY <1>3, HandedStays
  <2>2. QED
    BY <1>3, <2>1
<1>4. QED
  BY <1>1, <1>2, <1>3, Hands

\* What the stream, the rows and the workers share is in order for ever.
LEMMA DispatchOKAlways == Spec => []DispatchOK
<1>1. Init => DispatchOK
  BY DEF Init, DispatchOK, StreamOK, RowOK, HoldOK
<1>2. TypeInv /\ DispatchOK /\ [Next]_vars => DispatchOK'
  BY StreamStep, RowStep, HoldStep DEF DispatchOK
<1>3. QED
  BY TypeInvAlways, <1>1, <1>2, PTL DEF Spec

\* Whatever crashes, restarts, sweeps and cancellations do, no two workers hold the
\* same message and what a worker holds is unacknowledged.
THEOREM OneHolder == Spec => []SingleHolder
<1>1. DispatchOK => SingleHolder
  BY DEF DispatchOK, HoldOK, SingleHolder
<1>2. QED
  BY DispatchOKAlways, <1>1, PTL

\* The heartbeat task of a worker runs while it is in the try statement, and never
\* outlives its hold on the message.
THEOREM HeartbeatIsBounded == Spec => []HeartbeatCoversExecution
<1>1. TypeInv /\ DispatchOK => HeartbeatCoversExecution
  BY DEF TypeInv, JobOK, Job, DispatchOK, HoldOK, HeartbeatCoversExecution, TypeOK,
         WorkerTypes, Pc, StorePc, LoopPc, EndedPc, TryPc
<1>2. QED
  BY TypeInvAlways, DispatchOKAlways, <1>1, PTL

-----------------------------------------------------------------------------
\* The awaits at which the run of a worker has left "queued".
TouchedPc == {"log", "execute", "postCheck", "artifacts", "reply", "finally", "ack"}

\* How far a worker is with its message, and what that has left behind.
Work(w) ==
    /\ pc[w] = "deadLetter" => msg[w] \in Strays
    /\ pc[w] = "ack" /\ msg[w] \in Strays => msg[w] \in deadLetters
    /\ pc[w] = "reply" => "artifacts" \in outputs[msg[w]]
    /\ pc[w] \in {"check", "write"} /\ goal[w] = "succeeded" => outputs[msg[w]] = Output
    /\ pc[w] = "log" /\ goal[w] = "succeeded" => msg[w] \in results
    /\ msg[w] \in Runs =>
          /\ pc[w] \in TouchedPc \/ ctx[w] # "pre" => status[msg[w]] \notin {"none", "queued"}
          /\ outputs[msg[w]] # {} =>
                \/ pc[w] \in {"reply", "finally", "ack"}
                \/ pc[w] \in {"check", "write", "log"} /\ goal[w] \in {"succeeded", "failed"}
          /\ status[msg[w]] = "canceled" =>
                \/ pc[w] \in {"finally", "ack"}
                \/ pc[w] = "log" /\ goal[w] = "canceled"
                \/ pc[w] = "check" /\ goal[w] = "failed"

WorkOK == \A w \in Workers : Work(w)

\* Nothing has happened to a run that no worker has had.
Fresh(r) == outputs[r] = {} /\ status[r] # "canceled"

RunOK == \A r \in Runs : Fresh(r) \/ Handed(r)

\* What is left of a run when its worker is through with it.
ResultOK ==
    /\ RunOK
    /\ OnlyStraysDeadLettered
    /\ NothingAckedUnhandled
    /\ CanceledLeavesNothing
    /\ SucceededIsComplete

\* A message in hand, and a message handed out, is that of a published run or a stray.
LEMMA HandedIsPublished ==
    ASSUME TypeInv, DispatchOK, NEW r \in Runs, Handed(r)
    PROVE  submit[r] = "published" /\ status[r] # "none"
BY DEF TypeInv, TypeOK, StreamTypes, DispatchOK, StreamOK, RowOK, Handed

\* The run of a worker is one of them.
LEMMA HeldIsHanded ==
    ASSUME DispatchOK, NEW w \in Workers, msg[w] # None
    PROVE  Handed(msg[w])
BY DEF DispatchOK, HoldOK

\* Only its own steps move a worker.
LEMMA Movers ==
    ASSUME TypeInv, [Next]_vars, NEW v \in Workers
    PROVE  \/ Consumer(v) \/ Failure(v)
           \/ pc'[v] = pc[v] /\ ctx'[v] = ctx[v] /\ goal'[v] = goal[v] /\ msg'[v] = msg[v]
<1> USE DEF TypeInv, TypeOK, WorkerTypes, gatewayVars, storeVars, streamVars, jobVars,
            sweepVars
<1> DEFINE Still == pc'[v] = pc[v] /\ ctx'[v] = ctx[v] /\ goal'[v] = goal[v] /\ msg'[v] = msg[v]
<1>1. CASE UNCHANGED vars
  BY <1>1 DEF vars
<1>2. CASE \/ \E r \in Runs : Gateway(r) \/ Age(r)
           \/ \E s \in Strays : PublishStray(s)
  BY <1>2 DEF Gateway, CreateRun, LogQueued, Publish, CancelRead, CancelWrite, CancelLog,
              Age, PublishStray
<1>3. ASSUME NEW w \in Workers, w # v, Consumer(w) \/ Heartbeat(w) \/ Failure(w)
      PROVE  Still
  <2> USE <1>3 DEF Goto, Aim
  <2>1. CASE Raise(w)
    BY <2>1 DEF Raise, End
  <2>2. CASE Crash(w)
    BY <2>2 DEF Crash, End
  <2>3. CASE Check(w)
    BY <2>1, <2>3 DEF Check
  <2>4. CASE StoreFault(w)
    BY <2>1, <2>4 DEF StoreFault
  <2>5. CASE \/ Sweep(w) \/ MarkLost(w) \/ LogLost(w) \/ Read(w) \/ ReadNothing(w)
             \/ LoseRead(w)
    BY <2>5 DEF Sweep, MarkLost, LogLost, Read, ReadNothing, LoseRead
  <2>6. CASE Lookup(w) \/ DeadLetter(w) \/ CancelCheck(w) \/ CancelChoose(w)
    BY <2>6 DEF Lookup, DeadLetter, CancelCheck, CancelChoose
  <2>7. CASE Write(w) \/ Log(w) \/ Execute(w) \/ PostCheck(w)
    BY <2>7 DEF Write, Log, Execute, PostCheck
  <2>8. CASE \/ RecordArtifacts(w) \/ RecordReply(w) \/ StopHeartbeat(w) \/ Ack(w)
             \/ Heartbeat(w) \/ Interrupt(w)
    BY <2>8 DEF RecordArtifacts, RecordReply, StopHeartbeat, Ack, Heartbeat, Interrupt
  <2>9. QED
    BY <1>3, <2>2, <2>3, <2>4, <2>5, <2>6, <2>7, <2>8 DEF Consumer, Failure
<1>4. CASE Heartbeat(v)
  BY <1>4 DEF Heartbeat
<1>5. QED
  BY <1>1, <1>2, <1>3, <1>4 DEF Next

\* Who writes what a run leaves behind.
LEMMA OutputWrites ==
    ASSUME TypeInv, [Next]_vars, NEW r \in Runs
    PROVE  \/ outputs'[r] = outputs[r]
           \/ \E w \in Workers : (RecordArtifacts(w) \/ RecordReply(w)) /\ msg[w] = r
<1> USE DEF TypeInv, TypeOK, StoreTypes, storeVars
<1>1. CASE UNCHANGED outputs
  BY <1>1
<1>2. ASSUME NEW w \in Workers, RecordArtifacts(w) \/ RecordReply(w)
      PROVE  outputs'[r] = outputs[r] \/ msg[w] = r
  BY <1>2 DEF RecordArtifacts, RecordReply
<1>3. QED
  BY <1>1, <1>2
     DEF Next, vars, Gateway, CreateRun, LogQueued, Publish, CancelRead, CancelWrite,
         CancelLog, Age, PublishStray, Consumer, Heartbeat, Failure, Sweep, MarkLost,
         LogLost, Read, ReadNothing, Lookup, DeadLetter, CancelCheck, CancelChoose, Check,
         Write, Log, Execute, PostCheck, StopHeartbeat, Ack, StoreFault, LoseRead, Crash, Interrupt

\* Who writes its result.
LEMMA ResultWrites ==
    ASSUME TypeInv, [Next]_vars
    PROVE  \/ UNCHANGED results
           \/ \E w \in Workers : Write(w)
BY DEF Next, vars, storeVars, Gateway, CreateRun, LogQueued, Publish, CancelRead,
       CancelWrite, CancelLog, Age, PublishStray, Consumer, Heartbeat, Failure, Sweep,
       MarkLost, LogLost, Read, ReadNothing, Lookup, DeadLetter, CancelCheck,
       CancelChoose, Check, Log, Execute, PostCheck, RecordArtifacts, RecordReply,
       StopHeartbeat, Ack, StoreFault, LoseRead, Crash, Interrupt

\* Who writes the dead-letter stream.
LEMMA DeadLetterWrites ==
    ASSUME TypeInv, [Next]_vars
    PROVE  \/ UNCHANGED deadLetters
           \/ \E w \in Workers : DeadLetter(w)
BY DEF Next, vars, streamVars, Gateway, CreateRun, LogQueued, Publish, CancelRead,
       CancelWrite, CancelLog, Age, PublishStray, Consumer, Heartbeat, Failure, Sweep,
       MarkLost, LogLost, Read, ReadNothing, Lookup, CancelCheck, CancelChoose, Check,
       Write, Log, Execute, PostCheck, RecordArtifacts, RecordReply, StopHeartbeat, Ack,
       StoreFault, LoseRead, Crash, Interrupt

\* Who records an event of a run.
LEMMA EventWrites ==
    ASSUME TypeInv, [Next]_vars, NEW r \in Runs, NEW s \in log'[r]
    PROVE  \/ s \in log[r]
           \/ s \in {"queued", "cancel_requested"}
           \/ s = "lost" /\ \E w \in Workers : LogLost(w) /\ victim[w] = r
           \/ \E w \in Workers : pc[w] = "log" /\ goal[w] = s /\ msg[w] = r
<1> USE DEF TypeInv, TypeOK, StoreTypes, storeVars
<1>1. CASE UNCHANGED log
  BY <1>1
<1>2. ASSUME NEW q \in Runs, LogQueued(q) \/ CancelLog(q)
      PROVE  s \in log[r] \/ s \in {"queued", "cancel_requested"}
  BY <1>2 DEF LogQueued, CancelLog
<1>3. ASSUME NEW w \in Workers, LogLost(w)
      PROVE  s \in log[r] \/ (s = "lost" /\ victim[w] = r)
  BY <1>3 DEF LogLost
<1>4. ASSUME NEW w \in Workers, Log(w) \/ StoreFault(w), log' # log
      PROVE  s \in log[r] \/ (pc[w] = "log" /\ goal[w] = s /\ msg[w] = r)
  <2>1. pc[w] = "log" /\ log' = [log EXCEPT ![msg[w]] = @ \cup {goal[w]}]
    BY <1>4 DEF Log, StoreFault
  <2>2. QED
    BY <2>1
<1>5. QED
  BY <1>1, <1>2, <1>3, <1>4
     DEF Next, vars, Gateway, CreateRun, Publish, CancelRead, CancelWrite,
         Age, PublishStray, Consumer, Heartbeat, Failure, Sweep, MarkLost,
         Read, ReadNothing, Lookup, DeadLetter, CancelCheck, CancelChoose, Check,
         Write, Execute, PostCheck, RecordArtifacts, RecordReply, StopHeartbeat, Ack,
         LoseRead, Crash, Interrupt

\* The snapshot of a sweeper only shrinks until it takes another one.
LEMMA SweptMoves ==
    ASSUME TypeInv, [Next]_vars, NEW w \in Workers
    PROVE  swept'[w] \subseteq swept[w] \/ Sweep(w)
<1> USE DEF TypeInv, TypeOK, WorkerTypes, sweepVars
<1>1. CASE UNCHANGED swept
  BY <1>1
<1>2. ASSUME NEW v \in Workers, Raise(v) \/ Crash(v) \/ MarkLost(v)
      PROVE  swept'[w] \subseteq swept[w]
  BY <1>2 DEF Raise, End, Crash, MarkLost
<1>3. ASSUME NEW v \in Workers, Sweep(v) PROVE swept'[w] \subseteq swept[w] \/ Sweep(w)
  BY <1>3 DEF Sweep
<1>4. QED
  BY <1>1, <1>2, <1>3
     DEF Next, vars, Gateway, CreateRun, LogQueued, Publish, CancelRead, CancelWrite,
         CancelLog, Age, PublishStray, Consumer, Heartbeat, Failure, LogLost, Read,
         ReadNothing, Lookup, DeadLetter, CancelCheck, CancelChoose, Check, Write, Log,
         Execute, PostCheck, RecordArtifacts, RecordReply, StopHeartbeat, Ack, StoreFault,
         LoseRead, Interrupt

\* A submission only goes forward.
LEMMA SubmitMoves ==
    ASSUME TypeInv, [Next]_vars, NEW r \in Runs, submit'[r] = "new"
    PROVE  submit[r] = "new" /\ ~CreateRun(r)
<1> USE DEF TypeInv, TypeOK, StoreTypes, gatewayVars
<1>1. CASE UNCHANGED submit
  BY <1>1 DEF CreateRun
<1>2. ASSUME NEW q \in Runs, CreateRun(q) \/ LogQueued(q) \/ Publish(q)
      PROVE  submit[r] = "new" /\ ~CreateRun(r)
  BY <1>2 DEF CreateRun, LogQueued, Publish
<1>3. QED
  BY <1>1, <1>2
     DEF Next, vars, Gateway, CancelRead, CancelWrite, CancelLog, Age, PublishStray,
         Consumer, Heartbeat, Failure, Sweep, MarkLost, LogLost, Read, ReadNothing,
         Lookup, DeadLetter, CancelCheck, CancelChoose, Check, Write, Log, Execute,
         PostCheck, RecordArtifacts, RecordReply, StopHeartbeat, Ack, StoreFault, LoseRead,
         Crash, Interrupt

\* What others do does not disturb a worker that stays where it is.
LEMMA WorkFrame ==
    ASSUME TypeInv, DispatchOK, [Next]_vars, NEW v \in Workers, Work(v),
           pc'[v] = pc[v], ctx'[v] = ctx[v], goal'[v] = goal[v], msg'[v] = msg[v]
    PROVE  Work(v)'
<1> USE DEF TypeInv, TypeOK, WorkerTypes, StoreTypes, Goto, Aim
<1>1. deadLetters \subseteq deadLetters' /\ results \subseteq results'
  BY DeadLetterWrites, ResultWrites DEF DeadLetter, Write, streamVars, storeVars
<1>2. CASE msg[v] \in Runs
  <2>1. Handed(msg[v]) /\ submit[msg[v]] = "published"
    BY <1>2, HeldIsHanded, HandedIsPublished
  <2>2. \A w \in Workers : msg[w] = msg[v] => w = v
    BY <1>2 DEF DispatchOK, HoldOK
  <2>3. outputs'[msg[v]] = outputs[msg[v]]
    BY <1>2, <2>2, OutputWrites DEF RecordArtifacts, RecordReply
  <2>4. ~CreateRun(msg[v])
    BY <2>1 DEF CreateRun
  <2>5. ~Write(v)
    BY DEF Write
  <2>6. \/ status'[msg[v]] = status[msg[v]]
        \/ status'[msg[v]] \notin {"none", "queued", "canceled"}
    BY <1>2, <2>2, <2>4, <2>5, StatusWrites
  <2>7. QED
    BY <1>1, <1>2, <2>3, <2>6 DEF Work
<1>3. CASE msg[v] \notin Runs
  <2>1. pc[v] # "reply" /\ ~(pc[v] \in {"check", "write", "log"})
    BY <1>3 DEF JobOK, Job, TryPc, StorePc
  <2>2. QED
    BY <1>1, <1>3, <2>1 DEF Work
<1>4. QED
  BY <1>2, <1>3

\* An exception leaves nothing more behind than there was.
LEMMA RaiseWork ==
    ASSUME TypeInv, NEW w \in Workers, Work(w), Raise(w),
           UNCHANGED <<status, outputs, results, deadLetters>>
    PROVE  Work(w)'
<1> USE DEF TypeInv, TypeOK, WorkerTypes, Goto, Aim
<1>1. CASE End(w, "dead")
  BY <1>1 DEF End, Work, TouchedPc
<1>2. CASE ctx[w] = "body" /\ ctx' = [ctx EXCEPT ![w] = "handler"] /\ Aim(w, "failed")
           /\ UNCHANGED msg
  BY <1>2 DEF Work, TouchedPc
<1>3. CASE ctx[w] = "handler" /\ ctx' = [ctx EXCEPT ![w] = "raise"]
           /\ Goto(w, "finally") /\ UNCHANGED <<msg, goal>>
  BY <1>3 DEF Work, TouchedPc, JobOK, Job
<1>4. QED
  BY <1>1, <1>2, <1>3 DEF Raise

\* In the main loop a worker has no message to account for.
LEMMA WorkIdle ==
    ASSUME NEW w \in Workers, msg'[w] = None, pc'[w] \in LoopPc \cup EndedPc
    PROVE  Work(w)'
BY DEF Work, LoopPc, EndedPc

\* A step of a worker that may fail keeps its account.
LEMMA WorkFailure ==
    ASSUME TypeInv, NEW w \in Workers, Work(w), Failure(w)
    PROVE  Work(w)'
<1> USE DEF TypeInv, TypeOK, WorkerTypes, Goto, storeVars, streamVars
<1>1. CASE StoreFault(w)
  BY <1>1, RaiseWork DEF StoreFault
<1>2. CASE Crash(w)
  BY <1>2, WorkIdle DEF Crash, End, EndedPc
<1>3. CASE Interrupt(w)
  BY <1>3 DEF Interrupt, Work, TouchedPc, JobOK, Job
<1>4. CASE LoseRead(w)
  BY <1>4, WorkIdle DEF LoseRead, LoopPc, EndedPc, JobOK, Job
<1>5. QED
  BY <1>1, <1>2, <1>3, <1>4 DEF Failure

\* A worker that goes on keeps its account, whatever it does next.
LEMMA WorkConsumer ==
    ASSUME TypeInv, DispatchOK, RunOK, NEW w \in Workers, Work(w), Consumer(w)
    PROVE  Work(w)'
<1> USE DEF TypeInv, TypeOK, WorkerTypes, Goto, Aim, storeVars, streamVars, TouchedPc
<1>0. Job(w)
  BY DEF JobOK
<1>1. CASE Sweep(w) \/ MarkLost(w) \/ LogLost(w) \/ ReadNothing(w)
  <2>1. msg'[w] = None /\ pc'[w] \in LoopPc
    BY <1>0, <1>1 DEF Sweep, MarkLost, LogLost, ReadNothing, Job, LoopPc
  <2>2. QED
    BY <2>1, WorkIdle
<1>2. CASE Read(w)
  <2>0. PICK m \in Messages : m = stream[delivered + 1]
    BY <1>2 DEF Read, StreamTypes
  <2>1. /\ pc'[w] = "lookup" /\ msg'[w] = m /\ ctx'[w] = "pre"
        /\ UNCHANGED <<status, outputs>>
    BY <1>0, <1>2, <2>0 DEF Read, Job, LoopPc, EndedPc, TryPc, StorePc, Context
  <2>2. ~Handed(m)
    BY <1>2, <2>0 DEF Read, StreamTypes, DispatchOK, StreamOK, Handed
  <2>3. m \in Runs => Fresh(m)
    BY <2>2 DEF RunOK
  <2>4. QED
    BY <2>1, <2>3 DEF Work, Fresh
<1>3. CASE Lookup(w)
  <2>1. msg[w] \in Runs => status[msg[w]] # "none"
    BY <1>0, <1>3, HeldIsHanded, HandedIsPublished DEF Lookup, Job, LoopPc, EndedPc
  <2>2. msg[w] \in Runs \cup Strays
    BY <1>0, <1>3 DEF Lookup, Job, LoopPc, EndedPc
  <2>3. ctx[w] = "pre" /\ msg' = msg /\ ctx' = ctx
    BY <1>0, <1>3 DEF Lookup, Job, TryPc, StorePc, Context
  <2>4. CASE pc'[w] = "deadLetter"
    BY <1>3, <2>1, <2>2, <2>3, <2>4 DEF Lookup, Work
  <2>5. CASE pc'[w] = "ack" /\ msg[w] \in Runs /\ status[msg[w]] \in TERMINAL_RUN_STATUSES
    BY <1>3, <2>3, <2>5 DEF Lookup, Work, TERMINAL_RUN_STATUSES
  <2>6. CASE /\ pc'[w] = "cancelCheck" \/ (pc'[w] = "check" /\ goal'[w] = "failed")
             /\ msg[w] \in Runs /\ status[msg[w]] \notin TERMINAL_RUN_STATUSES
    BY <1>3, <2>3, <2>6 DEF Lookup, Work, TERMINAL_RUN_STATUSES
  <2>7. QED
    BY <1>3, <2>4, <2>5, <2>6 DEF Lookup
<1>4. CASE DeadLetter(w)
  BY <1>0, <1>4 DEF DeadLetter, Work, Job, TryPc, StorePc
<1>5. CASE CancelCheck(w)
  BY <1>0, <1>5 DEF CancelCheck, Work, Job
<1>6. CASE CancelChoose(w)
  BY <1>0, <1>6 DEF CancelChoose, Work, Job
<1>7. CASE Check(w)
  <2>1. CASE Raise(w)
    BY <1>7, <2>1, RaiseWork DEF Check
  <2>2. CASE IsValidTransition(status[msg[w]], goal[w]) /\ ~Raise(w)
    <3>1. /\ pc' = [pc EXCEPT ![w] = "write"]
          /\ UNCHANGED <<ctx, goal, msg, status, outputs, results>>
      BY <1>7, <2>2 DEF Check
    <3>2. ~(status[msg[w]] = "canceled" /\ goal[w] = "failed")
      BY <2>2 DEF IsValidTransition, VALID_RUN_TRANSITIONS
    <3>3. QED
      BY <1>7, <3>1, <3>2 DEF Check, Work
  <2>3. QED
    BY <1>7, <2>1, <2>2 DEF Check
<1>8. CASE Write(w)
  <2>1. msg[w] \in Runs /\ goal[w] \in Target
    BY <1>0, <1>8 DEF Write, Job, TryPc, StorePc
  <2>2. status'[msg[w]] = goal[w] /\ UNCHANGED <<msg, ctx, outputs, deadLetters>>
    BY <1>8, <2>1 DEF Write, StoreTypes
  <2>3. CASE goal[w] = "cancelling"
    <3>1. pc'[w] = "check" /\ goal'[w] = "canceled"
      BY <1>8, <2>3 DEF Write
    <3>2. QED
      BY <1>8, <2>1, <2>2, <2>3, <3>1 DEF Write, Work
  <2>4. CASE goal[w] # "cancelling"
    <3>1. pc'[w] = "log" /\ goal'[w] = goal[w]
      BY <1>8, <2>4 DEF Write
    <3>2. goal[w] = "succeeded" => msg[w] \in results'
      BY <1>8 DEF Write
    <3>3. QED
      BY <1>8, <2>1, <2>2, <2>4, <3>1, <3>2 DEF Write, Work, Target, Outcomes
  <2>5. QED
    BY <2>3, <2>4
<1>9. CASE Log(w)
  <2>1. msg[w] \in Runs /\ UNCHANGED <<msg, status, outputs, results, deadLetters>>
    BY <1>0, <1>9 DEF Log, Job, TryPc, StorePc
  <2>2. CASE goal[w] = "starting"
    <3>1. pc'[w] = "check" /\ goal'[w] = "running" /\ ctx'[w] = "body"
      BY <1>9, <2>2 DEF Log, Outcomes
    <3>2. QED
      BY <1>9, <2>1, <2>2, <3>1 DEF Log, Work
  <2>3. CASE goal[w] = "running"
    <3>1. pc'[w] = "execute" /\ UNCHANGED <<goal, ctx>>
      BY <1>9, <2>3 DEF Log, Outcomes
    <3>2. QED
      BY <1>9, <2>1, <2>3, <3>1 DEF Log, Work
  <2>4. CASE goal[w] \in Outcomes
    <3>1. pc'[w] \in {"ack", "finally"} /\ UNCHANGED <<goal, ctx>>
      BY <1>9, <2>4 DEF Log, Outcomes
    <3>2. QED
      BY <1>9, <2>1, <3>1 DEF Log, Work
  <2>5. QED
    BY <1>9, <2>2, <2>3, <2>4 DEF Log
<1>10. CASE Execute(w)
  BY <1>0, <1>10 DEF Execute, Work, Job
<1>11. CASE PostCheck(w)
  BY <1>0, <1>11 DEF PostCheck, Work, Job
<1>12. CASE RecordArtifacts(w)
  BY <1>0, <1>12 DEF RecordArtifacts, Work, Job, TryPc, StorePc, StoreTypes
<1>13. CASE RecordReply(w)
  <2>1. /\ msg[w] \in Runs /\ status[msg[w]] \notin {"none", "queued", "canceled"}
        /\ "artifacts" \in outputs[msg[w]]
    BY <1>0, <1>13 DEF RecordReply, Work, Job, TryPc, StorePc
  <2>2. outputs'[msg[w]] = Output
    BY <1>13, <2>1 DEF RecordReply, StoreTypes, Output
  <2>3. pc'[w] = "check" /\ goal'[w] = "succeeded" /\ UNCHANGED <<msg, ctx, status>>
    BY <1>13 DEF RecordReply
  <2>4. QED
    BY <2>1, <2>2, <2>3 DEF Work
<1>14. CASE StopHeartbeat(w)
  BY <1>0, <1>14 DEF StopHeartbeat, Work, Job
<1>15. CASE Ack(w)
  <2>1. msg'[w] = None /\ pc'[w] \in {"dead", "stopped", "loop"}
    BY <1>15 DEF Ack
  <2>2. QED
    BY <2>1, WorkIdle DEF LoopPc, EndedPc
<1>16. QED
  BY <1>1, <1>2, <1>3, <1>4, <1>5, <1>6, <1>7, <1>8, <1>9, <1>10, <1>11, <1>12, <1>13,
     <1>14, <1>15 DEF Consumer

\* Every step keeps every account.
LEMMA WorkStep ==
    ASSUME TypeInv, DispatchOK, WorkOK, RunOK, [Next]_vars
    PROVE  WorkOK'
BY Movers, WorkFrame, WorkConsumer, WorkFailure DEF WorkOK

\* A run no worker has had is untouched.
LEMMA FreshStep ==
    ASSUME TypeInv, DispatchOK, WorkOK, RunOK, [Next]_vars
    PROVE  RunOK'
<1> SUFFICES ASSUME NEW r \in Runs, ~Handed(r)' PROVE Fresh(r)'
  BY DEF RunOK
<1>1. ~Handed(r) /\ Fresh(r)
  BY HandedStays DEF RunOK
<1>2. \A w \in Workers : msg[w] # r
  BY <1>1, HeldIsHanded
<1>3. outputs'[r] = outputs[r]
  BY <1>2, OutputWrites
<1>4. status'[r] # "canceled"
  BY <1>1, <1>2, StatusWrites DEF Fresh
<1>5. QED
  BY <1>1, <1>3, <1>4 DEF Fresh

\* Only strays are dead-lettered, and nothing is taken off the dead-letter stream.
LEMMA DeadLetterStep ==
    ASSUME TypeInv, WorkOK, OnlyStraysDeadLettered, [Next]_vars
    PROVE  OnlyStraysDeadLettered' /\ deadLetters \subseteq deadLetters'
<1>1. CASE UNCHANGED deadLetters
  BY <1>1 DEF OnlyStraysDeadLettered
<1>2. ASSUME NEW w \in Workers, DeadLetter(w)
      PROVE  OnlyStraysDeadLettered' /\ deadLetters \subseteq deadLetters'
  BY <1>2 DEF DeadLetter, OnlyStraysDeadLettered, WorkOK, Work
<1>3. QED
  BY <1>1, <1>2, DeadLetterWrites

\* A message becomes acknowledged only by the worker that has it.
LEMMA Acks ==
    ASSUME TypeInv, DispatchOK, [Next]_vars, NEW m, Acked(m)'
    PROVE  Acked(m) \/ \E w \in Workers : Ack(w) /\ msg[w] = m
<1> USE DEF TypeInv, TypeOK, StreamTypes, Acked, Handed
<1>1. ASSUME NEW w \in Workers, Read(w) \/ LoseRead(w) PROVE Acked(m)
  <2>1. /\ stream' = stream /\ delivered' = delivered + 1
        /\ pending' = pending \cup {stream[delivered + 1]}
    BY <1>1 DEF Read, LoseRead
  <2>2. QED
    BY <2>1
<1>2. ASSUME NEW w \in Workers, Ack(w) PROVE Acked(m) \/ msg[w] = m
  BY <1>2 DEF Ack
<1>3. CASE UNCHANGED <<delivered, pending>>
  <2>1. \A i \in 1..delivered : stream'[i] = stream[i]
    BY Sends DEF Publish, PublishStray, Messages
  <2>2. QED
    BY <1>3, <2>1
<1>4. QED
  BY <1>1, <1>2, <1>3, Hands

\* What is acknowledged has been started, ended or copied.
LEMMA AckStep ==
    ASSUME TypeInv, DispatchOK, WorkOK, ResultOK, [Next]_vars
    PROVE  NothingAckedUnhandled'
<1> USE DEF ResultOK, NothingAckedUnhandled
<1>1. ASSUME NEW r \in Runs, Acked(r)' PROVE status'[r] \notin {"none", "queued"}
  <2>1. CASE Acked(r)
    <3>1. submit[r] = "published"
      BY <2>1, HandedIsPublished DEF Acked
    <3>2. ~CreateRun(r)
      BY <3>1 DEF CreateRun
    <3>3. QED
      BY <2>1, <3>2, StatusWrites DEF Target, Outcomes
  <2>2. ASSUME NEW w \in Workers, Ack(w), msg[w] = r
        PROVE  status'[r] \notin {"none", "queued"}
    BY <2>2 DEF Ack, storeVars, WorkOK, Work, TouchedPc
  <2>3. QED
    BY <1>1, <2>1, <2>2, Acks
<1>2. ASSUME NEW s \in Strays, Acked(s)' PROVE s \in deadLetters'
  <2>1. CASE Acked(s)
    BY <2>1, DeadLetterStep
  <2>2. ASSUME NEW w \in Workers, Ack(w), msg[w] = s PROVE s \in deadLetters'
    BY <2>2, DeadLetterStep DEF Ack, WorkOK, Work
  <2>3. QED
    BY <1>2, <2>1, <2>2, Acks
<1>3. QED
  BY <1>1, <1>2

\* What has just got a status had what the status stands for.
LEMMA OutcomeStep ==
    ASSUME TypeInv, DispatchOK, WorkOK, ResultOK, [Next]_vars
    PROVE  CanceledLeavesNothing' /\ SucceededIsComplete'
<1> USE DEF ResultOK, TypeInv, TypeOK, StoreTypes, WorkerTypes
<1>1. ASSUME NEW r \in Runs
      PROVE  outputs[r] \subseteq outputs'[r] /\ outputs'[r] \subseteq Output
  <2>1. CASE outputs'[r] = outputs[r]
    BY <2>1
  <2>2. ASSUME NEW w \in Workers, RecordArtifacts(w) \/ RecordReply(w), msg[w] = r
        PROVE  outputs[r] \subseteq outputs'[r] /\ outputs'[r] \subseteq Output
    BY <2>2 DEF RecordArtifacts, RecordReply, Output
  <2>3. QED
    BY <2>1, <2>2, OutputWrites
<1>2. ASSUME NEW r \in Runs, r \in results'
      PROVE  \/ r \in results
             \/ \E w \in Workers : Write(w) /\ goal[w] = "succeeded" /\ msg[w] = r
  BY <1>2, ResultWrites DEF Write
<1>3. results \subseteq results'
  BY ResultWrites DEF Write
<1>4. ASSUME NEW r \in Runs, r \in results' PROVE outputs'[r] = Output
  <2>1. outputs[r] = Output
    BY <1>2, <1>4 DEF SucceededIsComplete, WorkOK, Work, Write
  <2>2. QED
    BY <1>1, <2>1
<1>5. ASSUME NEW r \in Runs, status'[r] = "succeeded" PROVE r \in results'
  <2>1. CASE status[r] = "succeeded"
    BY <1>3, <2>1 DEF SucceededIsComplete
  <2>2. ASSUME NEW w \in Workers, Write(w), msg[w] = r, status'[r] = goal[w]
        PROVE  r \in results'
    BY <1>5, <2>2 DEF Write
  <2>3. QED
    BY <1>5, <2>1, <2>2, StatusWrites
<1>6. ASSUME NEW r \in Runs, "succeeded" \in log'[r] PROVE r \in results'
  BY <1>3, <1>6, EventWrites DEF SucceededIsComplete, WorkOK, Work
<1>7. ASSUME NEW r \in Runs, status'[r] = "canceled"
      PROVE  outputs'[r] = {} /\ r \notin results'
  <2>1. CASE status[r] = "canceled"
    <3>1. outputs[r] = {} /\ r \notin results
      BY <2>1 DEF CanceledLeavesNothing
    <3>2. \A w \in Workers : msg[w] = r => pc[w] \notin {"write", "artifacts", "reply"}
      BY <2>1 DEF WorkOK, Work
    <3>3. outputs'[r] = outputs[r]
      BY <3>2, OutputWrites DEF RecordArtifacts, RecordReply
    <3>4. r \notin results'
      BY <1>2, <3>1, <3>2 DEF Write
    <3>5. QED
      BY <3>1, <3>3, <3>4
  <2>2. ASSUME NEW w \in Workers, Write(w), msg[w] = r, goal[w] = "canceled"
        PROVE  outputs'[r] = {} /\ r \notin results'
    <3>1. outputs[r] = {}
      BY <2>2 DEF Write, WorkOK, Work
    <3>2. outputs' = outputs /\ results' = results \cup {}
      BY <2>2 DEF Write
    <3>3. Output # {}
      BY DEF Output
    <3>4. r \notin results
      BY <3>1, <3>3 DEF SucceededIsComplete
    <3>5. QED
      BY <3>1, <3>2, <3>4
  <2>3. QED
    BY <1>7, <2>1, <2>2, StatusWrites
<1>8. QED
  BY <1>4, <1>5, <1>6, <1>7 DEF CanceledLeavesNothing, SucceededIsComplete

\* The account of every worker, and what it leaves of a run, are in order for ever.
LEMMA ResultOKAlways == Spec => [](WorkOK /\ ResultOK)
<1>1. Init => WorkOK /\ ResultOK
  BY DEF Init, WorkOK, Work, TouchedPc, ResultOK, RunOK, Fresh, OnlyStraysDeadLettered,
         NothingAckedUnhandled, Acked, Handed, CanceledLeavesNothing, SucceededIsComplete
<1>2. TypeInv /\ DispatchOK /\ (WorkOK /\ ResultOK) /\ [Next]_vars => (WorkOK /\ ResultOK)'
  BY WorkStep, FreshStep, DeadLetterStep, AckStep, OutcomeStep DEF ResultOK
<1>3. QED
  BY TypeInvAlways, DispatchOKAlways, <1>1, <1>2, PTL DEF Spec

\* No run a client submitted ever ends in the dead-letter stream, no message is
\* acknowledged while its run still waits in "queued", nor a stray before its copy is in
\* the dead-letter stream.
THEOREM NoneIsDropped == Spec => []NothingIsDropped
<1>1. ResultOK => NothingIsDropped
  BY DEF ResultOK, NothingIsDropped
<1>2. QED
  BY ResultOKAlways, <1>1, PTL

\* A canceled run never shows artifacts, a reply or a result, and a succeeded one shows
\* everything its worker produced for it.
THEOREM OutcomesMatch == Spec => []OutcomeMatchesOutputs
<1>1. ResultOK => OutcomeMatchesOutputs
  BY DEF ResultOK, OutcomeMatchesOutputs
<1>2. QED
  BY ResultOKAlways, <1>1, PTL

\* A cancel request moves only by its own steps.
LEMMA CancelMoves ==
    ASSUME TypeInv, [Next]_vars, NEW r \in Runs
    PROVE  cancel'[r] = cancel[r] \/ CancelRead(r) \/ CancelWrite(r) \/ CancelLog(r)
<1> USE DEF TypeInv, TypeOK, StoreTypes, gatewayVars
<1>1. CASE UNCHANGED cancel
  BY <1>1
<1>2. ASSUME NEW q \in Runs, CancelRead(q) \/ CancelWrite(q) \/ CancelLog(q), q # r
      PROVE  cancel'[r] = cancel[r]
  BY <1>2 DEF CancelRead, CancelWrite, CancelLog
<1>3. QED
  BY <1>1, <1>2
     DEF Next, vars, Gateway, CreateRun, LogQueued, Publish, Age, PublishStray, Consumer,
         Heartbeat, Failure, Sweep, MarkLost, LogLost, Read, ReadNothing, Lookup,
         DeadLetter, CancelCheck, CancelChoose, Check, Write, Log, Execute, PostCheck,
         RecordArtifacts, RecordReply, StopHeartbeat, Ack, StoreFault, LoseRead, Crash,
         Interrupt

-----------------------------------------------------------------------------
\* Before its row is inserted nobody knows of a run.
Unborn(r) == status[r] = "none" /\ cancel[r] = "idle" /\ \A w \in Workers : r \notin swept[w]

UnbornOK == \A r \in Runs : submit[r] = "new" => Unborn(r)

\* Nobody ever does.
LEMMA UnbornAlways == Spec => []UnbornOK
<1>1. Init => UnbornOK
  BY DEF Init, UnbornOK, Unborn
<1>2. TypeInv /\ DispatchOK /\ UnbornOK /\ [Next]_vars => UnbornOK'
  <2> SUFFICES ASSUME TypeInv, DispatchOK, UnbornOK, [Next]_vars, NEW r \in Runs,
                      submit'[r] = "new"
               PROVE  Unborn(r)'
    BY DEF UnbornOK
  <2>1. submit[r] = "new" /\ ~CreateRun(r) /\ Unborn(r)
    BY SubmitMoves DEF UnbornOK
  <2>2. \A w \in Workers : msg[w] # r
    BY <2>1, HeldIsHanded, HandedIsPublished
  <2>3. ~CancelRead(r) /\ ~CancelWrite(r) /\ ~CancelLog(r)
    BY <2>1 DEF Unborn, CancelRead, CancelWrite, CancelLog
  <2>4. cancel'[r] = "idle"
    BY <2>1, <2>3, CancelMoves DEF Unborn
  <2>5. status'[r] = "none"
    BY <2>1, <2>2, <2>3, StatusMoves DEF Unborn
  <2>6. ASSUME NEW w \in Workers, Sweep(w) PROVE r \notin swept'[w]
    BY <2>1, <2>6 DEF Sweep, Unborn, HEARTBEAT_RUN_STATUSES, TypeInv, TypeOK, WorkerTypes
  <2>7. \A w \in Workers : r \notin swept'[w]
    BY <2>1, <2>6, SweptMoves DEF Unborn
  <2>8. QED
    BY <2>4, <2>5, <2>7 DEF Unborn
<1>3. QED
  BY TypeInvAlways, DispatchOKAlways, <1>1, <1>2, PTL DEF Spec

-----------------------------------------------------------------------------
\* Nobody asks for a run that is not cancellable to be canceled.
Unasked(r) == cancel[r] = "idle" /\ status[r] # "cancel_requested"

UnaskedOK == \A r \in Uncancelled : Unasked(r)

\* Nobody ever asks, and no worker writes the request by itself.
LEMMA UnaskedAlways == Spec => []UnaskedOK
<1>1. Init => UnaskedOK
  BY DEF Init, UnaskedOK, Unasked, Uncancelled
<1>2. TypeInv /\ UnaskedOK /\ [Next]_vars => UnaskedOK'
  <2> SUFFICES ASSUME TypeInv, UnaskedOK, [Next]_vars, NEW r \in Uncancelled
               PROVE  Unasked(r)'
    BY DEF UnaskedOK, Uncancelled
  <2>0. r \in Runs /\ r \notin Cancellable /\ Unasked(r)
    BY DEF Uncancelled, UnaskedOK
  <2>1. ~CancelRead(r) /\ ~CancelWrite(r) /\ ~CancelLog(r)
    BY <2>0 DEF Unasked, CancelRead, CancelWrite, CancelLog
  <2>2. cancel'[r] = "idle"
    BY <2>0, <2>1, CancelMoves DEF Unasked
  <2>3. status'[r] # "cancel_requested"
    BY <2>0, <2>1, StatusMoves DEF Unasked, Target, Outcomes
  <2>4. QED
    BY <2>2, <2>3 DEF Unasked
<1>3. QED
  BY TypeInvAlways, <1>1, <1>2, PTL DEF Spec

\* The message of a run nobody cancels is acknowledged only when its run is terminal or in
\* a status find_stale_runs looks for, whatever fails and however late heartbeats are.
THEOREM AckedAreSweepable == Spec => []AckedIsSweepable
<1>1. TypeInv /\ ResultOK /\ UnaskedOK => AckedIsSweepable
  BY DEF TypeInv, TypeOK, StoreTypes, ResultOK, NothingAckedUnhandled, UnaskedOK, Unasked,
         AckedIsSweepable, Uncancelled, RunStatus, TERMINAL_RUN_STATUSES,
         HEARTBEAT_RUN_STATUSES
<1>2. QED
  BY TypeInvAlways, ResultOKAlways, UnaskedAlways, <1>1, PTL

-----------------------------------------------------------------------------
\* The event of a start is that of a worker that had the run.
StartsOK == \A r \in Runs : "starting" \in log[r] => Handed(r)

\* No other event of a start is ever recorded.
LEMMA StartsAlways == Spec => []StartsOK
<1>1. Init => StartsOK
  BY DEF Init, StartsOK
<1>2. TypeInv /\ DispatchOK /\ StartsOK /\ [Next]_vars => StartsOK'
  <2> SUFFICES ASSUME TypeInv, DispatchOK, StartsOK, [Next]_vars, NEW r \in Runs,
                      "starting" \in log'[r]
               PROVE  Handed(r)'
    BY DEF StartsOK
  <2>1. Handed(r)
    BY EventWrites, HeldIsHanded DEF StartsOK
  <2>2. QED
    BY <2>1, HandedStays
<1>3. QED
  BY TypeInvAlways, DispatchOKAlways, <1>1, <1>2, PTL DEF Spec

\* A message a worker did not have comes from the stream, and nobody has had it.
LEMMA Takes ==
    ASSUME TypeInv, DispatchOK, [Next]_vars, NEW w \in Workers, msg'[w] \notin {msg[w], None}
    PROVE  Read(w) /\ ~Handed(msg'[w]) /\ pc'[w] = "lookup" /\ ctx'[w] = "pre"
<1> USE DEF TypeInv, TypeOK, WorkerTypes, StreamTypes
<1>0. Job(w)
  BY DEF JobOK
<1>1. Read(w)
  <2>1. CASE Raise(w)
    BY <2>1, RaiseMsg
  <2>2. CASE Crash(w) \/ Ack(w)
    BY <2>2 DEF Crash, End, Ack
  <2>3. CASE UNCHANGED msg
    BY <2>3
  <2>4. QED
    BY <2>1, <2>2, <2>3, Movers
       DEF Consumer, Failure, Sweep, MarkLost, LogLost, ReadNothing, Lookup, DeadLetter,
           CancelCheck, CancelChoose, Check, Write, Log, Execute, PostCheck,
           RecordArtifacts, RecordReply, StopHeartbeat, StoreFault, LoseRead, Interrupt,
           sweepVars
<1>2. msg'[w] = stream[delivered + 1]
  BY <1>1 DEF Read
<1>3. ~Handed(msg'[w])
  BY <1>1, <1>2 DEF Read, DispatchOK, StreamOK, Handed
<1>4. pc'[w] = "lookup" /\ ctx'[w] = "pre"
  BY <1>0, <1>1 DEF Read, Goto, Job, TryPc, StorePc, Context
<1>5. QED
  BY <1>1, <1>3, <1>4

\* A run that can no longer be started: it has left "queued" without a start, and no worker
\* is about to write or record one.
Doomed(r) ==
    /\ "starting" \notin log[r]
    /\ status[r] \notin {"none", "queued", "starting", "running"}
    /\ \A w \in Workers : msg[w] = r =>
          ctx[w] = "pre" /\ ~(pc[w] \in {"write", "log"} /\ goal[w] = "starting")

\* The worker that has such a run does not get as far as to start it.
LEMMA DoomedWorker ==
    ASSUME TypeInv, DispatchOK, [Next]_vars, NEW r \in Runs, Doomed(r),
           NEW w \in Workers, msg'[w] = r
    PROVE  ctx'[w] = "pre" /\ ~(pc'[w] \in {"write", "log"} /\ goal'[w] = "starting")
<1> USE DEF TypeInv, TypeOK, WorkerTypes, Goto, Aim
<1>0. Job(w)
  BY DEF JobOK
<1>1. CASE pc'[w] = pc[w] /\ ctx'[w] = ctx[w] /\ goal'[w] = goal[w] /\ msg'[w] = msg[w]
  BY <1>1 DEF Doomed
<1>2. CASE msg[w] # r
  BY <1>2, Takes
<1>3. CASE msg[w] = r /\ Consumer(w)
  <2>0. ctx[w] = "pre" /\ ~(pc[w] \in {"write", "log"} /\ goal[w] = "starting")
    BY <1>3 DEF Doomed
  <2>2. CASE Check(w)
    <3>1. CASE Raise(w)
      BY <3>1, <2>0 DEF Raise, End
    <3>2. CASE IsValidTransition(status[r], goal[w]) /\ ~Raise(w)
      <4>1. goal[w] # "starting"
        BY <1>3, <3>2 DEF Doomed, IsValidTransition, VALID_RUN_TRANSITIONS, TypeInv,
           TypeOK, StoreTypes, RunStatus, TERMINAL_RUN_STATUSES
      <4>2. QED
        BY <1>3, <2>0, <2>2, <3>2, <4>1 DEF Check
    <3>3. QED
      BY <1>3, <2>2, <3>1, <3>2 DEF Check
  <2>3. CASE Write(w)
    BY <2>0, <2>3 DEF Write
  <2>4. CASE Log(w)
    BY <1>0, <2>0, <2>4 DEF Log, Outcomes, Job
  <2>5. CASE Lookup(w) \/ DeadLetter(w) \/ CancelCheck(w) \/ CancelChoose(w)
    BY <2>0, <2>5 DEF Lookup, DeadLetter, CancelCheck, CancelChoose
  <2>6. CASE Execute(w) \/ PostCheck(w) \/ RecordArtifacts(w) \/ RecordReply(w)
    BY <1>0, <2>0, <2>6 DEF Execute, PostCheck, RecordArtifacts, RecordReply, Job
  <2>7. CASE StopHeartbeat(w) \/ Ack(w)
    BY <1>0, <2>0, <2>7 DEF StopHeartbeat, Ack, Job
  <2>8. CASE Sweep(w) \/ MarkLost(w) \/ LogLost(w) \/ Read(w) \/ ReadNothing(w)
    BY <1>0, <1>3, <2>8 DEF Sweep, MarkLost, LogLost, Read, ReadNothing, Job, LoopPc
  <2>9. QED
    BY <1>3, <2>2, <2>3, <2>4, <2>5, <2>6, <2>7, <2>8 DEF Consumer
<1>4. CASE msg[w] = r /\ Failure(w)
  <2>0. ctx[w] = "pre"
    BY <1>4 DEF Doomed
  <2>1. CASE StoreFault(w)
    BY <2>0, <2>1 DEF StoreFault, Raise, End
  <2>2. CASE Crash(w)
    BY <2>2 DEF Crash, End
  <2>3. CASE Interrupt(w)
    BY <2>0, <2>3 DEF Interrupt
  <2>4. CASE LoseRead(w)
    BY <1>0, <1>4, <2>4 DEF LoseRead, Job, LoopPc
  <2>5. QED
    BY <1>4, <2>1, <2>2, <2>3, <2>4 DEF Failure
<1>5. QED
  BY <1>1, <1>2, <1>3, <1>4, Movers

\* So the run stays one that can no longer be started.
LEMMA DoomedStays ==
    ASSUME TypeInv, DispatchOK, UnbornOK, [Next]_vars, NEW r \in Runs, Doomed(r)
    PROVE  Doomed(r)'
<1>1. "starting" \notin log'[r]
  BY EventWrites DEF Doomed
<1>2. status'[r] \notin {"none", "queued", "starting", "running"}
  <2>1. ~CreateRun(r)
    BY DEF CreateRun, Doomed, UnbornOK, Unborn
  <2>2. ASSUME NEW w \in Workers, Write(w), msg[w] = r
        PROVE  goal[w] \notin {"none", "queued", "starting", "running"}
    BY <2>2 DEF Write, Doomed, TypeInv, JobOK, Job, Target, Outcomes
  <2>3. QED
    BY <2>1, <2>2, StatusMoves DEF Doomed
<1>3. QED
  BY <1>1, <1>2, DoomedWorker DEF Doomed

\* A run whose cancellation was asked for before any worker had it is never started.
THEOREM EarlyCancelsAreHonoured == Spec => EarlyCancelIsHonoured
<1> SUFFICES ASSUME NEW r \in Runs
             PROVE  Spec => [](CanceledEarly(r) => []("starting" \notin log[r]))
  BY DEF EarlyCancelIsHonoured
<1>1. DispatchOK /\ StartsOK /\ CanceledEarly(r) => Doomed(r)
  BY HeldIsHanded DEF CanceledEarly, StartsOK, Doomed
<1>2. TypeInv /\ DispatchOK /\ UnbornOK /\ Doomed(r) /\ [Next]_vars => Doomed(r)'
  BY DoomedStays
<1>3. Doomed(r) => "starting" \notin log[r]
  BY DEF Doomed
<1>4. QED
  BY TypeInvAlways, DispatchOKAlways, UnbornAlways, StartsAlways, <1>1, <1>2, <1>3, PTL
     DEF Spec

-----------------------------------------------------------------------------
\* The four things a step can do to the stream and to what the workers have in hand:
\* an entry is added, one is handed out, one is acknowledged, a worker lets go of its own.
LEMMA DispatchMoves ==
    ASSUME TypeInv, DispatchOK, [Next]_vars
    PROVE  \/ UNCHANGED <<stream, delivered, pending, msg>>
           \/ \E m \in Messages :
                 /\ stream' = Append(stream, m) /\ \A i \in 1..Len(stream) : stream[i] # m
                 /\ UNCHANGED <<delivered, pending, msg>>
           \/ \E w \in Workers : Read(w) \/ LoseRead(w) \/ Ack(w)
           \/ \E w \in Workers :
                 msg' = [msg EXCEPT ![w] = None] /\ UNCHANGED <<stream, delivered, pending>>
<1> USE DEF gatewayVars, storeVars, streamVars, jobVars, sweepVars
<1>1. ASSUME NEW r \in Runs, Publish(r)
      PROVE  \A i \in 1..Len(stream) : stream[i] # r
  BY <1>1 DEF Publish, DispatchOK, StreamOK
<1>2. ASSUME NEW w \in Workers, Raise(w) \/ Crash(w)
      PROVE  UNCHANGED msg \/ msg' = [msg EXCEPT ![w] = None]
  BY <1>2, RaiseMsg DEF Crash, End
<1>3. CASE \E w \in Workers : Consumer(w) \/ Heartbeat(w) \/ Failure(w)
  BY <1>2, <1>3
     DEF Consumer, Heartbeat, Failure, Sweep, MarkLost, LogLost, ReadNothing, Lookup,
         DeadLetter, CancelCheck, CancelChoose, Check, Write, Log, Execute, PostCheck,
         RecordArtifacts, RecordReply, StopHeartbeat, StoreFault, Crash, Interrupt
<1>4. CASE \E r \in Runs : Gateway(r) \/ Age(r)
  BY <1>1, <1>4 DEF Gateway, CreateRun, LogQueued, Publish, CancelRead, CancelWrite,
                    CancelLog, Age
<1>5. CASE \E s \in Strays : PublishStray(s)
  BY <1>5 DEF PublishStray
<1>6. CASE UNCHANGED vars
  BY <1>6 DEF vars
<1>7. QED
  BY <1>3, <1>4, <1>5, <1>6 DEF Next

\* A message that is in the stream.
Sent(m) == \E i \in 1..Len(stream) : stream[i] = m

\* What the mapping of the dispatch says, without its CASE and its CHOOSE.
PhaseOK == \A m \in Messages :
    /\ ~Sent(m) => Phase(m) = "unsent"
    /\ Sent(m) /\ ~Handed(m) => Phase(m) = "queued"
    /\ Handed(m) /\ m \notin pending => Phase(m) = "settled"
    /\ Handed(m) /\ m \in pending /\ Held(m) => Phase(m) = "held"
    /\ Handed(m) /\ m \in pending /\ ~Held(m) => Phase(m) = "stranded"

HolderOK == \A m \in Messages :
    /\ ~Held(m) => Holder(m) = None
    /\ \A w \in Workers : msg[w] = m => Holder(m) = w

\* The stream holds a message once, so the mapping finds it in one place.
LEMMA PhaseIs == TypeInv /\ DispatchOK => PhaseOK
<1> SUFFICES ASSUME TypeInv, DispatchOK, NEW m \in Messages
             PROVE  /\ ~Sent(m) => Phase(m) = "unsent"
                    /\ Sent(m) /\ ~Handed(m) => Phase(m) = "queued"
                    /\ Handed(m) =>
                          Phase(m) = IF m \notin pending THEN "settled"
                                     ELSE IF Held(m) THEN "held" ELSE "stranded"
  BY DEF PhaseOK
<1> DEFINE never == \A i \in 1..Len(stream) : stream[i] # m
           waits == \E i \in (delivered + 1)..Len(stream) : stream[i] = m
<1> USE DEF TypeInv, TypeOK, StreamTypes
<1>1. never <=> ~Sent(m)
  BY DEF Sent
<1>2. waits => Sent(m) /\ ~Handed(m)
  BY DEF Sent, Handed, DispatchOK, StreamOK
<1>3. Sent(m) /\ ~Handed(m) => waits
  BY DEF Sent, Handed
<1>4. Handed(m) => Sent(m)
  BY DEF Sent, Handed
<1>5. Phase(m) = CASE never -> "unsent"
                   [] waits -> "queued"
                   [] OTHER -> IF m \notin pending THEN "settled"
                               ELSE IF Held(m) THEN "held" ELSE "stranded"
  BY DEF Phase
<1> HIDE DEF never, waits
<1>6. QED
  BY <1>1, <1>2, <1>3, <1>4, <1>5

\* And at most one worker has it.
LEMMA HolderIs == DispatchOK => HolderOK
BY DEF HolderOK, Holder, Held, DispatchOK, HoldOK

\* Where nothing changes for a message, the mapping does not.
LEMMA PhaseSame ==
    ASSUME PhaseOK, PhaseOK', NEW m \in Messages,
           Sent(m)' <=> Sent(m), Handed(m)' <=> Handed(m), m \in pending' <=> m \in pending,
           Held(m)' <=> Held(m)
    PROVE  Phase(m)' = Phase(m)
BY DEF PhaseOK

\* Where its workers stay the same, so does its holder.
LEMMA HolderSame ==
    ASSUME HolderOK, HolderOK', NEW m \in Messages,
           \A w \in Workers : msg'[w] = m <=> msg[w] = m
    PROVE  Holder(m)' = Holder(m) /\ (Held(m)' <=> Held(m))
BY DEF HolderOK, Held

\* What is added to the stream is added to what waits in it.
LEMMA QueueGrows ==
    ASSUME TypeInv, NEW m \in Messages
    PROVE  SubSeq(Append(stream, m), delivered + 1, Len(Append(stream, m)))
              = Append(SubSeq(stream, delivered + 1, Len(stream)), m)
<1> DEFINE s == SubSeq(stream, delivered + 1, Len(stream))
           t == SubSeq(Append(stream, m), delivered + 1, Len(stream) + 1)
<1>0. stream \in Seq(Messages) /\ delivered \in 0..Len(stream) /\ Len(stream) \in Nat
  BY DEF TypeInv, TypeOK, StreamTypes
<1>1. /\ s \in Seq(Messages) /\ Len(s) = Len(stream) - delivered
      /\ \A i \in 1..Len(s) : s[i] = stream[delivered + i]
  BY <1>0, SubSeqProperties
<1>2. /\ Append(stream, m) \in Seq(Messages) /\ Len(Append(stream, m)) = Len(stream) + 1
      /\ \A i \in 1..Len(stream) : Append(stream, m)[i] = stream[i]
      /\ Append(stream, m)[Len(stream) + 1] = m
  BY <1>0, AppendProperties
<1>3. \A i \in 1..(Len(stream) + 1) : Append(stream, m)[i] \in Messages
  BY <1>0, <1>2
<1>4. /\ t \in Seq(Messages) /\ Len(t) = Len(stream) - delivered + 1
      /\ \A i \in 1..Len(t) : t[i] = Append(stream, m)[delivered + i]
  BY <1>0, <1>3, SubSeqProperties
<1> HIDE DEF s, t
<1>5. /\ Append(s, m) \in Seq(Messages) /\ Len(Append(s, m)) = Len(s) + 1
      /\ \A i \in 1..Len(s) : Append(s, m)[i] = s[i]
      /\ Append(s, m)[Len(s) + 1] = m
  BY <1>1, AppendProperties
<1>6. Len(t) = Len(Append(s, m))
  BY <1>0, <1>1, <1>4, <1>5
<1>7. ASSUME NEW i \in 1..Len(t) PROVE t[i] = Append(s, m)[i]
  <2>1. CASE i <= Len(s)
    <3>1. i \in 1..Len(s) /\ delivered + i \in 1..Len(stream)
      BY <1>0, <1>1, <1>7, <2>1
    <3>2. QED
      BY <1>1, <1>2, <1>4, <1>5, <1>7, <3>1
  <2>2. CASE i = Len(s) + 1
    <3>1. delivered + i = Len(stream) + 1
      BY <1>0, <1>1, <2>2
    <3>2. QED
      BY <1>2, <1>4, <1>5, <1>7, <2>2, <3>1
  <2>3. QED
    BY <1>0, <1>1, <1>4, <1>7, <2>1, <2>2
<1>8. t = Append(s, m)
  BY <1>4, <1>5, <1>6, <1>7, SeqEqual
<1>9. QED
  BY <1>2, <1>8 DEF s, t

\* A publication is a Send.
LEMMA PublishSends ==
    ASSUME TypeInv, DispatchOK, PhaseOK, PhaseOK', NEW m \in Messages,
           stream' = Append(stream, m), \A i \in 1..Len(stream) : stream[i] # m,
           UNCHANGED <<delivered, pending, msg>>
    PROVE  Dispatch!Send(m)
<1> USE DEF TypeInv, TypeOK, StreamTypes
<1>1. /\ Len(stream') = Len(stream) + 1 /\ stream'[Len(stream) + 1] = m
      /\ \A i \in 1..Len(stream) : stream'[i] = stream[i]
  BY DEF Messages
<1>2. ~Sent(m) /\ Sent(m)' /\ ~Handed(m)'
  BY <1>1 DEF Sent, Handed
<1>3. Phase(m) = "unsent" /\ Phase(m)' = "queued"
  BY <1>2 DEF PhaseOK
<1>4. ASSUME NEW n \in Messages \ {m} PROVE Phase(n)' = Phase(n)
  <2>1. (Sent(n)' <=> Sent(n)) /\ (Handed(n)' <=> Handed(n)) /\ (Held(n)' <=> Held(n))
    BY <1>1, <1>4 DEF Sent, Handed, Held
  <2>2. QED
    BY <2>1, PhaseSame
<1>5. [n \in Messages |-> Phase(n)]' = [[n \in Messages |-> Phase(n)] EXCEPT ![m] = "queued"]
  BY <1>3, <1>4
<1>6. SubSeq(stream, delivered + 1, Len(stream))'
         = Append(SubSeq(stream, delivered + 1, Len(stream)), m)
  BY QueueGrows
<1>7. UNCHANGED [n \in Messages |-> Holder(n)]
  BY DEF Holder, Held
<1>8. QED
  BY <1>3, <1>5, <1>6, <1>7 DEF Dispatch!Send

\* What the group hands out is the head of the queue, and it is nobody's.
LEMMA HandsOutHead ==
    ASSUME TypeInv, DispatchOK, delivered < Len(stream), stream' = stream,
           NEW m \in Messages, m = stream[delivered + 1],
           delivered' = delivered + 1, pending' = pending \cup {m}
    PROVE  /\ SubSeq(stream, delivered + 1, Len(stream)) # <<>>
           /\ m = Head(SubSeq(stream, delivered + 1, Len(stream)))
           /\ SubSeq(stream, delivered + 1, Len(stream))'
                 = Tail(SubSeq(stream, delivered + 1, Len(stream)))
           /\ Handed(m)' /\ \A w \in Workers : msg[w] # m
           /\ \A n \in Messages \ {m} :
                 (Sent(n)' <=> Sent(n)) /\ (Handed(n)' <=> Handed(n))
<1>0. /\ stream \in Seq(Messages) /\ delivered \in 0..Len(stream) /\ Len(stream) \in Nat
      /\ delivered + 1 \in 1..Len(stream) /\ Len(stream) \in (delivered + 1)..Len(stream)
  BY DEF TypeInv, TypeOK, StreamTypes
<1>1. /\ Head(SubSeq(stream, delivered + 1, Len(stream))) = m
      /\ Tail(SubSeq(stream, delivered + 1, Len(stream)))
            = SubSeq(stream, (delivered + 1) + 1, Len(stream))
  BY <1>0, HeadTailOfSubSeq
<1>2. SubSeq(stream, delivered + 1, Len(stream)) # <<>>
  <2> DEFINE s == SubSeq(stream, delivered + 1, Len(stream))
  <2>1. Len(s) = Len(stream) - delivered
    BY <1>0, SubSeqProperties
  <2> HIDE DEF s
  <2>2. Len(s) # 0
    BY <1>0, <2>1
  <2>3. s # <<>>
    BY <2>2
  <2>4. QED
    BY <2>3 DEF s
<1>3. SubSeq(stream, delivered + 1, Len(stream))'
         = SubSeq(stream, (delivered + 1) + 1, Len(stream))
  OBVIOUS
<1>4. ~Handed(m)
  BY <1>0 DEF Handed, DispatchOK, StreamOK
<1>5. \A w \in Workers : msg[w] # m
  BY <1>4, HeldIsHanded
<1>6. Handed(m)'
  BY <1>0 DEF Handed
<1>7. ASSUME NEW n \in Messages \ {m}
      PROVE  (Sent(n)' <=> Sent(n)) /\ (Handed(n)' <=> Handed(n))
  BY <1>0, <1>7 DEF Sent, Handed
<1>8. QED
  BY <1>1, <1>2, <1>3, <1>5, <1>6, <1>7

\* A message handed to a worker is a Take.
LEMMA ReadTakes ==
    ASSUME TypeInv, DispatchOK, PhaseOK, PhaseOK', HolderOK, HolderOK',
           NEW w \in Workers, Read(w)
    PROVE  Dispatch!Take(w)
<1>1. PICK m \in Messages : m = stream[delivered + 1]
  BY DEF Read, TypeInv, TypeOK, StreamTypes
<1>2. /\ delivered < Len(stream) /\ stream' = stream /\ delivered' = delivered + 1
      /\ pending' = pending \cup {m} /\ msg' = [msg EXCEPT ![w] = m]
  BY <1>1 DEF Read
<1>3. /\ SubSeq(stream, delivered + 1, Len(stream)) # <<>>
      /\ m = Head(SubSeq(stream, delivered + 1, Len(stream)))
      /\ SubSeq(stream, delivered + 1, Len(stream))'
            = Tail(SubSeq(stream, delivered + 1, Len(stream)))
      /\ Handed(m)' /\ \A v \in Workers : msg[v] # m
      /\ \A n \in Messages \ {m} : (Sent(n)' <=> Sent(n)) /\ (Handed(n)' <=> Handed(n))
  BY <1>1, <1>2, HandsOutHead
<1>4. msg[w] = None /\ msg'[w] = m
  BY <1>2 DEF Read, TypeInv, JobOK, Job, LoopPc, TypeOK, WorkerTypes
<1>5. Held(m)' /\ m \in pending'
  BY <1>2, <1>4 DEF Held
<1>6. Phase(m)' = "held"
  BY <1>3, <1>5 DEF PhaseOK
<1>7. Holder(m)' = w
  BY <1>4 DEF HolderOK
<1>8. ASSUME NEW n \in Messages \ {m} PROVE Phase(n)' = Phase(n) /\ Holder(n)' = Holder(n)
  <2>1. \A v \in Workers : msg'[v] = n <=> msg[v] = n
    BY <1>2, <1>4, <1>8 DEF TypeInv, TypeOK, WorkerTypes
  <2>2. Holder(n)' = Holder(n) /\ (Held(n)' <=> Held(n))
    BY <2>1, HolderSame
  <2>3. n \in pending' <=> n \in pending
    BY <1>2
  <2>4. QED
    BY <1>3, <2>2, <2>3, PhaseSame
<1>9. ASSUME NEW n \in Messages PROVE Holder(n) # w
  <2>1. ASSUME NEW v \in Workers, msg[v] = n PROVE Holder(n) = v /\ v # w
    BY <1>4, <2>1 DEF HolderOK
  <2>2. QED
    BY <2>1 DEF HolderOK, Held
<1>10. [n \in Messages |-> Phase(n)]' = [[n \in Messages |-> Phase(n)] EXCEPT ![m] = "held"]
  BY <1>6, <1>8
<1>11. [n \in Messages |-> Holder(n)]' = [[n \in Messages |-> Holder(n)] EXCEPT ![m] = w]
  BY <1>7, <1>8
<1>12. QED
  BY <1>3, <1>9, <1>10, <1>11 DEF Dispatch!Take

\* A message lost on its way is a Lose.
LEMMA LostReadLoses ==
    ASSUME TypeInv, DispatchOK, PhaseOK, PhaseOK', NEW w \in Workers, LoseRead(w)
    PROVE  Dispatch!Lose
<1>1. PICK m \in Messages : m = stream[delivered + 1]
  BY DEF LoseRead, TypeInv, TypeOK, StreamTypes
<1>2. /\ delivered < Len(stream) /\ stream' = stream /\ delivered' = delivered + 1
      /\ pending' = pending \cup {m} /\ msg' = msg
  BY <1>1 DEF LoseRead
<1>3. /\ SubSeq(stream, delivered + 1, Len(stream)) # <<>>
      /\ m = Head(SubSeq(stream, delivered + 1, Len(stream)))
      /\ SubSeq(stream, delivered + 1, Len(stream))'
            = Tail(SubSeq(stream, delivered + 1, Len(stream)))
      /\ Handed(m)' /\ \A v \in Workers : msg[v] # m
      /\ \A n \in Messages \ {m} : (Sent(n)' <=> Sent(n)) /\ (Handed(n)' <=> Handed(n))
  BY <1>1, <1>2, HandsOutHead
<1>4. Phase(m)' = "stranded"
  BY <1>2, <1>3 DEF PhaseOK, Held
<1>5. ASSUME NEW n \in Messages \ {m} PROVE Phase(n)' = Phase(n)
  <2>1. (Held(n)' <=> Held(n)) /\ (n \in pending' <=> n \in pending)
    BY <1>2 DEF Held
  <2>2. QED
    BY <1>3, <2>1, PhaseSame
<1>6. [n \in Messages |-> Phase(n)]' = [[n \in Messages |-> Phase(n)] EXCEPT ![m] = "stranded"]
  BY <1>4, <1>5
<1>7. UNCHANGED [n \in Messages |-> Holder(n)]
  BY <1>2 DEF Holder, Held
<1>8. QED
  BY <1>3, <1>6, <1>7 DEF Dispatch!Lose

\* A worker that lets go of its message, acknowledged or not, is a Release.
LEMMA LetGoReleases ==
    ASSUME TypeInv, DispatchOK, PhaseOK, PhaseOK', HolderOK, HolderOK',
           NEW w \in Workers, NEW m \in Messages, msg[w] = m,
           msg' = [msg EXCEPT ![w] = None], UNCHANGED <<stream, delivered>>,
           pending' \in {pending, pending \ {m}}
    PROVE  Dispatch!Release(m)
<1>1. /\ Held(m) /\ Handed(m) /\ m \in pending /\ Sent(m)
  BY HeldIsHanded DEF DispatchOK, HoldOK, Held, Handed, Sent, TypeInv, TypeOK, StreamTypes
<1>2. \A v \in Workers : msg'[v] # m
  BY DEF DispatchOK, HoldOK, TypeInv, TypeOK, WorkerTypes
<1>3. ~Held(m)' /\ Handed(m)'
  BY <1>1, <1>2 DEF Held, Handed
<1>4. Phase(m) = "held" /\ Phase(m)' \in {"settled", "stranded"}
  BY <1>1, <1>3 DEF PhaseOK
<1>5. Holder(m)' = None
  BY <1>3 DEF HolderOK
<1>6. ASSUME NEW n \in Messages \ {m} PROVE Phase(n)' = Phase(n) /\ Holder(n)' = Holder(n)
  <2>1. \A v \in Workers : msg'[v] = n <=> msg[v] = n
    BY <1>6 DEF TypeInv, TypeOK, WorkerTypes
  <2>2. Holder(n)' = Holder(n) /\ (Held(n)' <=> Held(n))
    BY <2>1, HolderSame
  <2>3. (Sent(n)' <=> Sent(n)) /\ (Handed(n)' <=> Handed(n)) /\ (n \in pending' <=> n \in pending)
    BY <1>6 DEF Sent, Handed
  <2>4. QED
    BY <2>2, <2>3, PhaseSame
<1>7. PICK p \in {"settled", "stranded"} : Phase(m)' = p
  BY <1>4
<1>8. [n \in Messages |-> Phase(n)]' = [[n \in Messages |-> Phase(n)] EXCEPT ![m] = p]
  BY <1>6, <1>7
<1>9. [n \in Messages |-> Holder(n)]' = [[n \in Messages |-> Holder(n)] EXCEPT ![m] = None]
  BY <1>5, <1>6
<1>10. UNCHANGED SubSeq(stream, delivered + 1, Len(stream))
  OBVIOUS
<1>11. QED
  BY <1>4, <1>8, <1>9, <1>10 DEF Dispatch!Release

\* The stream, its consumer group and the workers implement AtMostOnceDispatch: whatever
\* crashes, is stopped or is lost, a message is taken once at most, in order, by one worker.
THEOREM DispatchImplements == Spec => DispatchIsAtMostOnce
<1>1. Init => Dispatch!Init
  <2> SUFFICES ASSUME Init PROVE Dispatch!Init
    OBVIOUS
  <2>1. stream = <<>> /\ delivered = 0 /\ \A w \in Workers : msg[w] = None
    BY DEF Init
  <2>2. SubSeq(stream, delivered + 1, Len(stream)) = <<>>
    BY <2>1
  <2>3. TypeInv /\ DispatchOK
    BY TypeInvInit DEF Init, DispatchOK, StreamOK, RowOK, HoldOK
  <2>4. ASSUME NEW m \in Messages PROVE Phase(m) = "unsent" /\ Holder(m) = None
    <3>1. ~Sent(m) /\ ~Held(m)
      BY <2>1 DEF Sent, Held
    <3>2. QED
      BY <2>3, <3>1, PhaseIs, HolderIs DEF PhaseOK, HolderOK
  <2>5. QED
    BY <2>2, <2>4 DEF Dispatch!Init
<1>2. ASSUME TypeInv, DispatchOK, PhaseOK, PhaseOK', HolderOK, HolderOK', [Next]_vars
      PROVE  [Dispatch!Next]_(Dispatch!vars)
  <2>1. CASE UNCHANGED <<stream, delivered, pending, msg>>
    <3>1. UNCHANGED <<SubSeq(stream, delivered + 1, Len(stream)),
                      [n \in Messages |-> Phase(n)], [n \in Messages |-> Holder(n)]>>
      BY <2>1 DEF Phase, Holder, Held
    <3>2. QED
      BY <3>1 DEF Dispatch!vars
  <2>2. ASSUME NEW m \in Messages, stream' = Append(stream, m),
               \A i \in 1..Len(stream) : stream[i] # m, UNCHANGED <<delivered, pending, msg>>
        PROVE  Dispatch!Next
    <3>1. Dispatch!Send(m)
      BY <1>2, <2>2, PublishSends
    <3>2. QED
      BY <3>1 DEF Dispatch!Next
  <2>3. ASSUME NEW w \in Workers, Read(w) PROVE Dispatch!Next
    <3>1. Dispatch!Take(w)
      BY <1>2, <2>3, ReadTakes
    <3>2. QED
      BY <3>1 DEF Dispatch!Next
  <2>4. ASSUME NEW w \in Workers, LoseRead(w) PROVE Dispatch!Next
    <3>1. Dispatch!Lose
      BY <1>2, <2>4, LostReadLoses
    <3>2. QED
      BY <3>1 DEF Dispatch!Next
  <2>5. ASSUME NEW w \in Workers, msg[w] # None, msg' = [msg EXCEPT ![w] = None],
               UNCHANGED <<stream, delivered>>, pending' \in {pending, pending \ {msg[w]}}
        PROVE  Dispatch!Next
    <3>1. PICK m \in Messages : msg[w] = m
      BY <1>2, <2>5 DEF TypeInv, TypeOK, WorkerTypes
    <3>2. Dispatch!Release(m)
      BY <1>2, <2>5, <3>1, LetGoReleases
    <3>3. QED
      BY <3>2 DEF Dispatch!Next
  <2>6. ASSUME NEW w \in Workers, Ack(w) PROVE Dispatch!Next
    <3>1. msg[w] # None
      BY <1>2, <2>6 DEF Ack, TypeInv, JobOK, Job, LoopPc, EndedPc
    <3>2. QED
      BY <2>5, <2>6, <3>1 DEF Ack
  <2>7. ASSUME NEW w \in Workers, msg' = [msg EXCEPT ![w] = None],
               UNCHANGED <<stream, delivered, pending>>
        PROVE  [Dispatch!Next]_(Dispatch!vars)
    <3>1. CASE msg[w] = None
      <4>1. msg' = msg
        BY <1>2, <2>7, <3>1 DEF TypeInv, TypeOK, WorkerTypes
      <4>2. QED
        BY <2>1, <2>7, <4>1
    <3>2. CASE msg[w] # None
      BY <2>5, <2>7, <3>2
    <3>3. QED
      BY <3>1, <3>2
  <2>8. QED
    BY <1>2, <2>1, <2>2, <2>3, <2>4, <2>6, <2>7, DispatchMoves
<1>3. QED
  BY TypeInvAlways, DispatchOKAlways, PhaseIs, HolderIs, <1>1, <1>2, PTL
     DEF Spec, DispatchIsAtMostOnce, Dispatch!Spec

=============================================================================

---------------------------- MODULE RunLifecycle ----------------------------
(***************************************************************************)
(* The life of a run across the three parts that share it: the gateway     *)
(* that creates and cancels it, the control plane (Postgres) that stores   *)
(* its row and its events, and the workers that take its message from the  *)
(* Redis stream, execute it and sweep for runs whose heartbeat went stale. *)
(*                                                                         *)
(* Every await of the code at which another process can run is a step of   *)
(* its own, so a status that was read may be stale when it is used.        *)
(***************************************************************************)
EXTENDS RunStatuses, Naturals, Sequences

CONSTANTS
    Runs,             \* the runs clients submit; a run's message has the run's name
    Strays,           \* stream entries no run row answers to (malformed, unknown run)
    Workers,          \* consumer ids: a restarted worker is another member
    Cancellable,      \* the runs whose owner may ask to cancel them
    Unreliable,       \* the workers that may crash, be stopped or lose a call or its answer
    LateHeartbeats,   \* TRUE: a run can look stale although its worker is alive
    None              \* no message, no run, no worker

Messages == Runs \cup Strays

ASSUME Environment ==
    /\ Runs \cap Strays = {}
    /\ None \notin Messages \cup Workers
    /\ Cancellable \subseteq Runs
    /\ Unreliable \subseteq Workers
    /\ LateHeartbeats \in BOOLEAN

VARIABLES
    submit,       \* gateway: how far _create_run has come for each run
    cancel,       \* gateway: the cancel_run request in flight for each run
    status,       \* control plane: runs.status, "none" before the row exists
    stale,        \* control plane: heartbeat_at (else updated_at) is too old
    log,          \* control plane: the run.<status> events recorded for a run
    outputs,      \* control plane: what the executor's result left for a run
    results,      \* control plane: the runs with a result
    stream,       \* Redis: the entries of the run stream, oldest first
    delivered,    \* Redis: how many of them the consumer group has handed out
    pending,      \* Redis: the delivered entries nobody has acknowledged
    deadLetters,  \* Redis: the entries copied to the dead-letter stream
    pc,           \* worker: the await it is at
    ctx,          \* worker: the part of _process_message it is in
    goal,         \* worker: the status of the transition it is making
    msg,          \* worker: the entry it is processing
    beating,      \* worker: its heartbeat task runs
    swept,        \* worker: the stale runs it has read and not yet marked lost
    victim        \* worker: the run it has just marked lost

gatewayVars == <<submit, cancel>>
storeVars   == <<status, stale, log, outputs, results>>
streamVars  == <<stream, delivered, pending, deadLetters>>
jobVars     == <<pc, ctx, goal, msg, beating>>
sweepVars   == <<swept, victim>>
vars        == <<gatewayVars, storeVars, streamVars, jobVars, sweepVars>>

-----------------------------------------------------------------------------
\* The events of a run are named after the status they announce.
Event == RunStatus

\* What _record_artifacts and _record_agent_response write.
Output == {"artifacts", "reply"}

Outcomes == {"succeeded", "failed", "canceled"}

\* The statuses _is_cancel_requested answers TRUE for.
CancelSeen == {"cancel_requested", "cancelling", "canceled"}

\* "pre" before the try statement, "body" in it, "handler" in one of its except
\* clauses, "raise" and "stop" when finally runs because of an exception or SIGTERM.
Context == {"pre", "body", "handler", "raise", "stop"}

\* The awaits of _process_message before finally, and those of the main loop.
StorePc == {"lookup", "deadLetter", "cancelCheck", "cancelRead", "check", "write",
            "log", "execute", "postCheck", "artifacts", "reply"}
LoopPc  == {"loop", "read", "sweep", "sweepLog"}
EndedPc == {"dead", "stopped"}
Pc      == StorePc \cup LoopPc \cup {"finally", "ack"} \cup EndedPc

Alive(w) == pc[w] \notin EndedPc

Goto(w, label) == pc' = [pc EXCEPT ![w] = label]

\* w starts the transition of its run to status s.
Aim(w, s) ==
    /\ goal' = [goal EXCEPT ![w] = s]
    /\ Goto(w, "check")

\* The consumer of w ends: nothing it held in memory survives.
End(w, how) ==
    /\ Goto(w, how)
    /\ ctx' = [ctx EXCEPT ![w] = "pre"]
    /\ goal' = [goal EXCEPT ![w] = "none"]
    /\ msg' = [msg EXCEPT ![w] = None]
    /\ beating' = [beating EXCEPT ![w] = FALSE]
    /\ swept' = [swept EXCEPT ![w] = {}]
    /\ victim' = [victim EXCEPT ![w] = None]

\* An exception leaves the await w is at. In the body the except clause turns
\* it into the transition to "failed"; raised by a handler it waits for finally;
\* anywhere else it ends the consumer task, which nobody restarts.
Raise(w) ==
    \/ /\ ctx[w] \notin {"body", "handler"}
       /\ End(w, "dead")
    \/ /\ ctx[w] = "body"
       /\ ctx' = [ctx EXCEPT ![w] = "handler"]
       /\ Aim(w, "failed")
       /\ UNCHANGED <<msg, beating, sweepVars>>
    \/ /\ ctx[w] = "handler"
       /\ ctx' = [ctx EXCEPT ![w] = "raise"]
       /\ Goto(w, "finally")
       /\ UNCHANGED <<goal, msg, beating, sweepVars>>

-----------------------------------------------------------------------------
\* Initially there is no run, the stream is empty and every worker is at the
\* top of its loop. The group was created from id "0", so nothing is skipped.
Init ==
    /\ submit = [r \in Runs |-> "new"]
    /\ cancel = [r \in Runs |-> "idle"]
    /\ status = [r \in Runs |-> "none"]
    /\ stale = [r \in Runs |-> FALSE]
    /\ log = [r \in Runs |-> {}]
    /\ outputs = [r \in Runs |-> {}]
    /\ results = {}
    /\ stream = <<>>
    /\ delivered = 0
    /\ pending = {}
    /\ deadLetters = {}
    /\ pc = [w \in Workers |-> "loop"]
    /\ ctx = [w \in Workers |-> "pre"]
    /\ goal = [w \in Workers |-> "none"]
    /\ msg = [w \in Workers |-> None]
    /\ beating = [w \in Workers |-> FALSE]
    /\ swept = [w \in Workers |-> {}]
    /\ victim = [w \in Workers |-> None]

-----------------------------------------------------------------------------
(* The gateway *)

\* create_run inserts the row.
CreateRun(r) ==
    /\ submit[r] = "new"
    /\ submit' = [submit EXCEPT ![r] = "created"]
    /\ status' = [status EXCEPT ![r] = "queued"]
    /\ UNCHANGED <<cancel, stale, log, outputs, results, streamVars, jobVars, sweepVars>>

\* append_run_event records run.queued.
LogQueued(r) ==
    /\ submit[r] = "created"
    /\ submit' = [submit EXCEPT ![r] = "logged"]
    /\ log' = [log EXCEPT ![r] = @ \cup {"queued"}]
    /\ UNCHANGED <<cancel, status, stale, outputs, results, streamVars, jobVars, sweepVars>>

\* Fault variant: the message is published without waiting for the row.
PublishFirst(r) ==
    /\ submit[r] \in {"new", "logged"}
    /\ submit' = [submit EXCEPT ![r] = "published"]
    /\ stream' = Append(stream, r)
    /\ UNCHANGED <<cancel, storeVars, delivered, pending, deadLetters, jobVars, sweepVars>>

\* xadd publishes the message; the client gets its answer after it.
Publish(r) ==
    /\ submit[r] = "logged"
    /\ submit' = [submit EXCEPT ![r] = "published"]
    /\ stream' = Append(stream, r)
    /\ UNCHANGED <<cancel, storeVars, delivered, pending, deadLetters, jobVars, sweepVars>>

\* Somebody else adds an entry to the stream that no run answers to.
PublishStray(s) ==
    /\ \A i \in 1..Len(stream) : stream[i] # s
    /\ stream' = Append(stream, s)
    /\ UNCHANGED <<gatewayVars, storeVars, delivered, pending, deadLetters, jobVars, sweepVars>>

\* cancel_run reads the run and goes on only if the policy lets it: a terminal
\* run is answered as it is, any other refusal is a 409.
CancelRead(r) ==
    /\ r \in Cancellable
    /\ cancel[r] = "idle"
    /\ status[r] \notin TERMINAL_RUN_STATUSES \cup {"none"}
    /\ IsValidTransition(status[r], "cancel_requested")
    /\ cancel' = [cancel EXCEPT ![r] = "writing"]
    /\ UNCHANGED <<submit, storeVars, streamVars, jobVars, sweepVars>>

\* It then writes the status, whatever the status is by now.
CancelWrite(r) ==
    /\ cancel[r] = "writing"
    /\ cancel' = [cancel EXCEPT ![r] = "logging"]
    /\ status' = [status EXCEPT ![r] = "cancel_requested"]
    /\ UNCHANGED <<submit, stale, log, outputs, results, streamVars, jobVars, sweepVars>>

CancelLog(r) ==
    /\ cancel[r] = "logging"
    /\ cancel' = [cancel EXCEPT ![r] = "idle"]
    /\ log' = [log EXCEPT ![r] = @ \cup {"cancel_requested"}]
    /\ UNCHANGED <<submit, status, stale, outputs, results, streamVars, jobVars, sweepVars>>

Gateway(r) ==
    \/ CreateRun(r) \/ LogQueued(r) \/ Publish(r)
    \/ CancelRead(r) \/ CancelWrite(r) \/ CancelLog(r)

-----------------------------------------------------------------------------
(* A worker's main loop: sweep when it is due, then read the stream *)

\* Fault variant: the comparison with the threshold the wrong way round.
SweepFresh(w) ==
    /\ pc[w] = "loop"
    /\ swept' = [swept EXCEPT ![w] =
                    {r \in Runs : status[r] \in HEARTBEAT_RUN_STATUSES /\ ~stale[r]}]
    /\ Goto(w, IF swept'[w] = {} THEN "read" ELSE "sweep")
    /\ UNCHANGED <<gatewayVars, storeVars, streamVars, ctx, goal, msg, beating, victim>>

\* find_stale_runs returns a snapshot of the stale runs.
Sweep(w) ==
    /\ pc[w] = "loop"
    /\ swept' = [swept EXCEPT ![w] =
                    {r \in Runs : status[r] \in HEARTBEAT_RUN_STATUSES /\ stale[r]}]
    /\ Goto(w, IF swept'[w] = {} THEN "read" ELSE "sweep")
    /\ UNCHANGED <<gatewayVars, storeVars, streamVars, ctx, goal, msg, beating, victim>>

\* One run of the snapshot is marked lost, without looking at it again.
MarkLost(w) ==
    /\ pc[w] = "sweep"
    /\ \E r \in swept[w] :
          /\ status' = [status EXCEPT ![r] = "lost"]
          /\ swept' = [swept EXCEPT ![w] = @ \ {r}]
          /\ victim' = [victim EXCEPT ![w] = r]
    /\ Goto(w, "sweepLog")
    /\ UNCHANGED <<gatewayVars, stale, log, outputs, results, streamVars,
                   ctx, goal, msg, beating>>

LogLost(w) ==
    /\ pc[w] = "sweepLog"
    /\ log' = [log EXCEPT ![victim[w]] = @ \cup {"lost"}]
    /\ victim' = [victim EXCEPT ![w] = None]
    /\ Goto(w, IF swept[w] = {} THEN "read" ELSE "sweep")
    /\ UNCHANGED <<gatewayVars, status, stale, outputs, results, streamVars,
                   ctx, goal, msg, beating, swept>>

\* Fault variant: the group hands out an entry and does not move its cursor.
ReadSameAgain(w) ==
    /\ pc[w] \in {"loop", "read"}
    /\ delivered < Len(stream)
    /\ \E i \in 1..(delivered + 1) :
          /\ msg' = [msg EXCEPT ![w] = stream[i]]
          /\ pending' = pending \cup {stream[i]}
    /\ delivered' \in {delivered, delivered + 1}
    /\ Goto(w, "lookup")
    /\ UNCHANGED <<gatewayVars, storeVars, stream, deadLetters, ctx, goal, beating, sweepVars>>

\* Fault variant: the newest entry instead of the oldest one not yet handed out.
ReadNewest(w) ==
    /\ pc[w] \in {"loop", "read"}
    /\ delivered < Len(stream)
    /\ delivered' = Len(stream)
    /\ msg' = [msg EXCEPT ![w] = stream[Len(stream)]]
    /\ pending' = pending \cup {stream[Len(stream)]}
    /\ Goto(w, "lookup")
    /\ UNCHANGED <<gatewayVars, storeVars, stream, deadLetters, ctx, goal, beating, sweepVars>>

\* xreadgroup hands w the next entry that no consumer of the group has had.
Read(w) ==
    /\ pc[w] \in {"loop", "read"}
    /\ delivered < Len(stream)
    /\ delivered' = delivered + 1
    /\ msg' = [msg EXCEPT ![w] = stream[delivered + 1]]
    /\ pending' = pending \cup {stream[delivered + 1]}
    /\ Goto(w, "lookup")
    /\ UNCHANGED <<gatewayVars, storeVars, stream, deadLetters, ctx, goal, beating, sweepVars>>

\* The blocking read times out or fails; the loop starts over.
ReadNothing(w) ==
    /\ pc[w] = "read"
    /\ Goto(w, "loop")
    /\ UNCHANGED <<gatewayVars, storeVars, streamVars, ctx, goal, msg, beating, sweepVars>>

-----------------------------------------------------------------------------
(* _process_message, before the try statement *)

\* Fault variant: an entry the worker cannot use is dropped instead of failing its run.
DropUnusable(w) ==
    /\ pc[w] = "lookup"
    /\ \E label \in {"deadLetter", "ack", "cancelCheck"} :
          /\ label = "deadLetter" <=> msg[w] \notin {r \in Runs : status[r] # "none"}
          /\ Goto(w, label)
    /\ UNCHANGED <<gatewayVars, storeVars, streamVars, ctx, goal, msg, beating, sweepVars>>

\* An entry that does not validate or names no run is dead-lettered; a
\* terminal run is acknowledged; a payload or a workload the worker cannot
\* use fails the run; otherwise the cancel check comes next.
Lookup(w) ==
    /\ pc[w] = "lookup"
    /\ LET m == msg[w]
           known == {r \in Runs : status[r] # "none"}
       IN  \/ /\ m \notin known
              /\ Goto(w, "deadLetter")
              /\ UNCHANGED goal
           \/ /\ m \in known
              /\ status[m] \in TERMINAL_RUN_STATUSES
              /\ Goto(w, "ack")
              /\ UNCHANGED goal
           \/ /\ m \in known
              /\ status[m] \notin TERMINAL_RUN_STATUSES
              /\ Aim(w, "failed") \/ (Goto(w, "cancelCheck") /\ UNCHANGED goal)
    /\ UNCHANGED <<gatewayVars, storeVars, streamVars, ctx, msg, beating, sweepVars>>

\* Copies the entry to the dead-letter stream, before acknowledging it.
DeadLetter(w) ==
    /\ pc[w] = "deadLetter"
    /\ deadLetters' = deadLetters \cup {msg[w]}
    /\ Goto(w, "ack")
    /\ UNCHANGED <<gatewayVars, storeVars, stream, delivered, pending,
                   ctx, goal, msg, beating, sweepVars>>

\* Fault variant: no look for a cancel request before the run is started.
StartAnyway(w) ==
    /\ pc[w] = "cancelCheck"
    /\ Aim(w, "starting")
    /\ UNCHANGED <<gatewayVars, storeVars, streamVars, ctx, msg, beating, sweepVars>>

\* Fault variant: the same, and "starting" is written without asking the policy.
StartUnchecked(w) ==
    /\ pc[w] = "cancelCheck"
    /\ goal' = [goal EXCEPT ![w] = "starting"]
    /\ Goto(w, "write")
    /\ UNCHANGED <<gatewayVars, storeVars, streamVars, ctx, msg, beating, sweepVars>>

\* A run whose cancellation was asked for is not started.
CancelCheck(w) ==
    /\ pc[w] = "cancelCheck"
    /\ IF status[msg[w]] \in CancelSeen
       THEN Goto(w, "cancelRead") /\ UNCHANGED goal
       ELSE Aim(w, "starting")
    /\ UNCHANGED <<gatewayVars, storeVars, streamVars, ctx, msg, beating, sweepVars>>

-----------------------------------------------------------------------------
(* _cancel and _transition_run *)

\* Fault variant: the spelling of the agent runtimes instead of the status.
CancelMisspelt(w) ==
    /\ pc[w] = "cancelRead"
    /\ Aim(w, "cancelled")
    /\ UNCHANGED <<gatewayVars, storeVars, streamVars, ctx, msg, beating, sweepVars>>

\* _cancel reads the run to choose between its two transitions.
CancelChoose(w) ==
    /\ pc[w] = "cancelRead"
    /\ Aim(w, IF status[msg[w]] \in {"cancel_requested", "cancelling"}
              THEN "canceled" ELSE "cancelling")
    /\ UNCHANGED <<gatewayVars, storeVars, streamVars, ctx, msg, beating, sweepVars>>

\* Fault variant: the policy is not asked.
WriteUnchecked(w) ==
    /\ pc[w] = "check"
    /\ Goto(w, "write")
    /\ UNCHANGED <<gatewayVars, storeVars, streamVars, ctx, goal, msg, beating, sweepVars>>

\* _transition_run reads the run and asks the policy.
Check(w) ==
    /\ pc[w] = "check"
    /\ \/ /\ IsValidTransition(status[msg[w]], goal[w])
          /\ Goto(w, "write")
          /\ UNCHANGED <<ctx, goal, msg, beating, sweepVars>>
       \/ /\ ~IsValidTransition(status[msg[w]], goal[w])
          /\ Raise(w)
    /\ UNCHANGED <<gatewayVars, storeVars, streamVars>>

\* Fault variant: the transition to "starting" leaves heartbeat_at alone.
WriteWithoutHeartbeat(w) ==
    LET r == msg[w] IN
    /\ pc[w] = "write"
    /\ status' = [status EXCEPT ![r] = goal[w]]
    /\ results' = results \cup (IF goal[w] = "succeeded" THEN {r} ELSE {})
    /\ IF goal[w] = "cancelling" THEN Aim(w, "canceled")
                                 ELSE Goto(w, "log") /\ UNCHANGED goal
    /\ UNCHANGED <<gatewayVars, stale, log, outputs, streamVars, ctx, msg, beating, sweepVars>>

\* update_run then writes it, whatever the status is by now. Only the
\* transition to "starting" sets heartbeat_at, only "succeeded" stores a result,
\* and only "cancelling" is followed by another transition instead of an event.
Write(w) ==
    LET r == msg[w] IN
    /\ pc[w] = "write"
    /\ status' = [status EXCEPT ![r] = goal[w]]
    /\ stale' = [stale EXCEPT ![r] = @ /\ goal[w] # "starting"]
    /\ results' = results \cup (IF goal[w] = "succeeded" THEN {r} ELSE {})
    /\ IF goal[w] = "cancelling" THEN Aim(w, "canceled")
                                 ELSE Goto(w, "log") /\ UNCHANGED goal
    /\ UNCHANGED <<gatewayVars, log, outputs, streamVars, ctx, msg, beating, sweepVars>>

\* The event of the transition. After run.starting the heartbeat task is
\* created and the try statement entered, after run.running the executor is
\* called, and after an outcome the message is done with.
Log(w) ==
    /\ pc[w] = "log"
    /\ log' = [log EXCEPT ![msg[w]] = @ \cup {goal[w]}]
    /\ \/ /\ goal[w] = "starting"
          /\ beating' = [beating EXCEPT ![w] = TRUE]
          /\ ctx' = [ctx EXCEPT ![w] = "body"]
          /\ Aim(w, "running")
       \/ /\ goal[w] = "running"
          /\ Goto(w, "execute")
          /\ UNCHANGED <<ctx, goal, beating>>
       \/ /\ goal[w] \in Outcomes
          /\ Goto(w, IF ctx[w] = "pre" THEN "ack" ELSE "finally")
          /\ UNCHANGED <<ctx, goal, beating>>
    /\ UNCHANGED <<gatewayVars, status, stale, outputs, results, streamVars, msg, sweepVars>>

-----------------------------------------------------------------------------
(* _process_message, in the try statement *)

\* The executor returns, sees the cancel request and raises RunCancelledError,
\* or times out or fails. How it works on the run is not modelled here.
Execute(w) ==
    /\ pc[w] = "execute"
    /\ \/ /\ Goto(w, "postCheck")
          /\ UNCHANGED <<ctx, goal>>
       \/ /\ status[msg[w]] \in CancelSeen
          /\ Goto(w, "cancelRead")
          /\ ctx' = [ctx EXCEPT ![w] = "handler"]
          /\ UNCHANGED goal
       \/ /\ Aim(w, "failed")
          /\ ctx' = [ctx EXCEPT ![w] = "handler"]
    /\ UNCHANGED <<gatewayVars, storeVars, streamVars, msg, beating, sweepVars>>

\* Fault variant: the result of the executor is recorded unasked.
RecordUnasked(w) ==
    /\ pc[w] = "postCheck"
    /\ outputs' = [outputs EXCEPT ![msg[w]] = @ \cup {"artifacts"}]
    /\ Goto(w, IF status[msg[w]] \in CancelSeen THEN "cancelRead" ELSE "artifacts")
    /\ UNCHANGED <<gatewayVars, status, stale, log, results, streamVars,
                   ctx, goal, msg, beating, sweepVars>>

\* A cancel request that came during the execution is looked for once more.
PostCheck(w) ==
    /\ pc[w] = "postCheck"
    /\ Goto(w, IF status[msg[w]] \in CancelSeen THEN "cancelRead" ELSE "artifacts")
    /\ UNCHANGED <<gatewayVars, storeVars, streamVars, ctx, goal, msg, beating, sweepVars>>

\* Fault variant: the run succeeds before the reply is recorded.
SucceedEarly(w) ==
    /\ pc[w] = "artifacts"
    /\ outputs' = [outputs EXCEPT ![msg[w]] = @ \cup {"artifacts"}]
    /\ Aim(w, "succeeded")
    /\ UNCHANGED <<gatewayVars, status, stale, log, results, streamVars,
                   ctx, msg, beating, sweepVars>>

RecordArtifacts(w) ==
    /\ pc[w] = "artifacts"
    /\ outputs' = [outputs EXCEPT ![msg[w]] = @ \cup {"artifacts"}]
    /\ Goto(w, "reply")
    /\ UNCHANGED <<gatewayVars, status, stale, log, results, streamVars,
                   ctx, goal, msg, beating, sweepVars>>

RecordReply(w) ==
    /\ pc[w] = "reply"
    /\ outputs' = [outputs EXCEPT ![msg[w]] = @ \cup {"reply"}]
    /\ Aim(w, "succeeded")
    /\ UNCHANGED <<gatewayVars, status, stale, log, results, streamVars,
                   ctx, msg, beating, sweepVars>>

\* Fault variant: finally acknowledges without waiting for the heartbeat task.
LeaveHeartbeat(w) ==
    /\ pc[w] = "finally"
    /\ ctx' = [ctx EXCEPT ![w] = IF @ \in {"raise", "stop"} THEN @ ELSE "pre"]
    /\ Goto(w, "ack")
    /\ UNCHANGED <<gatewayVars, storeVars, streamVars, goal, msg, beating, sweepVars>>

\* finally: the heartbeat task is stopped and awaited.
StopHeartbeat(w) ==
    /\ pc[w] = "finally"
    /\ beating' = [beating EXCEPT ![w] = FALSE]
    /\ ctx' = [ctx EXCEPT ![w] = IF @ \in {"raise", "stop"} THEN @ ELSE "pre"]
    /\ Goto(w, "ack")
    /\ UNCHANGED <<gatewayVars, storeVars, streamVars, goal, msg, sweepVars>>

\* xack, after which the loop goes on unless an exception or SIGTERM is pending.
Ack(w) ==
    /\ pc[w] = "ack"
    /\ pending' = pending \ {msg[w]}
    /\ msg' = [msg EXCEPT ![w] = None]
    /\ goal' = [goal EXCEPT ![w] = "none"]
    /\ ctx' = [ctx EXCEPT ![w] = "pre"]
    /\ Goto(w, IF ctx[w] = "raise" THEN "dead"
               ELSE IF ctx[w] = "stop" THEN "stopped" ELSE "loop")
    /\ UNCHANGED <<gatewayVars, storeVars, stream, delivered, deadLetters, beating, sweepVars>>

-----------------------------------------------------------------------------
(* The heartbeat task, time and failures *)

\* The heartbeat task, concurrent with everything else its worker does.
Heartbeat(w) ==
    /\ beating[w]
    /\ stale' = [stale EXCEPT ![msg[w]] = FALSE]
    /\ UNCHANGED <<gatewayVars, status, log, outputs, results, streamVars, jobVars, sweepVars>>

\* stale_run_seconds pass without a heartbeat of r. The interval is twelve times
\* shorter, so while a live worker has r this takes failed or delayed beats.
Age(r) ==
    /\ status[r] \notin TERMINAL_RUN_STATUSES \cup {"none"}
    /\ LateHeartbeats \/ \A w \in Workers : msg[w] # r
    /\ stale' = [stale EXCEPT ![r] = TRUE]
    /\ UNCHANGED <<gatewayVars, status, log, outputs, results, streamVars, jobVars, sweepVars>>

\* A call to the control plane or to Redis raises. An event may have been
\* recorded all the same.
StoreFault(w) ==
    /\ w \in Unreliable
    /\ pc[w] \in (StorePc \ {"execute"}) \cup {"loop", "sweep", "sweepLog", "ack"}
    /\ Raise(w)
    /\ \/ UNCHANGED log
       \/ pc[w] = "log" /\ log' = [log EXCEPT ![msg[w]] = @ \cup {goal[w]}]
    /\ UNCHANGED <<gatewayVars, status, stale, outputs, results, streamVars>>

\* The answer to xreadgroup is lost: the group has handed the entry to w, which
\* never sees it and, as after any error of the read, starts its loop over.
LoseRead(w) ==
    /\ w \in Unreliable
    /\ pc[w] \in {"loop", "read"}
    /\ delivered < Len(stream)
    /\ delivered' = delivered + 1
    /\ pending' = pending \cup {stream[delivered + 1]}
    /\ Goto(w, "loop")
    /\ UNCHANGED <<gatewayVars, storeVars, stream, deadLetters, ctx, goal, msg, beating,
                   sweepVars>>

\* The process of w is killed.
Crash(w) ==
    /\ w \in Unreliable
    /\ Alive(w)
    /\ End(w, "stopped")
    /\ UNCHANGED <<gatewayVars, storeVars, streamVars>>

\* SIGTERM cancels the consumer task: in the try statement finally still runs
\* and acknowledges the message, anywhere else the task just ends, like a crash.
Interrupt(w) ==
    /\ w \in Unreliable
    /\ pc[w] \in StorePc
    /\ ctx[w] \in {"body", "handler"}
    /\ ctx' = [ctx EXCEPT ![w] = "stop"]
    /\ Goto(w, "finally")
    /\ UNCHANGED <<gatewayVars, storeVars, streamVars, goal, msg, beating, sweepVars>>

-----------------------------------------------------------------------------
\* What the code of a worker does when nothing goes wrong around it.
Consumer(w) ==
    \/ Sweep(w) \/ MarkLost(w) \/ LogLost(w) \/ Read(w) \/ ReadNothing(w)
    \/ Lookup(w) \/ DeadLetter(w) \/ CancelCheck(w) \/ CancelChoose(w)
    \/ Check(w) \/ Write(w) \/ Log(w)
    \/ Execute(w) \/ PostCheck(w) \/ RecordArtifacts(w) \/ RecordReply(w)
    \/ StopHeartbeat(w) \/ Ack(w)

Failure(w) == StoreFault(w) \/ LoseRead(w) \/ Crash(w) \/ Interrupt(w)

Next ==
    \/ \E r \in Runs : Gateway(r) \/ Age(r)
    \/ \E s \in Strays : PublishStray(s)
    \/ \E w \in Workers : Consumer(w) \/ Heartbeat(w) \/ Failure(w)

Spec == Init /\ [][Next]_vars

(* The code's scheduling: a request that is being served and a consumer task *)
(* that is not stopped go on, an entry is not refused for ever, and time     *)
(* passes. Nothing is assumed of the failures, of clients, of heartbeats.    *)
Fairness ==
    /\ \A r \in Runs : WF_vars(LogQueued(r)) /\ WF_vars(Publish(r)) /\ WF_vars(Age(r))
    /\ \A w \in Workers : WF_vars(Consumer(w)) /\ WF_vars(Read(w))

FairSpec == Spec /\ Fairness

-----------------------------------------------------------------------------
(* Types, and what holds in every environment *)

StoreTypes ==
    /\ submit \in [Runs -> {"new", "created", "logged", "published"}]
    /\ cancel \in [Runs -> {"idle", "writing", "logging"}]
    /\ status \in [Runs -> RunStatus \cup {"none"}]
    /\ stale \in [Runs -> BOOLEAN]
    /\ log \in [Runs -> SUBSET Event]
    /\ outputs \in [Runs -> SUBSET Output]
    /\ results \in SUBSET Runs

StreamTypes ==
    /\ stream \in Seq(Messages)
    /\ delivered \in 0..Len(stream)
    /\ pending \in SUBSET Messages
    /\ deadLetters \in SUBSET Messages

WorkerTypes ==
    /\ pc \in [Workers -> Pc]
    /\ ctx \in [Workers -> Context]
    /\ goal \in [Workers -> RunStatus \cup {"none"}]
    /\ msg \in [Workers -> Messages \cup {None}]
    /\ beating \in [Workers -> BOOLEAN]
    /\ swept \in [Workers -> SUBSET Runs]
    /\ victim \in [Workers -> Runs \cup {None}]

\* Every variable stays in its type.
TypeOK == StoreTypes /\ StreamTypes /\ WorkerTypes

Handed(m)  == \E i \in 1..delivered : stream[i] = m
Held(m)    == \E w \in Workers : msg[w] = m
Acked(m)   == Handed(m) /\ m \notin pending

\* No two workers ever work on the same message, and what a worker works on is
\* still unacknowledged: so a run is executed by one worker at most, whatever
\* crashes, restarts, sweeps and cancellations do.
SingleHolder ==
    /\ \A v, w \in Workers : msg[v] = msg[w] /\ msg[v] # None => v = w
    /\ \A w \in Workers : msg[w] # None => msg[w] \in pending

\* The dead-letter stream never receives the message of a run a client
\* submitted: its row is there before its message.
OnlyStraysDeadLettered == deadLetters \subseteq Strays

\* A message is not acknowledged while its run waits to be started: with the
\* row still "queued" the only trace of the work to do is the stream entry.
\* And a stray is acknowledged only once its copy is in the dead-letter stream.
NothingAckedUnhandled ==
    /\ \A r \in Runs : Acked(r) => status[r] \notin {"none", "queued"}
    /\ \A s \in Strays : Acked(s) => s \in deadLetters

\* No message is dropped: what is acknowledged or dead-lettered has been dealt with.
NothingIsDropped == OnlyStraysDeadLettered /\ NothingAckedUnhandled

\* A canceled run shows neither artifacts nor a reply nor a result: the last
\* look for a cancel request comes before anything is recorded.
CanceledLeavesNothing ==
    \A r \in Runs : status[r] = "canceled" => outputs[r] = {} /\ r \notin results

\* A run that reads "succeeded" has everything a client then asks for, and the
\* run.succeeded event is not seen before the result.
SucceededIsComplete ==
    \A r \in Runs :
        /\ status[r] = "succeeded" => r \in results
        /\ r \in results => outputs[r] = Output
        /\ "succeeded" \in log[r] => r \in results

\* What a client reads of a run and what was recorded of it agree, whenever it looks.
OutcomeMatchesOutputs == CanceledLeavesNothing /\ SucceededIsComplete

\* While a worker is in the try statement its heartbeat task runs, and the task
\* is gone before the message is acknowledged: it never refreshes a run that
\* its worker has let go of.
HeartbeatCoversExecution ==
    \A w \in Workers :
        /\ ctx[w] \in {"body", "handler"} => beating[w]
        /\ beating[w] => pc[w] \in StorePc \cup {"finally"} /\ msg[w] \in pending

\* The stream hands out every message once, in order, to one worker, who
\* settles or strands it: AtMostOnceDispatch under this mapping.
Phase(m) ==
    CASE \A i \in 1..Len(stream) : stream[i] # m -> "unsent"
      [] \E i \in (delivered + 1)..Len(stream) : stream[i] = m -> "queued"
      [] OTHER -> IF m \notin pending THEN "settled"
                  ELSE IF Held(m) THEN "held" ELSE "stranded"

Holder(m) == IF Held(m) THEN CHOOSE w \in Workers : msg[w] = m ELSE None

Dispatch == INSTANCE AtMostOnceDispatch WITH
    Nobody <- None,
    queue  <- SubSeq(stream, delivered + 1, Len(stream)),
    phase  <- [m \in Messages |-> Phase(m)],
    holder <- [m \in Messages |-> Holder(m)]

\* The detailed dispatch implements the abstract one.
DispatchIsAtMostOnce == Dispatch!Spec

-----------------------------------------------------------------------------
(* What holds when heartbeats are in time, of the runs nobody cancels *)

Uncancelled == Runs \ Cancellable

\* A lost run is an abandoned one: no worker has it, or will ever have it
\* again, so no result can still arrive for it. Canceling does not change this.
LostMeansAbandoned ==
    \A r \in Runs : status[r] = "lost" => Handed(r) /\ ~Held(r)

\* What heartbeats say of a run is so: a run marked lost has been left, and no heartbeat
\* speaks for a run that its worker has let go of.
LivenessIsTruthful == LostMeansAbandoned /\ HeartbeatCoversExecution

\* An outcome a client has read in the events is the status of the run, and
\* there is one outcome only.
LoggedOutcomeIsStatus ==
    \A r \in Uncancelled, s \in TERMINAL_RUN_STATUSES : s \in log[r] => status[r] = s

\* A message is acknowledged only when its run is terminal or in a status that
\* a sweeper looks for, so an interrupted run is still found.
AckedIsSweepable ==
    \A r \in Uncancelled :
        Acked(r) => status[r] \in TERMINAL_RUN_STATUSES \cup HEARTBEAT_RUN_STATUSES

\* The status moves as the policy says, whoever writes it: ManagedRun.
Managed == INSTANCE ManagedRun WITH
    Runs   <- Uncancelled,
    status <- [r \in Uncancelled |-> status[r]]

\* Of the other runs: a terminal status is only ever overwritten by a cancel
\* request that read the run before it ended, never by a worker or a sweeper.
OnlyCancelRevives ==
    [][\A r \in Runs :
          status[r] \in TERMINAL_RUN_STATUSES /\ status'[r] # status[r]
             => cancel[r] = "writing" /\ status'[r] = "cancel_requested"]_vars

\* The lifecycle implements the promise made to API clients, as far as cancel requests
\* let it.
StatusFollowsPolicy == Managed!Spec /\ OnlyCancelRevives

-----------------------------------------------------------------------------
(* Liveness, under Fairness *)

\* A run a worker has accepted ends, by its worker or by a sweeper.
StartedRunsSettle ==
    \A r \in Uncancelled :
        status[r] \in HEARTBEAT_RUN_STATUSES ~> status[r] \in TERMINAL_RUN_STATUSES

\* A published run ends, unless the worker it was handed to never accepted it.
PublishedRunsSettle ==
    \A r \in Uncancelled :
        submit[r] = "published" ~>
            \/ status[r] \in TERMINAL_RUN_STATUSES
            \/ status[r] = "queued" /\ r \in pending /\ ~Held(r)

\* As long as nobody cancels, a worker whose process and stores do not fail
\* goes on consuming for ever: no refused transition ends its loop.
ReliableConsumersSurvive == \A w \in Workers \ Unreliable : Alive(w)

\* A cancel request written before any worker has the run.
CanceledEarly(r) == status[r] = "cancel_requested" /\ ~Handed(r)

\* Such a run is never started.
EarlyCancelIsHonoured ==
    \A r \in Runs : [](CanceledEarly(r) => []("starting" \notin log[r]))

\* And with reliable workers it ends.
EarlyCancelSettles ==
    \A r \in Runs : CanceledEarly(r) ~> status[r] \in TERMINAL_RUN_STATUSES

-----------------------------------------------------------------------------
(* What the repository says of a run and the code does not keep *)

\* A terminal status admits no further transition.
TerminalIsFinal ==
    [][\A r \in Runs : status[r] \in TERMINAL_RUN_STATUSES => status'[r] = status[r]]_vars

\* With no failure of the worker, a message the worker cannot finish does not
\* stay behind in the group: it is in hand, acknowledged or dead-lettered.
NoMessageLeftBehind == \A m \in pending \ deadLetters : Held(m)

=============================================================================

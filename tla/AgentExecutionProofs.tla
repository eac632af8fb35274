------------------------ MODULE AgentExecutionProofs ------------------------
(***************************************************************************)
(* Theorems about AgentExecution, for any set of adapters.                 *)
(***************************************************************************)
EXTENDS AgentExecution, TLAPS

\* Where the executor is, and what it has left at the runtime by then.
Stage ==
    /\ pc = "done" <=> outcome # "none"
    /\ pc \in {"check", "describe", "create", "send"} => ext = "none" /\ ~known
    /\ pc \in {"check", "describe", "create", "send", "loop", "poll", "stop"} => stops = 0
    /\ pc \in {"post", "lastStop"} => stops \in {0, 1}
    /\ pc \in {"stop", "lastStop"} => requested
    /\ outcome = "cancelled" => requested

\* What MessageHasSession needs of the states before the message is sent.
SessionReady ==
    /\ pc \in {"describe", "create"} => ext = "none"
    /\ pc = "send" /\ adapter = "openclaw" /\ "sessions.create" \in supported => session

\* What ResultIsFinal needs of the state before the result is returned.
ResultReady ==
    pc = "post" /\ ~requested /\ known /\ precise => ext = seen /\ ext # "running"

Inv ==
    /\ TypeOK
    /\ Stage
    /\ SessionReady
    /\ MessageHasSession
    /\ ResultReady
    /\ ResultIsFinal
    /\ CancelReachesRuntime

USE DEF AgentStatus, TERMINAL_AGENT_STATUSES, Pc

LEMMA InitInv == Init => Inv
<1> SUFFICES ASSUME Init PROVE Inv
  OBVIOUS
<1>1. TypeOK
  <2>1. stops \in 0..2 /\ supported \subseteq Methods
    BY DEF Init
  <2> QED
    BY <2>1, Zenon DEF Init, TypeOK
<1>2. Stage
  BY DEF Init, Stage
<1>3. SessionReady /\ MessageHasSession
  BY DEF Init, SessionReady, MessageHasSession
<1>4. ResultReady /\ ResultIsFinal /\ CancelReachesRuntime
  BY DEF Init, ResultReady, ResultIsFinal, CancelReachesRuntime, Addressable
<1> QED
  BY <1>1, <1>2, <1>3, <1>4 DEF Inv

\* One step of the executor keeps the invariant.
LEMMA ExecutionKeeps == Inv /\ Execution => Inv'
<1> SUFFICES ASSUME Inv, Execution PROVE Inv'
  OBVIOUS
<1> USE DEF Inv, Execution, TypeOK, Stage, SessionReady, MessageHasSession, ResultReady,
            ResultIsFinal, CancelReachesRuntime, Addressable, setting, runtime, reading,
            Goto, Finish
<1>0. held' \in BOOLEAN
  BY Zenon DEF Execution
<1>1. CASE CheckBefore
  BY <1>0, <1>1 DEF CheckBefore
<1>2. CASE SessionFound
  BY <1>0, <1>2 DEF SessionFound
<1>3. CASE SessionNotFound
  BY <1>0, <1>3 DEF SessionNotFound
<1>4. CASE CreateSession
  BY <1>0, <1>4 DEF CreateSession
<1>5. CASE AcceptLocally
  BY <1>0, <1>5 DEF AcceptLocally
<1>6. CASE Send
  BY <1>0, <1>6 DEF Send, Polled
<1>7. CASE Deadline
  BY <1>0, <1>7 DEF Deadline
<1>8. CASE CheckWhilePolling
  BY <1>0, <1>8 DEF CheckWhilePolling
<1>9. CASE PollRun
  BY <1>0, <1>9 DEF PollRun, Take
<1>10. CASE PollSession
  <2>1. PICK status \in AgentStatus : Take(status, FALSE)
    BY <1>0, <1>10 DEF PollSession
  <2>2. ~precise' /\ precise' \in BOOLEAN
    BY <2>1, Zenon DEF Take
  <2> QED
    BY <1>0, <1>10, <2>1, <2>2 DEF PollSession, Take
<1>11. CASE StopPolling
  BY <1>0, <1>11 DEF StopPolling, TellToStop
<1>12. CASE ReturnResult
  BY <1>0, <1>12 DEF ReturnResult
<1>13. CASE HearRequest
  BY <1>0, <1>13 DEF HearRequest
<1>14. CASE StopAndRaise
  BY <1>0, <1>14 DEF StopAndRaise, TellToStop
<1> QED
  BY <1>1, <1>2, <1>3, <1>4, <1>5, <1>6, <1>7, <1>8, <1>9, <1>10, <1>11, <1>12, <1>13, <1>14
     DEF Progress

\* Nor does the environment disturb it.
LEMMA StepKeeps == Inv /\ [Next]_vars => Inv'
<1> SUFFICES ASSUME Inv, [Next]_vars PROVE Inv'
  OBVIOUS
<1> USE DEF Inv, TypeOK, Stage, SessionReady, MessageHasSession, ResultReady,
            ResultIsFinal, CancelReachesRuntime, Addressable, setting, runtime, reading,
            timing, Finish
<1>1. CASE Execution
  BY <1>1, ExecutionKeeps
<1>0. LoseAnswer \/ Break \/ Hold \/ TimeLimit => held' \in BOOLEAN /\ limit' \in BOOLEAN
  BY Zenon DEF LoseAnswer, Break, Hold, TimeLimit
<1>2. CASE LoseAnswer
  BY <1>0, <1>2 DEF LoseAnswer, TellToStop
<1>3. CASE Break
  BY <1>0, <1>3 DEF Break
<1>4. CASE RequestCancel
  BY <1>4 DEF RequestCancel
<1>5. CASE Expire
  BY <1>5 DEF Expire
<1>6. CASE RuntimeEnds
  BY <1>6 DEF RuntimeEnds
<1>7. CASE Hold
  BY <1>0, <1>7 DEF Hold
<1>8. CASE TimeLimit
  BY <1>0, <1>8 DEF TimeLimit
<1>9. CASE UNCHANGED vars
  BY <1>9 DEF vars
<1> QED
  BY <1>1, <1>2, <1>3, <1>4, <1>5, <1>6, <1>7, <1>8, <1>9 DEF Next

LEMMA InvAlways == Spec => []Inv
BY InitInv, StepKeeps, PTL DEF Spec

-----------------------------------------------------------------------------
\* Every variable keeps its type; the runtime is told to stop twice at most.
THEOREM AgentTypeCorrect == Spec => []TypeOK
BY InvAlways, PTL DEF Inv

\* A canceled agent run leaves nothing running at a runtime it can address.
THEOREM CancelIsPassedOn == Spec => []CancelReachesRuntime
BY InvAlways, PTL DEF Inv

\* A polled run returns the status its runtime's run ended with.
THEOREM ResultsAreFinal == Spec => []ResultIsFinal
BY InvAlways, PTL DEF Inv

\* A message goes to a session that exists when the gateway can create one.
THEOREM MessagesHaveSessions == Spec => []MessageHasSession
BY InvAlways, PTL DEF Inv

-----------------------------------------------------------------------------
\* A request has come and the run has not returned: this stays so.
Heard == requested /\ outcome # "returned"

LEMMA HeardStays == Inv /\ Heard /\ [Next]_vars => Heard'
<1> SUFFICES ASSUME Inv, Heard, [Next]_vars PROVE Heard'
  OBVIOUS
<1> USE DEF Inv, Stage, Heard, setting, Goto, Finish
<1>1. CASE Execution
  BY <1>1 DEF Execution, Progress, CheckBefore, SessionFound, SessionNotFound, CreateSession,
     AcceptLocally, Send, Deadline, CheckWhilePolling, PollRun, PollSession, Take,
     StopPolling, ReturnResult, HearRequest, StopAndRaise
<1>2. CASE LoseAnswer \/ Break \/ Hold \/ TimeLimit \/ RequestCancel \/ Expire \/ RuntimeEnds
  BY <1>2 DEF LoseAnswer, Break, Hold, TimeLimit, RequestCancel, Expire, RuntimeEnds
<1>3. CASE UNCHANGED vars
  BY <1>3 DEF vars
<1> QED
  BY <1>1, <1>2, <1>3 DEF Next

\* A request that comes before the end of the execution keeps the run from returning.
THEOREM RequestsAreHeard == Spec => RequestIsHeard
<1>1. requested /\ outcome = "none" => Heard
  BY DEF Heard
<1>2. Heard => outcome # "returned"
  BY DEF Heard
<1> QED
  BY <1>1, <1>2, HeardStays, InvAlways, PTL DEF Spec, RequestIsHeard

-----------------------------------------------------------------------------
\* The safety of ExecutorContract: it ends once, and "cancelled" only when asked.
THEOREM EndsAsContracted == Spec => Contract!Init /\ [][Contract!Next]_(Contract!vars)
<1>1. Init => Contract!Init
  BY DEF Init, Contract!Init
<1>2. Inv /\ [Next]_vars => [Contract!Next]_(Contract!vars)
  <2> SUFFICES ASSUME Inv, [Next]_vars PROVE [Contract!Next]_(Contract!vars)
    OBVIOUS
  <2> USE DEF Inv, TypeOK, Stage, setting, Goto, Finish, Contract!Next, Contract!vars,
              Contract!Request, Contract!End
  <2>1. CASE Execution
    BY <2>1 DEF Execution, Progress, CheckBefore, SessionFound, SessionNotFound, CreateSession,
       AcceptLocally, Send, Deadline, CheckWhilePolling, PollRun, PollSession, Take,
       StopPolling, ReturnResult, HearRequest, StopAndRaise
  <2>2. CASE LoseAnswer \/ Break \/ TimeLimit
    BY <2>2 DEF LoseAnswer, Break, TimeLimit
  <2>3. CASE RequestCancel \/ Expire \/ RuntimeEnds \/ Hold
    BY <2>3 DEF RequestCancel, Expire, RuntimeEnds, Hold
  <2>4. CASE UNCHANGED vars
    BY <2>4 DEF vars
  <2> QED
    BY <2>1, <2>2, <2>3, <2>4 DEF Next
<1> QED
  BY <1>1, <1>2, InvAlways, PTL DEF Spec

=============================================================================

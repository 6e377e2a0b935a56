--------------------------- MODULE JobQueueProofs ---------------------------
(***************************************************************************)
(* Proofs about JobQueue, for every set of jobs and workers and every      *)
(* bound.  The argument: whatever an execution, a late call or a crash     *)
(* does, the tables see one of seven changes to one row (StepTables);      *)
(* each of them keeps QueueInv (TableStepFramed), which is inductive.  The *)
(* action properties and the refinement of JobLifecycle follow from the    *)
(* same seven cases; the queue also implements, step by step, the rows its *)
(* handlers work with (JobsSpec of WorkerJobs).  Then come the behaviours  *)
(* without a fault (FaultFreeInv), where the map of a worker holds what it *)
(* runs, so that a stop leaves no lease and a poll never claims beyond     *)
(* capacity, what is left of that whatever fails (PlacesInv), and that a   *)
(* requested cancellation is carried out once leases end.                  *)
(***************************************************************************)
EXTENDS JobQueue, FiniteSetTheorems, TLAPS

USE DEF QueueAssumption

-----------------------------------------------------------------------------
(* Types of the process state.                                             *)

\* A two-level update keeps the type of a function of functions.
LEMMA NestedUpdate ==
  ASSUME NEW S, NEW T, NEW V, NEW f \in [S -> [T -> V]], NEW s, NEW t, NEW v \in V
  PROVE  [f EXCEPT ![s][t] = v] \in [S -> [T -> V]]
  OBVIOUS

\* The row an UPDATE that clears the lease writes is a row.
LEMMA SettledType ==
  ASSUME NEW row \in JobRows, NEW status \in JobStatuses, NEW due \in BOOLEAN
  PROVE  Settled(row, status, due) \in JobRows
  BY DEF Settled, JobRows

\* Every error leads execute to a place it knows.
LEMMA ThrowPcType ==
  ASSUME NEW e \in Executions, NEW r \in BOOLEAN
  PROVE  ThrowPc(e, r) \in Pcs
  BY DEF ThrowPc, CatchPc, Pcs, CallPcs, TimerPcs, TryCalls, CatchCalls

\* Continuing or ending an execution keeps the types of the process state.
LEMMA GotoType ==
  ASSUME TypeOK, NEW j \in Jobs, NEW a \in AttemptNumbers, NEW pc \in Pcs,
         Goto(j, a, pc)
  PROVE  /\ exec' \in [Jobs -> [AttemptNumbers -> Executions]]
         /\ active' \in [Workers -> [Jobs -> 0..AttemptCap]]
         /\ poll' \in [Workers -> {"idle", "claiming", "releasing"}]
<1>1. exec[j][a] \in Executions
  BY DEF TypeOK
<1>2. [NoExec EXCEPT !.pc = "done", !.hb = exec[j][a].hb] \in Executions
  BY <1>1 DEF NoExec, Executions, Pcs
<1>3. [exec[j][a] EXCEPT !.pc = pc, !.early = (pc \in CallPcs => jobs[j].lease # "expired")] \in Executions
  BY <1>1 DEF Executions
<1>4. exec' \in [Jobs -> [AttemptNumbers -> Executions]]
  BY <1>1, <1>2, <1>3 DEF TypeOK, Goto
<1>5. active' \in [Workers -> [Jobs -> 0..AttemptCap]]
  <2>1. active' = active \/ active' = [active EXCEPT ![WorkerOf(j, a)][j] = 0]
    BY DEF Goto
  <2>2. active \in [Workers -> [Jobs -> 0..AttemptCap]] /\ 0 \in 0..AttemptCap
    BY QueueAssumption DEF TypeOK
  <2> QED BY <2>1, <2>2
<1>6. poll' \in [Workers -> {"idle", "claiming", "releasing"}]
  BY QueueAssumption DEF TypeOK, Goto
<1> QED BY <1>4, <1>5, <1>6

\* The conjuncts of TypeOK about the worker processes.
ProcessesOK ==
  /\ exec   \in [Jobs -> [AttemptNumbers -> Executions]]
  /\ active \in [Workers -> [Jobs -> 0..AttemptCap]]
  /\ worker \in [Workers -> {"running", "stopping", "aborting", "stopped", "down"}]
  /\ poll   \in [Workers -> {"idle", "claiming", "releasing"}]
  /\ faults \in 0..MaxFaults

\* The fault counter stays within its bound.
LEMMA FaultType == ASSUME TypeOK, Fault PROVE faults' \in 0..MaxFaults
  BY QueueAssumption DEF TypeOK, Fault

\* An error keeps the types of the process state.
LEMMA ThrowType ==
  ASSUME TypeOK, NEW j \in Jobs, NEW a \in AttemptNumbers, Throw(j, a)
  PROVE  /\ exec' \in [Jobs -> [AttemptNumbers -> Executions]]
         /\ active' \in [Workers -> [Jobs -> 0..AttemptCap]]
         /\ poll' \in [Workers -> {"idle", "claiming", "releasing"}]
<1>1. exec[j][a] \in Executions
  BY DEF TypeOK
<1>2. PICK r \in BOOLEAN : Goto(j, a, ThrowPc(exec[j][a], r))
  BY DEF Throw
<1>3. ThrowPc(exec[j][a], r) \in Pcs
  BY <1>1, ThrowPcType
<1> QED BY <1>2, <1>3, GotoType

\* The reply of a queue call, or its loss, keeps the types of the process state.
LEMMA ReplyType ==
  ASSUME TypeOK, NEW j \in Jobs, NEW a \in AttemptNumbers, NEW pc \in Pcs,
         Reply(j, a, pc), worker' = worker
  PROVE  ProcessesOK'
<1>1. CASE Goto(j, a, pc) /\ UNCHANGED faults
  BY <1>1, GotoType DEF ProcessesOK, TypeOK
<1>2. CASE Fault /\ Throw(j, a)
  BY <1>2, ThrowType, FaultType DEF ProcessesOK, TypeOK
<1> QED BY <1>1, <1>2 DEF Reply

\* Every step of DurableWorker.execute keeps the types of the process state.
LEMMA ExecutionProcesses ==
  ASSUME TypeOK, NEW j \in Jobs, NEW a \in AttemptNumbers, Execution(j, a)
  PROVE  ProcessesOK'
<1>0. exec[j][a] \in Executions /\ {"handling", "returned", "done", "ackTry", "releaseTry",
         "complete", "ackFinal"} \subseteq Pcs
  BY DEF TypeOK, Pcs, TimerPcs, CallPcs, TryCalls, CatchCalls
<1>1. CASE startJob(j, a)
  BY <1>0, <1>1, ReplyType DEF startJob
<1>2. CASE completeJob(j, a) \/ failJob(j, a) \/ acknowledgeJobCancellation(j, a)
           \/ releaseJobLease(j, a)
  <2>1. Reply(j, a, "done") /\ worker' = worker
    BY <1>2 DEF completeJob, failJob, acknowledgeJobCancellation, releaseJobLease
  <2> QED BY <1>0, <2>1, ReplyType
<1>3. CASE CallRejected(j, a) \/ HandlerThrows(j, a) \/ AbortWins(j, a)
  <2>1. Throw(j, a) /\ UNCHANGED <<worker, faults>>
    BY <1>3 DEF CallRejected, HandlerThrows, AbortWins
  <2> QED BY <2>1, ThrowType DEF ProcessesOK, TypeOK
<1>4. CASE CallError(j, a)
  BY <1>4, ThrowType, FaultType DEF CallError, ProcessesOK, TypeOK
<1>5. CASE HandlerReturns(j, a) \/ AfterHandler(j, a) \/ RecheckJob(j, a)
  <2>1. PICK pc \in Pcs : Goto(j, a, pc)
    BY <1>0, <1>5 DEF HandlerReturns, AfterHandler, RecheckJob
  <2>2. UNCHANGED <<worker, faults>>
    BY <1>5 DEF HandlerReturns, AfterHandler, RecheckJob
  <2> QED BY <2>1, <2>2, GotoType DEF ProcessesOK, TypeOK
<1>6. CASE Timeout(j, a)
  <2>1. [exec[j][a] EXCEPT !.timedOut = TRUE] \in Executions
    BY <1>0 DEF Executions
  <2>2. exec' \in [Jobs -> [AttemptNumbers -> Executions]]
    BY <1>6, <2>1 DEF Timeout, TypeOK
  <2> QED BY <1>6, <2>2 DEF Timeout, ProcessesOK, TypeOK
<1>7. CASE SendHeartbeat(j, a)
  <2> DEFINE hb == IF jobs[j].lease = "expired" THEN "late" ELSE "early"
  <2>1. [exec[j][a] EXCEPT !.hb = hb] \in Executions
    BY <1>0 DEF Executions
  <2>2. exec' \in [Jobs -> [AttemptNumbers -> Executions]]
    BY <1>7, <2>1 DEF SendHeartbeat, TypeOK
  <2> QED BY <1>7, <2>2 DEF SendHeartbeat, ProcessesOK, TypeOK
<1>8. CASE Heartbeat(j, a)
  <2>1. ASSUME NEW c \in BOOLEAN, NEW l \in BOOLEAN, HeartbeatSettles(j, a, c, l)
        PROVE  exec' \in [Jobs -> [AttemptNumbers -> Executions]]
    <3> DEFINE e == exec[j][a]
    <3>1. [e EXCEPT !.hb = "none", !.cancelReq = e.cancelReq \/ c,
               !.leaseLost = e.leaseLost \/ l] \in Executions
      BY <1>0 DEF Executions
    <3>2. [e EXCEPT !.hb = "none"] \in Executions
      BY <1>0 DEF Executions
    <3> QED BY <2>1, <3>1, <3>2 DEF HeartbeatSettles, TypeOK
  <2>2. exec' \in [Jobs -> [AttemptNumbers -> Executions]]
    BY <1>8, <2>1 DEF Heartbeat, heartbeatJob, HeartbeatFails
  <2>3. faults' \in 0..MaxFaults
    BY <1>8, FaultType DEF Heartbeat, heartbeatJob, HeartbeatFails, TypeOK
  <2> QED BY <1>8, <2>2, <2>3 DEF Heartbeat, heartbeatJob, HeartbeatFails, ProcessesOK, TypeOK
<1> QED
  BY <1>1, <1>2, <1>3, <1>4, <1>5, <1>6, <1>7, <1>8 DEF Execution, QueueCall

\* Every step keeps the types of the process state.
LEMMA StepProcesses ==
  ASSUME TypeOK, [Next]_vars
  PROVE  ProcessesOK'
<1>1. CASE \E j \in Jobs : Operator(j)
  BY <1>1 DEF Operator, submitJob, requestJobCancellation, manualRetryJob, ProcessesOK, TypeOK
<1>2. ASSUME NEW j \in Jobs, Clock(j) PROVE ProcessesOK'
  <2>1. CASE BecomeDue(j)
    BY <2>1 DEF BecomeDue, ProcessesOK, TypeOK
  <2>2. CASE UnattendedLapse(j) \/ StalledLapse(j)
    <3>1. faults' \in 0..MaxFaults /\ LeaseLapses(j)
      BY <2>2, FaultType DEF UnattendedLapse, StalledLapse, TypeOK
    <3>2. \A a \in AttemptNumbers :
            [exec[j][a] EXCEPT !.early = TRUE,
               !.hb = IF exec[j][a].hb = "none" THEN "none" ELSE "early"] \in Executions
      <4> TAKE a \in AttemptNumbers
      <4>1. exec[j][a] \in Executions
        BY DEF TypeOK
      <4> QED BY <4>1 DEF Executions
    <3>3. exec' \in [Jobs -> [AttemptNumbers -> Executions]]
      BY <3>1, <3>2 DEF LeaseLapses, TypeOK
    <3> QED BY <3>1, <3>3 DEF LeaseLapses, ProcessesOK, TypeOK
  <2> QED BY <1>2, <2>1, <2>2 DEF Clock
<1>3. ASSUME NEW w \in Workers, Process(w) PROVE ProcessesOK'
  <2>1. CASE IssueClaim(w) \/ ClaimNothing(w) \/ RequestStop(w) \/ Restart(w)
    BY <2>1 DEF IssueClaim, ClaimNothing, RequestStop, Restart, ProcessesOK, TypeOK
  <2>2. CASE AbortActive(w)
    <3>1. \A j \in Jobs, a \in AttemptNumbers :
            [exec[j][a] EXCEPT !.shutdown = TRUE] \in Executions
      <4> TAKE j \in Jobs, a \in AttemptNumbers
      <4>1. exec[j][a] \in Executions
        BY DEF TypeOK
      <4> QED BY <4>1 DEF Executions
    <3>2. exec' \in [Jobs -> [AttemptNumbers -> Executions]]
      BY <2>2, <3>1 DEF AbortActive, TypeOK
    <3> QED BY <2>2, <3>2 DEF AbortActive, ProcessesOK, TypeOK
  <2>3. CASE FinishStop(w) \/ Crash(w)
    <3>1. \E state \in {"stopped", "down"} : ProcessEnds(w, state)
      BY <2>3 DEF FinishStop, Crash
    <3>2. faults' \in 0..MaxFaults
      BY <2>3, FaultType DEF FinishStop, Crash, TypeOK
    <3>3. [NoExec EXCEPT !.pc = "done"] \in Executions
      BY DEF NoExec, Executions, Pcs
    <3>4. exec' \in [Jobs -> [AttemptNumbers -> Executions]]
      BY <3>1, <3>3 DEF ProcessEnds, TypeOK
    <3>5. active' \in [Workers -> [Jobs -> 0..AttemptCap]]
      <4>1. [j \in Jobs |-> 0] \in [Jobs -> 0..AttemptCap]
        BY QueueAssumption
      <4> QED BY <3>1, <4>1 DEF ProcessEnds, TypeOK
    <3> QED BY <3>1, <3>2, <3>4, <3>5 DEF ProcessEnds, ProcessesOK, TypeOK
  <2> QED BY <1>3, <2>1, <2>2, <2>3 DEF Process
<1>4. ASSUME NEW w \in Workers, NEW j \in Jobs, recoverExpiredJobs(w, j) PROVE ProcessesOK'
  BY <1>4 DEF recoverExpiredJobs, ProcessesOK, TypeOK
<1>5. ASSUME NEW w \in Workers, NEW j \in Jobs, claimJobs(w, j) PROVE ProcessesOK'
  <2> DEFINE a == jobs[j].attempts + 1
  <2>0. a \in 0..AttemptCap
    BY <1>5, QueueAssumption DEF claimJobs, Claimable, TypeOK, JobRows
  <2>1. [NoExec EXCEPT !.pc = "starting"] \in Executions /\
        [NoExec EXCEPT !.pc = "pollRelease"] \in Executions
    BY DEF NoExec, Executions, Pcs, CallPcs
  <2>2. exec' \in [Jobs -> [AttemptNumbers -> Executions]]
    <3>1. \E e \in Executions : exec' = [exec EXCEPT ![j][a] = e]
      BY <1>5, <2>1 DEF claimJobs
    <3>2. exec \in [Jobs -> [AttemptNumbers -> Executions]]
      BY DEF TypeOK
    <3> QED BY <3>1, <3>2, NestedUpdate
  <2>3. active' \in [Workers -> [Jobs -> 0..AttemptCap]]
    <3> DEFINE V == 0..AttemptCap
    <3>1. active' = active \/ \E n \in V : active' = [active EXCEPT ![w][j] = n]
      BY <1>5, <2>0 DEF claimJobs
    <3>2. active \in [Workers -> [Jobs -> V]]
      BY DEF TypeOK
    <3> HIDE DEF V
    <3>3. active' \in [Workers -> [Jobs -> V]]
      <4>1. ASSUME NEW n \in V, active' = [active EXCEPT ![w][j] = n]
            PROVE  active' \in [Workers -> [Jobs -> V]]
        BY <3>2, <4>1
      <4> QED BY <3>1, <3>2, <4>1
    <3> QED BY <3>3 DEF V
  <2>4. poll' \in [Workers -> {"idle", "claiming", "releasing"}]
    BY <1>5 DEF claimJobs, TypeOK
  <2> QED BY <1>5, <2>2, <2>3, <2>4 DEF claimJobs, ProcessesOK, TypeOK
<1>6. CASE \E j \in Jobs, a \in AttemptNumbers : Execution(j, a)
  BY <1>6, ExecutionProcesses
<1>7. CASE UNCHANGED vars
  BY <1>7 DEF vars, ProcessesOK, TypeOK
<1> QED BY <1>1, <1>2, <1>3, <1>4, <1>5, <1>6, <1>7 DEF Next

-----------------------------------------------------------------------------
(* Steps seen from the tables.                                             *)

\* The statuses of an attempt that has ended.
ClosedStatuses == AttemptStatuses \ {"NONE", "CLAIMED", "RUNNING"}

\* A step that moves only the clocks of the row of j: due, lease, version.
Touch(j) ==
  /\ jobs[j].status \in WaitingStatuses \cup LeasedStatuses
  /\ \E lease \in {"none", "current", "expired"}, due \in BOOLEAN, asClaimed \in BOOLEAN :
       /\ lease = "none" <=> jobs[j].lease = "none"
       /\ jobs' = [jobs EXCEPT ![j] = [jobs[j] EXCEPT !.lease = lease, !.due = due,
                                                      !.asClaimed = asClaimed]]
  /\ UNCHANGED <<history, output>>

\* claimJobs, as far as the tables show it.
ClaimRow(j) ==
  /\ jobs[j].status \in WaitingStatuses
  /\ jobs[j].attempts < jobs[j].maxAttempts
  /\ \E w \in Workers :
       /\ jobs' = [jobs EXCEPT ![j] =
                     [jobs[j] EXCEPT !.status = "CLAIMED", !.attempts = jobs[j].attempts + 1,
                        !.owner = w, !.lease = "current", !.asClaimed = TRUE]]
       /\ history' = [history EXCEPT ![j][jobs[j].attempts + 1] =
                        [worker |-> w, status |-> "CLAIMED"]]
  /\ UNCHANGED output

\* startJob, as far as the tables show it.
StartRow(j) ==
  /\ jobs[j].status = "CLAIMED"
  /\ jobs' = [jobs EXCEPT ![j] = [jobs[j] EXCEPT !.status = "RUNNING", !.asClaimed = FALSE]]
  /\ SetAttempt(j, "RUNNING")
  /\ UNCHANGED output

\* Every way an attempt ends: completeJob, failJob, acknowledgeJobCancellation,
\* releaseJobLease and recoverExpiredJobs, as far as the tables show them.
SettleRow(j) ==
  /\ jobs[j].status \in LeasedStatuses
  /\ \E target \in {"RETRY_WAIT"} \cup TerminalStatuses, due \in BOOLEAN,
        closed \in ClosedStatuses :
       /\ canTransitionJob(jobs[j].status, target)
       /\ target = "CANCELLED" => jobs[j].status = "CANCELLATION_REQUESTED"
       /\ target = "DEAD_LETTER" => ~ (jobs[j].attempts < jobs[j].maxAttempts)
       /\ jobs' = [jobs EXCEPT ![j] = Settled(jobs[j], target, due)]
       /\ SetAttempt(j, closed)
       /\ IF target = "SUCCEEDED"
            THEN \E a \in AttemptNumbers :
                   /\ history[j][a].worker = jobs[j].owner
                   /\ output' = [output EXCEPT ![j] = a]
            ELSE UNCHANGED output

\* The seven things that can happen to the row of j.
TableStep(j) ==
  \/ submitJob(j) \/ requestJobCancellation(j) \/ manualRetryJob(j)
  \/ Touch(j) \/ ClaimRow(j) \/ StartRow(j) \/ SettleRow(j)

\* Every step of the queue and its workers is, for the tables, one of those
\* seven on one row, or changes no table.
LEMMA StepTables ==
  ASSUME TypeOK, LeaseMatchesStatus, [Next]_vars
  PROVE  UNCHANGED <<jobs, history, output>> \/ \E j \in Jobs : TableStep(j)
<1>0. \A j \in Jobs : jobs[j] \in JobRows
  BY DEF TypeOK
<1>1. CASE \E j \in Jobs : Operator(j)
  BY <1>1 DEF Operator, TableStep
<1>2. ASSUME NEW j \in Jobs, Clock(j) PROVE Touch(j)
  <2>1. CASE BecomeDue(j)
    <3>1. jobs' = [jobs EXCEPT ![j] = [jobs[j] EXCEPT !.lease = jobs[j].lease, !.due = TRUE,
                     !.asClaimed = jobs[j].asClaimed]]
      BY <1>0, <2>1 DEF BecomeDue, JobRows, TypeOK
    <3>2. jobs[j].lease \in {"none", "current", "expired"} /\ jobs[j].asClaimed \in BOOLEAN
      BY <1>0 DEF JobRows
    <3> QED BY <2>1, <3>1, <3>2 DEF BecomeDue, Touch
  <2>2. CASE LeaseLapses(j)
    <3>1. jobs' = [jobs EXCEPT ![j] = [jobs[j] EXCEPT !.lease = "expired", !.due = jobs[j].due,
                     !.asClaimed = jobs[j].asClaimed]]
      BY <1>0, <2>2 DEF LeaseLapses, JobRows, TypeOK
    <3>2. jobs[j].due \in BOOLEAN /\ jobs[j].asClaimed \in BOOLEAN
      BY <1>0 DEF JobRows
    <3>3. jobs[j].status \in LeasedStatuses /\ jobs[j].lease # "none"
      BY <2>2 DEF LeaseLapses, LeaseMatchesStatus
    <3> QED BY <2>2, <3>1, <3>2, <3>3 DEF LeaseLapses, Touch
  <2> QED BY <1>2, <2>1, <2>2 DEF Clock, UnattendedLapse, StalledLapse
<1>3. ASSUME NEW w \in Workers, Process(w) PROVE UNCHANGED <<jobs, history, output>>
  BY <1>3 DEF Process, IssueClaim, ClaimNothing, RequestStop, AbortActive, FinishStop,
              Crash, Restart, ProcessEnds
<1>4. ASSUME NEW w \in Workers, NEW j \in Jobs, recoverExpiredJobs(w, j) PROVE SettleRow(j)
  <2> DEFINE row == jobs[j]
             target == IF row.status = "CANCELLATION_REQUESTED" THEN "CANCELLED"
                       ELSE IF row.attempts < row.maxAttempts THEN "RETRY_WAIT"
                       ELSE "DEAD_LETTER"
             due == IF target = "RETRY_WAIT" THEN FALSE ELSE row.due
  <2>1. due \in BOOLEAN /\ "LEASE_EXPIRED" \in ClosedStatuses
    BY <1>0 DEF JobRows, ClosedStatuses, AttemptStatuses
  <2>2. /\ target \in {"RETRY_WAIT"} \cup TerminalStatuses
        /\ canTransitionJob(row.status, target)
        /\ target # "SUCCEEDED"
    BY <1>4 DEF recoverExpiredJobs, TerminalStatuses, LeasedStatuses, canTransitionJob,
                transitions, JobStatuses
  <2>3. /\ target = "CANCELLED" => row.status = "CANCELLATION_REQUESTED"
        /\ target = "DEAD_LETTER" => ~ (row.attempts < row.maxAttempts)
    OBVIOUS
  <2>4. /\ row.status \in LeasedStatuses
        /\ jobs' = [jobs EXCEPT ![j] = Settled(row, target, due)]
        /\ SetAttempt(j, "LEASE_EXPIRED")
        /\ UNCHANGED output
    BY <1>4 DEF recoverExpiredJobs
  <2> HIDE DEF row, target, due
  <2> QED BY <2>1, <2>2, <2>3, <2>4 DEF SettleRow, row
<1>5. ASSUME NEW w \in Workers, NEW j \in Jobs, claimJobs(w, j) PROVE ClaimRow(j)
  BY <1>5 DEF claimJobs, Claimable, ClaimRow
<1>6. ASSUME NEW j \in Jobs, NEW a \in AttemptNumbers, Execution(j, a)
      PROVE  UNCHANGED <<jobs, history, output>> \/ TableStep(j)
  <2>1. CASE startJob(j, a)
    <3>1. jobs[j].status = "CLAIMED"
      BY <2>1 DEF startJob, CallPasses, lockOwnedJob, AllowedStatuses
    <3>2. jobs' = [jobs EXCEPT ![j] = [jobs[j] EXCEPT !.status = "RUNNING", !.asClaimed = FALSE]]
      BY <1>0, <2>1 DEF startJob, JobRows, TypeOK
    <3> QED BY <2>1, <3>1, <3>2 DEF startJob, StartRow, TableStep
  <2>2. CASE completeJob(j, a)
    <3>1. /\ jobs[j].status = "RUNNING"
          /\ history[j][a].worker = jobs[j].owner
      BY <2>2 DEF completeJob, CallPasses, lockOwnedJob, AllowedStatuses, WorkerOf
    <3>2. jobs[j].due \in BOOLEAN
      BY <1>0 DEF JobRows
    <3>3. canTransitionJob("RUNNING", "SUCCEEDED")
      BY DEF canTransitionJob, transitions, JobStatuses
    <3>4. "RUNNING" \in LeasedStatuses /\ "SUCCEEDED" \in ClosedStatuses
          /\ "SUCCEEDED" \in {"RETRY_WAIT"} \cup TerminalStatuses
      BY DEF LeasedStatuses, ClosedStatuses, AttemptStatuses, TerminalStatuses
    <3>5. /\ jobs' = [jobs EXCEPT ![j] = Settled(jobs[j], "SUCCEEDED", jobs[j].due)]
          /\ SetAttempt(j, "SUCCEEDED")
          /\ output' = [output EXCEPT ![j] = a]
      BY <2>2 DEF completeJob
    <3>6. SettleRow(j)
      BY <3>1, <3>2, <3>3, <3>4, <3>5 DEF SettleRow
    <3> QED BY <3>6 DEF TableStep
  <2>3. CASE failJob(j, a)
    <3> DEFINE target == failureJobStatus(Pc(j, a) = "failRetryable",
                                          jobs[j].attempts, jobs[j].maxAttempts)
               due == IF target = "RETRY_WAIT" THEN FALSE ELSE jobs[j].due
    <3>1. jobs[j].status \in {"CLAIMED", "RUNNING"}
      BY <2>3 DEF failJob, CallPasses, lockOwnedJob, AllowedStatuses
    <3>2. due \in BOOLEAN
      BY <1>0 DEF JobRows
    <3>3. /\ target \in {"RETRY_WAIT", "FAILED", "DEAD_LETTER"}
          /\ target = "DEAD_LETTER" => ~ (jobs[j].attempts < jobs[j].maxAttempts)
      BY DEF failureJobStatus
    <3>4. /\ jobs' = [jobs EXCEPT ![j] = Settled(jobs[j], target, due)]
          /\ SetAttempt(j, target)
          /\ UNCHANGED output
      BY <2>3 DEF failJob
    <3> HIDE DEF target, due
    <3>5. /\ canTransitionJob(jobs[j].status, target)
          /\ jobs[j].status \in LeasedStatuses
          /\ target \in ClosedStatuses
          /\ target \in {"RETRY_WAIT"} \cup TerminalStatuses
          /\ target # "SUCCEEDED" /\ target # "CANCELLED"
      BY <3>1, <3>3 DEF canTransitionJob, transitions, JobStatuses, LeasedStatuses,
                        ClosedStatuses, AttemptStatuses, TerminalStatuses
    <3>6. SettleRow(j)
      BY <3>2, <3>3, <3>4, <3>5 DEF SettleRow
    <3> QED BY <3>6 DEF TableStep
  <2>4. CASE acknowledgeJobCancellation(j, a)
    <3>1. jobs[j].status = "CANCELLATION_REQUESTED"
      BY <2>4 DEF acknowledgeJobCancellation, CallPasses, lockOwnedJob, AllowedStatuses
    <3>2. jobs[j].due \in BOOLEAN
      BY <1>0 DEF JobRows
    <3>3. /\ jobs' = [jobs EXCEPT ![j] = Settled(jobs[j], "CANCELLED", jobs[j].due)]
          /\ SetAttempt(j, "CANCELLED")
          /\ UNCHANGED output
      BY <2>4 DEF acknowledgeJobCancellation
    <3>4. /\ canTransitionJob(jobs[j].status, "CANCELLED")
          /\ jobs[j].status \in LeasedStatuses
          /\ "CANCELLED" \in ClosedStatuses
          /\ "CANCELLED" \in {"RETRY_WAIT"} \cup TerminalStatuses
      BY <3>1 DEF canTransitionJob, transitions, JobStatuses, LeasedStatuses,
                  ClosedStatuses, AttemptStatuses, TerminalStatuses
    <3>5. SettleRow(j)
      BY <3>1, <3>2, <3>3, <3>4 DEF SettleRow
    <3> QED BY <3>5 DEF TableStep
  <2>5. CASE releaseJobLease(j, a)
    <3> DEFINE target == IF jobs[j].status = "CANCELLATION_REQUESTED"
                           THEN "CANCELLED" ELSE "RETRY_WAIT"
               due == IF target = "RETRY_WAIT" THEN TRUE ELSE jobs[j].due
    <3>1. jobs[j].status \in LeasedStatuses
      BY <2>5 DEF releaseJobLease, CallPasses, lockOwnedJob, AllowedStatuses
    <3>2. due \in BOOLEAN
      BY <1>0 DEF JobRows
    <3>3. /\ jobs' = [jobs EXCEPT ![j] = Settled(jobs[j], target, due)]
          /\ SetAttempt(j, target)
          /\ UNCHANGED output
      BY <2>5 DEF releaseJobLease
    <3>4. /\ canTransitionJob(jobs[j].status, target)
          /\ target \in ClosedStatuses
          /\ target \in {"RETRY_WAIT"} \cup TerminalStatuses
          /\ target # "SUCCEEDED" /\ target # "DEAD_LETTER"
          /\ target = "CANCELLED" => jobs[j].status = "CANCELLATION_REQUESTED"
      BY <3>1 DEF canTransitionJob, transitions, JobStatuses, LeasedStatuses,
                  ClosedStatuses, AttemptStatuses, TerminalStatuses
    <3> HIDE DEF target, due
    <3>5. SettleRow(j)
      BY <3>1, <3>2, <3>3, <3>4 DEF SettleRow
    <3> QED BY <3>5 DEF TableStep
  <2>6. CASE heartbeatJob(j, a)
    <3>1. PICK lease \in {"current", jobs[j].lease} :
            jobs' = [jobs EXCEPT ![j].lease = lease, ![j].asClaimed = FALSE]
      BY <2>6 DEF heartbeatJob
    <3>2. /\ jobs[j].status \in LeasedStatuses
          /\ jobs[j].lease # "none"
      BY <2>6 DEF heartbeatJob, HeartbeatOwns, LeaseMatchesStatus
    <3>3. /\ jobs[j].due \in BOOLEAN
          /\ lease \in {"none", "current", "expired"}
          /\ lease # "none"
      BY <1>0, <3>2 DEF JobRows
    <3>4. jobs' = [jobs EXCEPT ![j] = [jobs[j] EXCEPT !.lease = lease, !.due = jobs[j].due,
                     !.asClaimed = FALSE]]
      BY <1>0, <3>1 DEF JobRows, TypeOK
    <3>5. UNCHANGED <<history, output>>
      BY <2>6 DEF heartbeatJob
    <3>6. Touch(j)
      BY <3>2, <3>3, <3>4, <3>5 DEF Touch
    <3> QED BY <3>6 DEF TableStep
  <2>7. CASE \/ CallRejected(j, a) \/ CallError(j, a) \/ HandlerReturns(j, a)
             \/ HandlerThrows(j, a) \/ AbortWins(j, a) \/ AfterHandler(j, a)
             \/ RecheckJob(j, a) \/ Timeout(j, a) \/ SendHeartbeat(j, a)
             \/ HeartbeatFails(j, a)
    BY <2>7 DEF CallRejected, CallError, HandlerReturns, HandlerThrows, AbortWins,
                AfterHandler, RecheckJob, Timeout, SendHeartbeat, HeartbeatFails
  <2> QED
    BY <1>6, <2>1, <2>2, <2>3, <2>4, <2>5, <2>6, <2>7 DEF Execution, QueueCall, Heartbeat
<1>7. CASE UNCHANGED vars
  BY <1>7 DEF vars
<1> QED BY <1>1, <1>2, <1>3, <1>4, <1>5, <1>6, <1>7 DEF Next, TableStep

-----------------------------------------------------------------------------
(* The inductive invariant.                                                *)

\* The strengthening: an unsubmitted job has no attempts; a leased or succeeded
\* one has at least one, so its job_attempts row exists.
AttemptsMade ==
  \A j \in Jobs :
    /\ jobs[j].status = "NONE" => jobs[j].attempts = 0
    /\ jobs[j].status \in LeasedStatuses \cup {"SUCCEEDED"} => jobs[j].attempts > 0

\* The inductive invariant.
QueueInv ==
  /\ TypeOK
  /\ LeaseMatchesStatus
  /\ AttemptLedger
  /\ AttemptBudget
  /\ OutputFromLeaseHolder
  /\ AttemptsMade

\* The type of the attempts of one job.
AttemptRows == [AttemptNumbers -> [worker : Workers \cup {NoWorker}, status : AttemptStatuses]]

\* The part of QueueInv about one row of jobs, its attempts and its output.
RowInv(row, att, out) ==
  /\ row \in JobRows /\ att \in AttemptRows /\ out \in 0..AttemptCap
  /\ row.status \in LeasedStatuses <=> row.owner # NoWorker
  /\ row.status \in LeasedStatuses <=> row.lease # "none"
  /\ \A a \in AttemptNumbers :
       /\ att[a].status # "NONE" <=> a <= row.attempts
       /\ att[a].status \in {"CLAIMED", "RUNNING"} <=>
            a = row.attempts /\ row.status \in LeasedStatuses
       /\ row.status \in LeasedStatuses /\ a = row.attempts =>
            /\ att[a].worker = row.owner
            /\ row.status \in {"CLAIMED", "RUNNING"} => att[a].status = row.status
  /\ row.attempts <= row.maxAttempts
  /\ row.status = "QUEUED" => row.attempts < row.maxAttempts
  /\ row.status = "DEAD_LETTER" => row.attempts = row.maxAttempts
  /\ out # 0 <=> row.status = "SUCCEEDED"
  /\ out # 0 => att[out].worker = att[row.attempts].worker
  /\ row.status = "NONE" => row.attempts = 0
  /\ row.status \in LeasedStatuses \cup {"SUCCEEDED"} => row.attempts > 0

\* QueueInv is a type for the processes and RowInv of every row.
LEMMA RowInvEquiv ==
  QueueInv <=> /\ ProcessesOK
               /\ jobs \in [Jobs -> JobRows]
               /\ history \in [Jobs -> AttemptRows]
               /\ output \in [Jobs -> 0..AttemptCap]
               /\ \A j \in Jobs : RowInv(jobs[j], history[j], output[j])
<1>1. ASSUME QueueInv
      PROVE  /\ ProcessesOK
             /\ jobs \in [Jobs -> JobRows]
             /\ history \in [Jobs -> AttemptRows]
             /\ output \in [Jobs -> 0..AttemptCap]
             /\ \A j \in Jobs : RowInv(jobs[j], history[j], output[j])
  <2>1. /\ ProcessesOK
        /\ jobs \in [Jobs -> JobRows]
        /\ history \in [Jobs -> AttemptRows]
        /\ output \in [Jobs -> 0..AttemptCap]
    BY <1>1 DEF QueueInv, TypeOK, ProcessesOK, AttemptRows
  <2>2. ASSUME NEW j \in Jobs PROVE RowInv(jobs[j], history[j], output[j])
    BY <1>1, <2>1 DEF QueueInv, RowInv, LeaseMatchesStatus, AttemptLedger, AttemptBudget,
                      OutputFromLeaseHolder, AttemptsMade
  <2> QED BY <2>1, <2>2
<1>2. ASSUME /\ ProcessesOK
             /\ jobs \in [Jobs -> JobRows]
             /\ history \in [Jobs -> AttemptRows]
             /\ output \in [Jobs -> 0..AttemptCap]
             /\ \A j \in Jobs : RowInv(jobs[j], history[j], output[j])
      PROVE  QueueInv
  <2>1. TypeOK
    BY <1>2 DEF TypeOK, ProcessesOK, AttemptRows
  <2>2. LeaseMatchesStatus /\ AttemptsMade /\ AttemptBudget
    BY <1>2 DEF RowInv, LeaseMatchesStatus, AttemptsMade, AttemptBudget
  <2>3. AttemptLedger
    BY <1>2 DEF RowInv, AttemptLedger
  <2>4. OutputFromLeaseHolder
    BY <1>2 DEF RowInv, OutputFromLeaseHolder
  <2> QED BY <2>1, <2>2, <2>3, <2>4 DEF QueueInv
<1> QED BY <1>1, <1>2

\* A step of the clocks keeps the invariant of a row.
LEMMA TouchRowInv ==
  ASSUME NEW row, NEW att, NEW out, RowInv(row, att, out),
         NEW lease \in {"none", "current", "expired"}, NEW due \in BOOLEAN,
         NEW asClaimed \in BOOLEAN, lease = "none" <=> row.lease = "none"
  PROVE  RowInv([row EXCEPT !.lease = lease, !.due = due, !.asClaimed = asClaimed], att, out)
  BY DEF RowInv, JobRows

\* A claim opens the next attempt and keeps the invariant of a row.
LEMMA ClaimRowInv ==
  ASSUME NEW row, NEW att, NEW out, RowInv(row, att, out), NEW w \in Workers,
         row.status \in WaitingStatuses, row.attempts < row.maxAttempts
  PROVE  RowInv([row EXCEPT !.status = "CLAIMED", !.attempts = row.attempts + 1, !.owner = w,
                            !.lease = "current", !.asClaimed = TRUE],
                [att EXCEPT ![row.attempts + 1] = [worker |-> w, status |-> "CLAIMED"]], out)
<1> DEFINE n == row.attempts + 1
           new == [row EXCEPT !.status = "CLAIMED", !.attempts = n, !.owner = w,
                              !.lease = "current", !.asClaimed = TRUE]
           natt == [att EXCEPT ![n] = [worker |-> w, status |-> "CLAIMED"]]
<1>1. n \in AttemptNumbers
  BY QueueAssumption DEF RowInv, JobRows, AttemptNumbers
<1>2. new \in JobRows
  <2>1. n \in 0..AttemptCap
    BY <1>1 DEF AttemptNumbers
  <2>2. row \in JobRows /\ "CLAIMED" \in JobStatuses
    BY DEF RowInv, JobStatuses
  <2> HIDE DEF n
  <2> QED BY <2>1, <2>2 DEF JobRows
<1>3. /\ new.status = "CLAIMED" /\ new.attempts = n /\ new.owner = w /\ new.lease = "current"
      /\ new.maxAttempts = row.maxAttempts
  BY DEF RowInv, JobRows
<1>4. natt \in AttemptRows
  BY <1>1 DEF RowInv, AttemptRows, AttemptStatuses
<1>5. /\ natt[n] = [worker |-> w, status |-> "CLAIMED"]
      /\ \A a \in AttemptNumbers \ {n} : natt[a] = att[a]
  BY <1>1 DEF RowInv, AttemptRows
<1>6. out = 0
  BY DEF RowInv, WaitingStatuses
<1>7. /\ "CLAIMED" \in LeasedStatuses
      /\ row.status \notin LeasedStatuses
      /\ w # NoWorker
  BY QueueAssumption DEF LeasedStatuses, WaitingStatuses
<1>8. \A a \in AttemptNumbers \ {n} :
        /\ natt[a].status # "NONE" <=> a <= n
        /\ natt[a].status \notin {"CLAIMED", "RUNNING"}
  BY <1>1, <1>5, <1>7 DEF RowInv, JobRows, AttemptNumbers
<1>9. n <= row.maxAttempts /\ n > 0
  BY DEF RowInv, JobRows
<1> HIDE DEF new, natt
<1>10. RowInv(new, natt, out)
  <2>1. \A a \in AttemptNumbers :
         /\ natt[a].status # "NONE" <=> a <= new.attempts
         /\ natt[a].status \in {"CLAIMED", "RUNNING"} <=>
              a = new.attempts /\ new.status \in LeasedStatuses
         /\ new.status \in LeasedStatuses /\ a = new.attempts =>
              /\ natt[a].worker = new.owner
              /\ new.status \in {"CLAIMED", "RUNNING"} => natt[a].status = new.status
    BY <1>1, <1>3, <1>5, <1>7, <1>8 DEF AttemptNumbers
  <2> QED BY <1>2, <1>3, <1>4, <1>6, <1>7, <1>9, <2>1 DEF RowInv
<1> QED BY <1>10 DEF new, natt

\* startJob moves row and attempt together.
LEMMA StartRowInv ==
  ASSUME NEW row, NEW att, NEW out, RowInv(row, att, out), row.status = "CLAIMED"
  PROVE  RowInv([row EXCEPT !.status = "RUNNING", !.asClaimed = FALSE],
                [att EXCEPT ![row.attempts].status = "RUNNING"], out)
<1> DEFINE n == row.attempts
           new == [row EXCEPT !.status = "RUNNING", !.asClaimed = FALSE]
           natt == [att EXCEPT ![n].status = "RUNNING"]
<1>0. "CLAIMED" \in LeasedStatuses /\ "RUNNING" \in LeasedStatuses
  BY DEF LeasedStatuses
<1>1. n \in AttemptNumbers
  BY <1>0, QueueAssumption DEF RowInv, JobRows, AttemptNumbers
<1>2. new \in JobRows
  BY DEF RowInv, JobRows, JobStatuses
<1>3. /\ new.status = "RUNNING" /\ new.attempts = n /\ new.owner = row.owner
      /\ new.lease = row.lease /\ new.maxAttempts = row.maxAttempts
  BY DEF RowInv, JobRows
<1>4. natt \in AttemptRows
  BY <1>1 DEF RowInv, AttemptRows, AttemptStatuses
<1>5. /\ natt[n].status = "RUNNING" /\ natt[n].worker = att[n].worker
      /\ \A a \in AttemptNumbers \ {n} : natt[a] = att[a]
  BY <1>1 DEF RowInv, AttemptRows
<1>6. out = 0
  BY DEF RowInv
<1> HIDE DEF new, natt
<1>7. RowInv(new, natt, out)
  <2>1. \A a \in AttemptNumbers :
         /\ natt[a].status # "NONE" <=> a <= new.attempts
         /\ natt[a].status \in {"CLAIMED", "RUNNING"} <=>
              a = new.attempts /\ new.status \in LeasedStatuses
         /\ new.status \in LeasedStatuses /\ a = new.attempts =>
              /\ natt[a].worker = new.owner
              /\ new.status \in {"CLAIMED", "RUNNING"} => natt[a].status = new.status
    BY <1>0, <1>1, <1>3, <1>5 DEF RowInv, JobRows, AttemptNumbers
  <2> QED BY <1>0, <1>1, <1>2, <1>3, <1>4, <1>6, <2>1 DEF RowInv
<1> QED BY <1>7 DEF new, natt

\* The end of an attempt closes the attempt of the lease and clears the lease.
LEMMA SettleRowInv ==
  ASSUME NEW row, NEW att, NEW out, RowInv(row, att, out), row.status \in LeasedStatuses,
         NEW target \in {"RETRY_WAIT"} \cup TerminalStatuses, NEW due \in BOOLEAN,
         NEW closed \in ClosedStatuses, NEW nout \in 0..AttemptCap,
         target = "DEAD_LETTER" => ~ (row.attempts < row.maxAttempts),
         nout # 0 <=> target = "SUCCEEDED",
         nout # 0 => att[nout].worker = row.owner
  PROVE  RowInv(Settled(row, target, due), [att EXCEPT ![row.attempts].status = closed], nout)
<1> DEFINE n == row.attempts
           new == Settled(row, target, due)
           natt == [att EXCEPT ![n].status = closed]
<1>0. n \in AttemptNumbers
  BY QueueAssumption DEF RowInv, JobRows, AttemptNumbers
<1>1. target \in JobStatuses /\ target \notin LeasedStatuses /\ target # "QUEUED" /\ target # "NONE"
  BY DEF JobStatuses, LeasedStatuses, TerminalStatuses
<1>2. new \in JobRows
  BY <1>1, SettledType DEF RowInv
<1>3. /\ new.status = target /\ new.attempts = n /\ new.owner = NoWorker
      /\ new.lease = "none" /\ new.maxAttempts = row.maxAttempts
  BY DEF RowInv, JobRows, Settled
<1>4. natt \in AttemptRows
  BY <1>0 DEF RowInv, AttemptRows, ClosedStatuses
<1>5. /\ natt[n].status = closed
      /\ \A a \in AttemptNumbers \ {n} : natt[a] = att[a]
      /\ natt[n].worker = att[n].worker
  BY <1>0 DEF RowInv, AttemptRows
<1>6. closed \notin {"NONE", "CLAIMED", "RUNNING"}
  BY DEF ClosedStatuses
<1>7. nout # 0 => natt[nout].worker = natt[n].worker
  <2>1. att[n].worker = row.owner
    BY <1>0 DEF RowInv
  <2>2. nout # 0 => nout \in AttemptNumbers
    BY QueueAssumption DEF AttemptNumbers
  <2> QED BY <1>5, <2>1, <2>2
<1> HIDE DEF new, natt
<1>8. RowInv(new, natt, nout)
  <2>1. \A a \in AttemptNumbers :
         /\ natt[a].status # "NONE" <=> a <= new.attempts
         /\ natt[a].status \notin {"CLAIMED", "RUNNING"}
    BY <1>0, <1>3, <1>5, <1>6 DEF RowInv, JobRows, AttemptNumbers
  <2>2. new.attempts <= new.maxAttempts /\ (target = "DEAD_LETTER" => new.attempts = new.maxAttempts)
        /\ new.attempts > 0
    BY <1>3 DEF RowInv, JobRows
  <2> QED BY <1>1, <1>2, <1>3, <1>4, <1>7, <2>1, <2>2 DEF RowInv
<1> QED BY <1>8 DEF new, natt

\* Submission and manual retry queue a row that has an attempt left.
LEMMA QueuedRowInv ==
  ASSUME NEW row, NEW att, NEW out, RowInv(row, att, out),
         row.status \notin LeasedStatuses \cup {"SUCCEEDED"},
         NEW new \in JobRows, new.status = "QUEUED", new.attempts = row.attempts,
         new.attempts < new.maxAttempts, new.owner = NoWorker, new.lease = "none"
  PROVE  RowInv(new, att, out)
<1>1. "QUEUED" \notin LeasedStatuses
  BY DEF LeasedStatuses
<1>2. new.attempts <= new.maxAttempts
  BY DEF JobRows
<1> QED BY <1>1, <1>2 DEF RowInv

\* What a table step does to the tables: job j changes and nothing else.
Framed(j) ==
  /\ jobs' \in [Jobs -> JobRows]
  /\ history' \in [Jobs -> AttemptRows]
  /\ output' \in [Jobs -> 0..AttemptCap]
  /\ \A i \in Jobs \ {j} : /\ jobs'[i] = jobs[i]
                           /\ history'[i] = history[i]
                           /\ output'[i] = output[i]
  /\ RowInv(jobs'[j], history'[j], output'[j])

\* A table step of j leaves the other rows alone and keeps the invariant of j.
LEMMA TableStepFramed ==
  ASSUME QueueInv, NEW j \in Jobs, TableStep(j)
  PROVE  Framed(j)
<1> DEFINE row == jobs[j]
           att == history[j]
           out == output[j]
<1>1. /\ jobs \in [Jobs -> JobRows]
      /\ history \in [Jobs -> AttemptRows]
      /\ output \in [Jobs -> 0..AttemptCap]
      /\ RowInv(row, att, out)
  BY RowInvEquiv
<1>2. ASSUME NEW new, NEW natt, NEW nout, RowInv(new, natt, nout),
             jobs' = [jobs EXCEPT ![j] = new],
             history' = [history EXCEPT ![j] = natt],
             output' = [output EXCEPT ![j] = nout]
      PROVE  Framed(j)
  <2>1. new \in JobRows /\ natt \in AttemptRows /\ nout \in 0..AttemptCap
    BY <1>2 DEF RowInv
  <2>2. /\ jobs' \in [Jobs -> JobRows] /\ jobs'[j] = new
        /\ \A i \in Jobs \ {j} : jobs'[i] = jobs[i]
    BY <1>1, <1>2, <2>1
  <2>3. /\ history' \in [Jobs -> AttemptRows] /\ history'[j] = natt
        /\ \A i \in Jobs \ {j} : history'[i] = history[i]
    BY <1>1, <1>2, <2>1
  <2>4. /\ output' \in [Jobs -> 0..AttemptCap] /\ output'[j] = nout
        /\ \A i \in Jobs \ {j} : output'[i] = output[i]
    BY <1>1, <1>2, <2>1
  <2> QED BY <1>2, <2>2, <2>3, <2>4 DEF Framed
<1>3. /\ UNCHANGED history => history' = [history EXCEPT ![j] = att]
      /\ UNCHANGED output => output' = [output EXCEPT ![j] = out]
  BY <1>1
<1>4. CASE submitJob(j)
  <2>1. PICK due \in BOOLEAN : jobs' = [jobs EXCEPT ![j].status = "QUEUED", ![j].due = due]
    BY <1>4 DEF submitJob
  <2> DEFINE new == [row EXCEPT !.status = "QUEUED", !.due = due]
  <2>2. jobs' = [jobs EXCEPT ![j] = new]
    BY <1>1, <2>1
  <2>3. /\ row.status = "NONE" /\ row.attempts = 0
        /\ row.owner = NoWorker /\ row.lease = "none"
    BY <1>1, <1>4 DEF submitJob, RowInv, LeasedStatuses
  <2>4. new \in JobRows
    BY <1>1, ZenonT(60) DEF JobRows, JobStatuses
  <2>5. /\ new.status = "QUEUED" /\ new.attempts = 0 /\ new.attempts < new.maxAttempts
        /\ new.owner = NoWorker /\ new.lease = "none"
    BY <1>1, <2>3 DEF JobRows
  <2>6. RowInv(new, att, out)
    BY <1>1, <2>3, <2>4, <2>5, QueuedRowInv DEF LeasedStatuses
  <2> QED BY <1>2, <1>3, <1>4, <2>2, <2>6 DEF submitJob
<1>5. CASE requestJobCancellation(j)
  <2>1. CASE row.status \in WaitingStatuses
    <3>1. jobs' = [jobs EXCEPT ![j] = Settled(row, "CANCELLED", row.due)]
      BY <1>5, <2>1 DEF requestJobCancellation
    <3>2. RowInv(Settled(row, "CANCELLED", row.due), att, out)
      BY <1>1, <2>1 DEF RowInv, JobRows, JobStatuses, LeasedStatuses, WaitingStatuses, Settled
    <3> QED BY <1>2, <1>3, <1>5, <3>1, <3>2 DEF requestJobCancellation
  <2>2. CASE row.status \notin WaitingStatuses
    <3> DEFINE new == [row EXCEPT !.status = "CANCELLATION_REQUESTED", !.asClaimed = FALSE]
    <3>1. jobs' = [jobs EXCEPT ![j] = new]
      BY <1>5, <2>2 DEF requestJobCancellation
    <3>2. RowInv(new, att, out)
      BY <1>1, <1>5, <2>2 DEF requestJobCancellation, RowInv, JobRows, JobStatuses, LeasedStatuses
    <3> QED BY <1>2, <1>3, <1>5, <3>1, <3>2 DEF requestJobCancellation
  <2> QED BY <2>1, <2>2
<1>6. CASE manualRetryJob(j)
  <2> DEFINE new == [Settled(row, "QUEUED", TRUE) EXCEPT !.maxAttempts = row.attempts + 1]
  <2>1. jobs' = [jobs EXCEPT ![j] = new]
    BY <1>6 DEF manualRetryJob
  <2>2. row.status \in {"FAILED", "DEAD_LETTER"} /\ row.attempts + 1 \in 1..AttemptCap
    BY <1>1, <1>6, QueueAssumption DEF manualRetryJob, JobRows
  <2>3. Settled(row, "QUEUED", TRUE) \in JobRows
    BY <1>1, SettledType DEF JobStatuses
  <2>4. new \in JobRows
    BY <2>2, <2>3 DEF JobRows
  <2>5. /\ new.status = "QUEUED" /\ new.attempts = row.attempts /\ new.attempts < new.maxAttempts
        /\ new.owner = NoWorker /\ new.lease = "none"
    BY <1>1 DEF Settled, JobRows
  <2>6. RowInv(new, att, out)
    BY <1>1, <2>2, <2>4, <2>5, QueuedRowInv DEF LeasedStatuses
  <2> QED BY <1>2, <1>3, <1>6, <2>1, <2>6 DEF manualRetryJob
<1>7. CASE Touch(j)
  <2>1. PICK lease \in {"none", "current", "expired"}, due \in BOOLEAN, asClaimed \in BOOLEAN :
          /\ lease = "none" <=> row.lease = "none"
          /\ jobs' = [jobs EXCEPT ![j] = [row EXCEPT !.lease = lease, !.due = due,
                                                     !.asClaimed = asClaimed]]
    BY <1>7 DEF Touch
  <2>2. RowInv([row EXCEPT !.lease = lease, !.due = due, !.asClaimed = asClaimed], att, out)
    BY <1>1, <2>1, TouchRowInv
  <2> QED BY <1>2, <1>3, <1>7, <2>1, <2>2 DEF Touch
<1>8. CASE ClaimRow(j)
  <2>1. PICK w \in Workers :
          /\ jobs' = [jobs EXCEPT ![j] =
                        [row EXCEPT !.status = "CLAIMED", !.attempts = row.attempts + 1,
                           !.owner = w, !.lease = "current", !.asClaimed = TRUE]]
          /\ history' = [history EXCEPT ![j][row.attempts + 1] =
                           [worker |-> w, status |-> "CLAIMED"]]
    BY <1>8 DEF ClaimRow
  <2>2. history' = [history EXCEPT ![j] =
                      [att EXCEPT ![row.attempts + 1] = [worker |-> w, status |-> "CLAIMED"]]]
    BY <2>1
  <2>3. RowInv([row EXCEPT !.status = "CLAIMED", !.attempts = row.attempts + 1, !.owner = w,
                           !.lease = "current", !.asClaimed = TRUE],
               [att EXCEPT ![row.attempts + 1] = [worker |-> w, status |-> "CLAIMED"]], out)
    BY <1>1, <1>8, ClaimRowInv DEF ClaimRow
  <2> QED BY <1>2, <1>3, <1>8, <2>1, <2>2, <2>3 DEF ClaimRow
<1>9. CASE StartRow(j)
  <2>1. /\ jobs' = [jobs EXCEPT ![j] = [row EXCEPT !.status = "RUNNING", !.asClaimed = FALSE]]
        /\ history' = [history EXCEPT ![j] = [att EXCEPT ![row.attempts].status = "RUNNING"]]
    BY <1>9 DEF StartRow, SetAttempt
  <2>2. RowInv([row EXCEPT !.status = "RUNNING", !.asClaimed = FALSE],
               [att EXCEPT ![row.attempts].status = "RUNNING"], out)
    BY <1>1, <1>9, StartRowInv DEF StartRow
  <2> QED BY <1>2, <1>3, <1>9, <2>1, <2>2 DEF StartRow
<1>10. CASE SettleRow(j)
  <2>1. PICK target \in {"RETRY_WAIT"} \cup TerminalStatuses, due \in BOOLEAN,
             closed \in ClosedStatuses :
          /\ target = "DEAD_LETTER" => ~ (row.attempts < row.maxAttempts)
          /\ jobs' = [jobs EXCEPT ![j] = Settled(row, target, due)]
          /\ SetAttempt(j, closed)
          /\ IF target = "SUCCEEDED"
               THEN \E a \in AttemptNumbers :
                      /\ att[a].worker = row.owner
                      /\ output' = [output EXCEPT ![j] = a]
               ELSE UNCHANGED output
    BY <1>10 DEF SettleRow
  <2>2. history' = [history EXCEPT ![j] = [att EXCEPT ![row.attempts].status = closed]]
    BY <2>1 DEF SetAttempt
  <2>3. row.status \in LeasedStatuses /\ out = 0
    BY <1>1, <1>10 DEF SettleRow, RowInv, LeasedStatuses
  <2>4. PICK nout \in 0..AttemptCap :
          /\ nout # 0 <=> target = "SUCCEEDED"
          /\ nout # 0 => att[nout].worker = row.owner
          /\ output' = [output EXCEPT ![j] = nout]
    <3>1. CASE target = "SUCCEEDED"
      <4>1. PICK a \in AttemptNumbers : att[a].worker = row.owner /\ output' = [output EXCEPT ![j] = a]
        BY <2>1, <3>1
      <4>2. a \in 0..AttemptCap /\ a # 0
        BY QueueAssumption DEF AttemptNumbers
      <4> QED BY <3>1, <4>1, <4>2
    <3>2. CASE target # "SUCCEEDED"
      BY <1>3, <2>1, <2>3, <3>2, QueueAssumption
    <3> QED BY <3>1, <3>2
  <2>5. RowInv(Settled(row, target, due), [att EXCEPT ![row.attempts].status = closed], nout)
    BY <1>1, <2>1, <2>3, <2>4, SettleRowInv
  <2> QED BY <1>2, <2>1, <2>2, <2>4, <2>5
<1> QED
  BY <1>4, <1>5, <1>6, <1>7, <1>8, <1>9, <1>10 DEF TableStep

\* The empty tables satisfy the invariant.
LEMMA InitQueueInv == Init => QueueInv
<1> SUFFICES ASSUME Init PROVE QueueInv
  OBVIOUS
<1>1. NoJob \in JobRows /\ NoExec \in Executions /\ [a \in AttemptNumbers |-> NoAttempt] \in AttemptRows
  BY QueueAssumption DEF NoJob, JobRows, NoExec, Executions, Pcs, NoAttempt, AttemptRows,
                         AttemptStatuses
<1>2. ProcessesOK
  BY <1>1, QueueAssumption DEF Init, ProcessesOK
<1>3. /\ jobs \in [Jobs -> JobRows]
      /\ history \in [Jobs -> AttemptRows]
      /\ output \in [Jobs -> 0..AttemptCap]
  BY <1>1, QueueAssumption DEF Init
<1>4. ASSUME NEW j \in Jobs PROVE RowInv(jobs[j], history[j], output[j])
  <2>1. /\ jobs[j] = NoJob /\ history[j] = [a \in AttemptNumbers |-> NoAttempt] /\ output[j] = 0
    BY DEF Init
  <2>2. /\ NoJob.status = "NONE" /\ NoJob.attempts = 0 /\ NoJob.owner = NoWorker
        /\ NoJob.lease = "none" /\ NoJob.maxAttempts = MaxAttempts
    BY DEF NoJob
  <2>3. \A a \in AttemptNumbers : history[j][a].status = "NONE"
    BY <2>1 DEF NoAttempt
  <2> QED
    BY <1>1, <2>1, <2>2, <2>3, QueueAssumption DEF RowInv, AttemptNumbers, LeasedStatuses
<1> QED BY <1>2, <1>3, <1>4, RowInvEquiv

\* Every step changes at most one row, as a table step does.
LEMMA StepFramed ==
  ASSUME QueueInv, [Next]_vars
  PROVE  UNCHANGED <<jobs, history, output>> \/ \E j \in Jobs : TableStep(j) /\ Framed(j)
  BY StepTables, TableStepFramed DEF QueueInv

\* Every step keeps the invariant.
LEMMA NextQueueInv == QueueInv /\ [Next]_vars => QueueInv'
<1> SUFFICES ASSUME QueueInv, [Next]_vars PROVE QueueInv'
  OBVIOUS
<1>1. ProcessesOK'
  BY StepProcesses DEF QueueInv
<1>2. /\ jobs' \in [Jobs -> JobRows]
      /\ history' \in [Jobs -> AttemptRows]
      /\ output' \in [Jobs -> 0..AttemptCap]
      /\ \A j \in Jobs : RowInv(jobs'[j], history'[j], output'[j])
  <2>1. CASE UNCHANGED <<jobs, history, output>>
    BY <2>1, RowInvEquiv
  <2>2. ASSUME NEW j \in Jobs, Framed(j)
        PROVE  /\ jobs' \in [Jobs -> JobRows]
               /\ history' \in [Jobs -> AttemptRows]
               /\ output' \in [Jobs -> 0..AttemptCap]
               /\ \A i \in Jobs : RowInv(jobs'[i], history'[i], output'[i])
    BY <2>2, RowInvEquiv DEF Framed
  <2> QED BY <2>1, <2>2, StepFramed
<1>3. (/\ ProcessesOK
       /\ jobs \in [Jobs -> JobRows]
       /\ history \in [Jobs -> AttemptRows]
       /\ output \in [Jobs -> 0..AttemptCap]
       /\ \A j \in Jobs : RowInv(jobs[j], history[j], output[j]))'
  BY <1>1, <1>2 DEF RowInv
<1> QED BY <1>3, RowInvEquiv, PTL

\* The invariant holds in every reachable state of the queue, for any number of
\* jobs, workers, attempts and faults.
THEOREM QueueInvariant == Spec => []QueueInv
  BY InitQueueInv, NextQueueInv, PTL DEF Spec

\* Every table and every process variable keeps its type.
THEOREM TypeCorrect == Spec => []TypeOK
<1>1. QueueInv => TypeOK
  BY DEF QueueInv
<1> QED BY <1>1, QueueInvariant, PTL

\* A lease is held exactly by the rows recovery scans, and job_attempts is the
\* history of the job row, whatever calls arrive late or are lost.
THEOREM LedgerCorrect == Spec => [](LeaseMatchesStatus /\ AttemptLedger)
<1>1. QueueInv => LeaseMatchesStatus /\ AttemptLedger
  BY DEF QueueInv
<1> QED BY <1>1, QueueInvariant, PTL

\* No job is attempted more often than max_attempts, and only exhausted work is
\* dead-lettered.
THEOREM BudgetCorrect == Spec => []AttemptBudget
<1>1. QueueInv => AttemptBudget
  BY DEF QueueInv
<1> QED BY <1>1, QueueInvariant, PTL

\* A stored output comes from the worker that held the lease of the last attempt.
THEOREM OutputCorrect == Spec => []OutputFromLeaseHolder
<1>1. QueueInv => OutputFromLeaseHolder
  BY DEF QueueInv
<1> QED BY <1>1, QueueInvariant, PTL

-----------------------------------------------------------------------------
(* Action properties and the refinement.                                   *)

\* No step rewrites a closed attempt or a stored output of a job.
LEMMA StepHistory ==
  ASSUME QueueInv, [Next]_vars, NEW i \in Jobs
  PROVE  /\ output[i] # 0 => output'[i] = output[i]
         /\ \A a \in AttemptNumbers :
              history[i][a].status \notin {"NONE", "CLAIMED", "RUNNING"} =>
                history'[i][a] = history[i][a]
<1>1. CASE UNCHANGED <<jobs, history, output>>
  BY <1>1
<1>2. ASSUME NEW j \in Jobs, TableStep(j), Framed(j), i # j
      PROVE  output'[i] = output[i] /\ history'[i] = history[i]
  BY <1>2 DEF Framed
<1>3. ASSUME TableStep(i), Framed(i)
      PROVE  /\ output[i] # 0 => output'[i] = output[i]
             /\ \A a \in AttemptNumbers :
                  history[i][a].status \notin {"NONE", "CLAIMED", "RUNNING"} =>
                    history'[i][a] = history[i][a]
  <2>0. /\ jobs[i] \in JobRows
        /\ history \in [Jobs -> AttemptRows]
        /\ RowInv(jobs[i], history[i], output[i])
    BY RowInvEquiv
  <2>1. CASE submitJob(i) \/ requestJobCancellation(i) \/ manualRetryJob(i) \/ Touch(i)
    BY <2>1 DEF submitJob, requestJobCancellation, manualRetryJob, Touch
  <2>2. ASSUME NEW n \in AttemptNumbers, NEW r,
               history[i][n].status \in {"NONE", "CLAIMED", "RUNNING"},
               \/ history' = [history EXCEPT ![i][n] = r]
               \/ history' = [history EXCEPT ![i][n].status = r]
        PROVE  \A a \in AttemptNumbers :
                 history[i][a].status \notin {"NONE", "CLAIMED", "RUNNING"} =>
                   history'[i][a] = history[i][a]
    BY <2>0, <2>2 DEF AttemptRows
  <2>3. CASE ClaimRow(i)
    <3>1. jobs[i].attempts + 1 \in AttemptNumbers
      BY <2>0, <2>3, QueueAssumption DEF ClaimRow, JobRows, AttemptNumbers
    <3>2. history[i][jobs[i].attempts + 1].status = "NONE"
      BY <2>0, <3>1 DEF RowInv, JobRows
    <3>3. PICK r : history' = [history EXCEPT ![i][jobs[i].attempts + 1] = r]
      BY <2>3 DEF ClaimRow
    <3> QED BY <2>2, <2>3, <3>1, <3>2, <3>3 DEF ClaimRow
  <2>4. CASE StartRow(i) \/ SettleRow(i)
    <3>1. jobs[i].status \in LeasedStatuses
      BY <2>4 DEF StartRow, SettleRow, LeasedStatuses
    <3>2. jobs[i].attempts \in AttemptNumbers
      BY <2>0, <3>1, QueueAssumption DEF RowInv, JobRows, AttemptNumbers
    <3>3. history[i][jobs[i].attempts].status \in {"CLAIMED", "RUNNING"}
      BY <2>0, <3>1, <3>2 DEF RowInv
    <3>4. PICK r : history' = [history EXCEPT ![i][jobs[i].attempts].status = r]
      BY <2>4 DEF StartRow, SettleRow, SetAttempt
    <3>5. output[i] = 0
      BY <2>0, <3>1 DEF RowInv, LeasedStatuses
    <3> QED BY <2>2, <3>2, <3>3, <3>4, <3>5
  <2> QED BY <1>3, <2>1, <2>3, <2>4 DEF TableStep
<1> QED BY <1>1, <1>2, <1>3, StepFramed

\* Closed job_attempts rows and stored outputs are never rewritten by a late call.
THEOREM HistoryCorrect == Spec => HistoryIsAppendOnly
<1>1. QueueInv /\ [Next]_vars =>
        [ \A j \in Jobs :
            /\ output[j] # 0 => output'[j] = output[j]
            /\ \A a \in AttemptNumbers :
                 history[j][a].status \notin {"NONE", "CLAIMED", "RUNNING"} =>
                   history'[j][a] = history[j][a] ]_vars
  BY StepHistory
<1> QED BY <1>1, QueueInvariant, PTL DEF Spec, HistoryIsAppendOnly

\* Every status change of a row is in the transition table, and a terminal row
\* changes only by such a transition.
LEMMA StepStatus ==
  ASSUME QueueInv, [Next]_vars, NEW i \in Jobs
  PROVE  \/ jobs'[i] = jobs[i]
         \/ /\ jobs'[i].status = jobs[i].status
            /\ jobs[i].status \notin TerminalStatuses
         \/ jobs[i].status = "NONE" /\ jobs'[i].status = "QUEUED"
         \/ /\ jobs[i].status \in JobStatuses
            /\ canTransitionJob(jobs[i].status, jobs'[i].status)
<1> DEFINE Goal == \/ jobs'[i] = jobs[i]
                   \/ /\ jobs'[i].status = jobs[i].status
                      /\ jobs[i].status \notin TerminalStatuses
                   \/ jobs[i].status = "NONE" /\ jobs'[i].status = "QUEUED"
                   \/ /\ jobs[i].status \in JobStatuses
                      /\ canTransitionJob(jobs[i].status, jobs'[i].status)
<1>1. CASE UNCHANGED <<jobs, history, output>>
  BY <1>1
<1>2. ASSUME NEW j \in Jobs, Framed(j), i # j PROVE jobs'[i] = jobs[i]
  BY <1>2 DEF Framed
<1>3. ASSUME TableStep(i) PROVE Goal
  <2>0. jobs \in [Jobs -> JobRows] /\ jobs[i] \in JobRows
    BY DEF QueueInv, TypeOK
  <2>1. CASE submitJob(i)
    BY <2>0, <2>1 DEF submitJob, JobRows
  <2>2. CASE requestJobCancellation(i)
    BY <2>0, <2>2 DEF requestJobCancellation, Settled, JobRows, WaitingStatuses, canTransitionJob,
                      transitions, JobStatuses
  <2>3. CASE manualRetryJob(i)
    BY <2>0, <2>3 DEF manualRetryJob, Settled, JobRows, canTransitionJob, transitions, JobStatuses
  <2>4. CASE Touch(i)
    BY <2>0, <2>4 DEF Touch, JobRows, WaitingStatuses, LeasedStatuses, TerminalStatuses
  <2>5. CASE ClaimRow(i)
    BY <2>0, <2>5 DEF ClaimRow, JobRows, WaitingStatuses, canTransitionJob, transitions, JobStatuses
  <2>6. CASE StartRow(i)
    BY <2>0, <2>6 DEF StartRow, JobRows, canTransitionJob, transitions, JobStatuses
  <2>7. CASE SettleRow(i)
    <3>1. PICK target, due : /\ canTransitionJob(jobs[i].status, target)
                             /\ jobs' = [jobs EXCEPT ![i] = Settled(jobs[i], target, due)]
      BY <2>7 DEF SettleRow
    <3>2. jobs'[i].status = target
      BY <2>0, <3>1 DEF Settled, JobRows
    <3>3. jobs[i].status \in JobStatuses
      BY <2>7 DEF SettleRow, LeasedStatuses, JobStatuses
    <3> QED BY <3>1, <3>2, <3>3
  <2> QED BY <1>3, <2>1, <2>2, <2>3, <2>4, <2>5, <2>6, <2>7 DEF TableStep
<1> QED BY <1>1, <1>2, <1>3, StepFramed

\* assertJobTransition never refuses an update a queue call has decided on.
THEOREM TransitionsCorrect == Spec => TransitionsFollowTable
<1>1. ASSUME QueueInv, [Next]_vars
      PROVE  \A j \in Jobs :
               jobs'[j].status # jobs[j].status =>
                 \/ jobs[j].status = "NONE" /\ jobs'[j].status = "QUEUED"
                 \/ /\ jobs[j].status # "NONE"
                    /\ canTransitionJob(jobs[j].status, jobs'[j].status)
  <2> TAKE j \in Jobs
  <2>1. "NONE" \notin JobStatuses
    BY DEF JobStatuses
  <2> QED BY <1>1, <2>1, StepStatus
<1> QED BY <1>1, QueueInvariant, PTL DEF Spec, TransitionsFollowTable

\* Only a manual retry of failed work changes a terminal row.
THEOREM TerminalCorrect == Spec => TerminalRowsFrozen
<1>1. ASSUME QueueInv, [Next]_vars
      PROVE  \A j \in Jobs :
               isTerminalJobStatus(jobs[j].status) =>
                 \/ jobs'[j] = jobs[j]
                 \/ /\ jobs[j].status \in {"FAILED", "DEAD_LETTER"}
                    /\ jobs'[j].status = "QUEUED"
  <2> SUFFICES ASSUME NEW j \in Jobs, jobs[j].status \in TerminalStatuses, jobs'[j] # jobs[j]
               PROVE  jobs[j].status \in {"FAILED", "DEAD_LETTER"} /\ jobs'[j].status = "QUEUED"
    BY DEF isTerminalJobStatus
  <2>1. canTransitionJob(jobs[j].status, jobs'[j].status)
    BY <1>1, StepStatus DEF TerminalStatuses
  <2> QED BY <2>1 DEF TerminalStatuses, canTransitionJob, transitions, JobStatuses
<1> QED BY <1>1, QueueInvariant, PTL DEF Spec, TerminalRowsFrozen

\* Every step is a step of the job lifecycle or stutters.
LEMMA StepLifecycle ==
  ASSUME QueueInv, [Next]_vars
  PROVE  [Lifecycle!Next]_(Lifecycle!lifecycleVars)
<1>0. jobs \in [Jobs -> JobRows] /\ \A j \in Jobs : jobs[j] \in JobRows
  BY DEF QueueInv, TypeOK
<1>1. CASE UNCHANGED <<jobs, history, output>>
  BY <1>1 DEF Lifecycle!lifecycleVars
<1>2. ASSUME NEW j \in Jobs, TableStep(j)
      PROVE  [Lifecycle!Next]_(Lifecycle!lifecycleVars)
  <2> DEFINE st == [i \in Jobs |-> jobs[i].status]
             at == [i \in Jobs |-> jobs[i].attempts]
             mx == [i \in Jobs |-> jobs[i].maxAttempts]
  <2>1. ASSUME NEW new, jobs' = [jobs EXCEPT ![j] = new]
        PROVE  /\ st' = [st EXCEPT ![j] = new.status]
               /\ at' = [at EXCEPT ![j] = new.attempts]
               /\ mx' = [mx EXCEPT ![j] = new.maxAttempts]
    BY <1>0, <2>1
  <2>0. /\ st[j] = jobs[j].status /\ at[j] = jobs[j].attempts /\ mx[j] = jobs[j].maxAttempts
        /\ at = [at EXCEPT ![j] = at[j]] /\ mx = [mx EXCEPT ![j] = mx[j]]
    OBVIOUS
  <2>2. ASSUME NEW new, jobs' = [jobs EXCEPT ![j] = new],
               new.attempts = jobs[j].attempts, new.maxAttempts = jobs[j].maxAttempts
        PROVE  Lifecycle!Move(j, new.status)
    <3>1. at' = at /\ mx' = mx
      BY <2>1, <2>2
    <3> QED BY <2>1, <2>2, <3>1 DEF Lifecycle!Move
  <2>3. CASE submitJob(j)
    <3>1. PICK due : jobs' = [jobs EXCEPT ![j].status = "QUEUED", ![j].due = due]
      BY <2>3 DEF submitJob
    <3> DEFINE new == [jobs[j] EXCEPT !.status = "QUEUED", !.due = due]
    <3>2. jobs' = [jobs EXCEPT ![j] = new]
      BY <1>0, <3>1
    <3>3. /\ new.status = "QUEUED" /\ new.attempts = jobs[j].attempts
          /\ new.maxAttempts = jobs[j].maxAttempts
      BY <1>0 DEF JobRows
    <3> HIDE DEF new
    <3>4. Lifecycle!Submit(j)
      BY <2>2, <2>3, <3>2, <3>3 DEF submitJob, Lifecycle!Submit
    <3> QED BY <3>4 DEF Lifecycle!Next
  <2>4. CASE requestJobCancellation(j)
    <3>1. CASE jobs[j].status \in WaitingStatuses
      <4> DEFINE new == Settled(jobs[j], "CANCELLED", jobs[j].due)
      <4>1. jobs' = [jobs EXCEPT ![j] = new]
        BY <2>4, <3>1 DEF requestJobCancellation
      <4>2. /\ new.status = "CANCELLED" /\ new.attempts = jobs[j].attempts
            /\ new.maxAttempts = jobs[j].maxAttempts
        BY <1>0 DEF JobRows, Settled
      <4> HIDE DEF new
      <4>3. Lifecycle!Move(j, "CANCELLED")
        BY <2>2, <4>1, <4>2
      <4>4. Lifecycle!Cancel(j)
        BY <2>0, <3>1, <4>3 DEF Lifecycle!Cancel, Lifecycle!WaitingStatuses, WaitingStatuses
      <4> QED BY <4>4 DEF Lifecycle!Next
    <3>2. CASE jobs[j].status \notin WaitingStatuses
      <4> DEFINE new == [jobs[j] EXCEPT !.status = "CANCELLATION_REQUESTED",
                                        !.asClaimed = FALSE]
      <4>1. jobs' = [jobs EXCEPT ![j] = new]
        BY <2>4, <3>2 DEF requestJobCancellation
      <4>2. /\ new.status = "CANCELLATION_REQUESTED" /\ new.attempts = jobs[j].attempts
            /\ new.maxAttempts = jobs[j].maxAttempts
        BY <1>0 DEF JobRows
      <4> HIDE DEF new
      <4>3. Lifecycle!Move(j, "CANCELLATION_REQUESTED")
        BY <2>2, <4>1, <4>2
      <4>4. jobs[j].status \in {"CLAIMED", "RUNNING"}
        BY <2>4, <3>2 DEF requestJobCancellation
      <4>5. Lifecycle!Cancel(j)
        BY <2>0, <4>3, <4>4 DEF Lifecycle!Cancel
      <4> QED BY <4>5 DEF Lifecycle!Next
    <3> QED BY <3>1, <3>2
  <2>5. CASE manualRetryJob(j)
    <3> DEFINE new == [Settled(jobs[j], "QUEUED", TRUE)
                         EXCEPT !.maxAttempts = jobs[j].attempts + 1]
    <3>1. jobs' = [jobs EXCEPT ![j] = new]
      BY <2>5 DEF manualRetryJob
    <3>2. /\ new.status = "QUEUED" /\ new.attempts = jobs[j].attempts
          /\ new.maxAttempts = jobs[j].attempts + 1
      BY <1>0 DEF JobRows, Settled
    <3> HIDE DEF new
    <3>3. /\ st' = [st EXCEPT ![j] = "QUEUED"]
          /\ at' = at
          /\ mx' = [mx EXCEPT ![j] = at[j] + 1]
      <4>1. /\ st' = [st EXCEPT ![j] = new.status]
            /\ at' = [at EXCEPT ![j] = new.attempts]
            /\ mx' = [mx EXCEPT ![j] = new.maxAttempts]
        BY <2>1, <3>1
      <4> HIDE DEF st, at, mx
      <4> QED BY <2>0, <3>2, <4>1
    <3>4. Lifecycle!Retry(j)
      BY <2>0, <2>5, <3>3 DEF manualRetryJob, Lifecycle!Retry
    <3> QED BY <3>4 DEF Lifecycle!Next
  <2>6. CASE Touch(j)
    <3>1. PICK lease, due, asClaimed :
            jobs' = [jobs EXCEPT ![j] = [jobs[j] EXCEPT !.lease = lease, !.due = due,
                                                        !.asClaimed = asClaimed]]
      BY <2>6 DEF Touch
    <3> DEFINE new == [jobs[j] EXCEPT !.lease = lease, !.due = due, !.asClaimed = asClaimed]
    <3>2. /\ new.status = jobs[j].status /\ new.attempts = jobs[j].attempts
          /\ new.maxAttempts = jobs[j].maxAttempts
      BY <1>0 DEF JobRows
    <3> HIDE DEF new
    <3>3. st' = st /\ at' = at /\ mx' = mx
      BY <2>1, <3>1, <3>2 DEF new
    <3> QED BY <3>3 DEF Lifecycle!lifecycleVars
  <2>7. CASE ClaimRow(j)
    <3>1. PICK w : jobs' = [jobs EXCEPT ![j] =
                     [jobs[j] EXCEPT !.status = "CLAIMED", !.attempts = jobs[j].attempts + 1,
                        !.owner = w, !.lease = "current", !.asClaimed = TRUE]]
      BY <2>7 DEF ClaimRow
    <3> DEFINE new == [jobs[j] EXCEPT !.status = "CLAIMED", !.attempts = jobs[j].attempts + 1,
                        !.owner = w, !.lease = "current", !.asClaimed = TRUE]
    <3>2. /\ new.status = "CLAIMED" /\ new.attempts = jobs[j].attempts + 1
          /\ new.maxAttempts = jobs[j].maxAttempts
      BY <1>0 DEF JobRows
    <3>3. jobs' = [jobs EXCEPT ![j] = new]
      BY <3>1
    <3> HIDE DEF new
    <3>4. /\ st' = [st EXCEPT ![j] = "CLAIMED"]
          /\ at' = [at EXCEPT ![j] = at[j] + 1]
          /\ mx' = mx
      <4>1. /\ st' = [st EXCEPT ![j] = new.status]
            /\ at' = [at EXCEPT ![j] = new.attempts]
            /\ mx' = [mx EXCEPT ![j] = new.maxAttempts]
        BY <2>1, <3>3
      <4> HIDE DEF st, at, mx
      <4> QED BY <2>0, <3>2, <4>1
    <3>5. Lifecycle!Claim(j)
      BY <2>0, <2>7, <3>4 DEF ClaimRow, Lifecycle!Claim, Lifecycle!WaitingStatuses, WaitingStatuses
    <3> QED BY <3>5 DEF Lifecycle!Next
  <2>8. CASE StartRow(j)
    <3> DEFINE new == [jobs[j] EXCEPT !.status = "RUNNING", !.asClaimed = FALSE]
    <3>1. jobs' = [jobs EXCEPT ![j] = new]
      BY <2>8 DEF StartRow
    <3>2. /\ new.status = "RUNNING" /\ new.attempts = jobs[j].attempts
          /\ new.maxAttempts = jobs[j].maxAttempts
      BY <1>0 DEF JobRows
    <3> HIDE DEF new
    <3>3. Lifecycle!Start(j)
      BY <2>2, <2>8, <3>1, <3>2 DEF StartRow, Lifecycle!Start
    <3> QED BY <3>3 DEF Lifecycle!Next
  <2>9. CASE SettleRow(j)
    <3>1. PICK target \in {"RETRY_WAIT"} \cup TerminalStatuses, due \in BOOLEAN :
            /\ canTransitionJob(jobs[j].status, target)
            /\ target = "CANCELLED" => jobs[j].status = "CANCELLATION_REQUESTED"
            /\ target = "DEAD_LETTER" => ~ (jobs[j].attempts < jobs[j].maxAttempts)
            /\ jobs' = [jobs EXCEPT ![j] = Settled(jobs[j], target, due)]
      BY <2>9 DEF SettleRow
    <3> DEFINE new == Settled(jobs[j], target, due)
    <3>2. /\ new.status = target /\ new.attempts = jobs[j].attempts
          /\ new.maxAttempts = jobs[j].maxAttempts
      BY <1>0 DEF JobRows, Settled
    <3>3. jobs' = [jobs EXCEPT ![j] = new]
      BY <3>1
    <3> HIDE DEF new
    <3>4. Lifecycle!Move(j, target)
      BY <2>2, <3>2, <3>3
    <3>5. target = "DEAD_LETTER" => jobs[j].attempts = jobs[j].maxAttempts
      <4>1. jobs[j].attempts <= jobs[j].maxAttempts
        BY DEF QueueInv, AttemptBudget
      <4> QED BY <1>0, <3>1, <4>1, QueueAssumption DEF JobRows
    <3>6. jobs[j].status \in LeasedStatuses
      BY <2>9 DEF SettleRow
    <3>7. CASE jobs[j].status = "CANCELLATION_REQUESTED"
      <4>1. target = "CANCELLED"
        BY <3>1, <3>7 DEF canTransitionJob, transitions, JobStatuses
      <4>2. Lifecycle!Cancel(j)
        BY <3>4, <3>7, <4>1 DEF Lifecycle!Cancel
      <4> QED BY <4>2 DEF Lifecycle!Next
    <3>8. CASE jobs[j].status # "CANCELLATION_REQUESTED"
      <4>1. jobs[j].status \in {"CLAIMED", "RUNNING"}
        BY <3>6, <3>8 DEF LeasedStatuses
      <4>2. CASE target = "SUCCEEDED"
        <5>1. jobs[j].status = "RUNNING"
          BY <3>1, <4>1, <4>2 DEF canTransitionJob, transitions, JobStatuses
        <5>2. Lifecycle!Succeed(j)
          BY <2>0, <3>4, <4>2, <5>1 DEF Lifecycle!Succeed
        <5> QED BY <5>2 DEF Lifecycle!Next
      <4>3. CASE target \in {"RETRY_WAIT", "FAILED", "DEAD_LETTER"}
        <5>1. Lifecycle!EndAttempt(j)
          BY <2>0, <3>4, <3>5, <4>1, <4>3 DEF Lifecycle!EndAttempt
        <5> QED BY <5>1 DEF Lifecycle!Next
      <4> QED BY <3>1, <3>8, <4>2, <4>3 DEF TerminalStatuses
    <3> QED BY <3>7, <3>8
  <2> QED BY <1>2, <2>3, <2>4, <2>5, <2>6, <2>7, <2>8, <2>9 DEF TableStep
<1> QED BY <1>1, <1>2, StepTables DEF QueueInv

\* The queue with its workers, leases and late calls implements JobLifecycle.
THEOREM RefinesLifecycle == Spec => ImplementsLifecycle
<1>1. Init => Lifecycle!Init
  BY DEF Init, Lifecycle!Init, NoJob
<1>2. QueueInv /\ [Next]_vars => [Lifecycle!Next]_(Lifecycle!lifecycleVars)
  BY StepLifecycle
<1> QED BY <1>1, <1>2, QueueInvariant, PTL DEF Spec, ImplementsLifecycle, Lifecycle!Spec

-----------------------------------------------------------------------------
(* The queue as the handlers see it.                                       *)

View == [j \in Jobs |-> HandlerRow(jobs[j])]

\* What a handler sees of a row.
LEMMA HandlerRows ==
  ASSUME NEW row \in JobRows
  PROVE  /\ HandlerRow(row).attempts = row.attempts
         /\ row.status # "NONE" => HandlerRow(row).max = row.maxAttempts
         /\ HandlerRow(row).status = HandlerStatus[row.status]
         /\ HandlerRow(row).input = 0
         /\ HandlerRow(row) = [status |-> HandlerRow(row).status,
                               attempts |-> HandlerRow(row).attempts,
                               max |-> HandlerRow(row).max, input |-> 0]
BY DEF HandlerRow

\* Each status as a handler sees it.
LEMMA HandlerStatuses ==
  /\ HandlerStatus["NONE"] = "NONE"
  /\ HandlerStatus["QUEUED"] = "QUEUED" /\ HandlerStatus["RETRY_WAIT"] = "QUEUED"
  /\ HandlerStatus["CLAIMED"] = "RUNNING" /\ HandlerStatus["RUNNING"] = "RUNNING"
  /\ HandlerStatus["SUCCEEDED"] = "SUCCEEDED" /\ HandlerStatus["CANCELLED"] = "CANCELLED"
  /\ HandlerStatus["FAILED"] = "FAILED" /\ HandlerStatus["DEAD_LETTER"] = "FAILED"
  /\ HandlerStatus["CANCELLATION_REQUESTED"] = "CANCELLATION_REQUESTED"
BY DEF HandlerStatus, JobStatuses

\* A change of one row is a change of one row for the handlers.
LEMMA ViewMoves ==
  ASSUME jobs \in [Jobs -> JobRows], NEW j \in Jobs, NEW row, jobs' = [jobs EXCEPT ![j] = row]
  PROVE  View' = [View EXCEPT ![j] = HandlerRow(row)]
<1>1. \A i \in Jobs : jobs'[i] = IF i = j THEN row ELSE jobs[i]
  OBVIOUS
<1>2. View' = [i \in Jobs |-> HandlerRow(jobs'[i])]
  BY DEF View, HandlerRow
<1>3. \A i \in Jobs : View[i] = HandlerRow(jobs[i])
  BY DEF View
<1> HIDE DEF View
<1>4. \A i \in Jobs : View'[i] = IF i = j THEN HandlerRow(row) ELSE View[i]
  BY <1>1, <1>2, <1>3
<1>5. View = [i \in Jobs |-> HandlerRow(jobs[i])]
  BY DEF View
<1> QED BY <1>2, <1>4, <1>5

\* The row of a job and what a handler sees of it.
LEMMA ViewRow ==
  ASSUME jobs \in [Jobs -> JobRows], NEW j \in Jobs
  PROVE  /\ jobs[j] \in JobRows /\ View[j] = HandlerRow(jobs[j])
         /\ View \in [Jobs -> {View[i] : i \in Jobs}]
         /\ View[j].attempts = jobs[j].attempts
         /\ jobs[j].status # "NONE" => View[j].max = jobs[j].maxAttempts
         /\ View[j].status = HandlerStatus[jobs[j].status]
  BY HandlerRows DEF View

\* An UPDATE that changes the status, and the lease or the clocks, changes the status
\* a handler sees and nothing else.
LEMMA ViewStatus ==
  ASSUME jobs \in [Jobs -> JobRows], NEW j \in Jobs, NEW row \in JobRows,
         jobs' = [jobs EXCEPT ![j] = row], jobs[j].status # "NONE", row.status # "NONE",
         row.attempts = jobs[j].attempts, row.maxAttempts = jobs[j].maxAttempts
  PROVE  View' = [View EXCEPT ![j].status = HandlerStatus[row.status]]
<1>1. View' = [View EXCEPT ![j] = HandlerRow(row)]
  BY ViewMoves
<1>2. HandlerRow(row) = [HandlerRow(jobs[j]) EXCEPT !.status = HandlerStatus[row.status]]
  BY DEF HandlerRow
<1> QED BY <1>1, <1>2, ViewRow

\* So does one that clears the lease.
LEMMA ViewSettled ==
  ASSUME jobs \in [Jobs -> JobRows], NEW j \in Jobs, NEW status \in JobStatuses, NEW due \in BOOLEAN,
         jobs' = [jobs EXCEPT ![j] = Settled(jobs[j], status, due)], jobs[j].status # "NONE"
  PROVE  View' = [View EXCEPT ![j].status = HandlerStatus[status]]
<1> DEFINE row == Settled(jobs[j], status, due)
<1>1. row \in JobRows /\ jobs[j] \in JobRows
  BY SettledType
<1>2. /\ row.status = status /\ row.attempts = jobs[j].attempts
      /\ row.maxAttempts = jobs[j].maxAttempts /\ status # "NONE"
  BY <1>1 DEF Settled, JobRows, JobStatuses
<1> HIDE DEF row
<1>3. jobs' = [jobs EXCEPT ![j] = row]
  BY DEF row
<1> QED BY <1>1, <1>2, <1>3, ViewStatus

\* claimJobs and startJob are one step for a handler, taken by the first.
LEMMA ClaimAgrees ==
  ASSUME TypeOK, NEW w \in Workers, NEW j \in Jobs, claimJobs(w, j)
  PROVE  HandlerView!StartAttempt(j)
<1> DEFINE row == [jobs[j] EXCEPT !.status = "CLAIMED", !.attempts = jobs[j].attempts + 1,
                     !.owner = w, !.lease = "current", !.asClaimed = TRUE]
<1>1. jobs \in [Jobs -> JobRows] /\ jobs[j] \in JobRows
  BY DEF TypeOK
<1>2. jobs' = [jobs EXCEPT ![j] = row]
  BY DEF claimJobs
<1>3. jobs[j].status \in WaitingStatuses /\ jobs[j].attempts < jobs[j].maxAttempts
  BY DEF claimJobs, Claimable
<1>4. HandlerRow(row) = [HandlerRow(jobs[j]) EXCEPT !.status = "RUNNING",
                                                    !.attempts = jobs[j].attempts + 1]
  <2>1. row.status = "CLAIMED" /\ row.attempts = jobs[j].attempts + 1
        /\ row.maxAttempts = jobs[j].maxAttempts
    BY <1>1 DEF JobRows
  <2>2. jobs[j].status # "NONE"
    BY <1>3 DEF WaitingStatuses
  <2> HIDE DEF row
  <2>3. HandlerRow(row) = [status |-> "RUNNING", attempts |-> jobs[j].attempts + 1,
                           max |-> jobs[j].maxAttempts, input |-> 0]
    BY <2>1, HandlerStatuses DEF HandlerRow
  <2>4. HandlerRow(jobs[j]) = [status |-> HandlerStatus[jobs[j].status],
                               attempts |-> jobs[j].attempts,
                               max |-> jobs[j].maxAttempts, input |-> 0]
    BY <2>2 DEF HandlerRow
  <2> DEFINE n == jobs[j].attempts + 1  r == HandlerRow(jobs[j])  m == jobs[j].maxAttempts
             status == HandlerStatus[jobs[j].status]  attempts == jobs[j].attempts
  <2>5. r = [status |-> status, attempts |-> attempts, max |-> m, input |-> 0]
    BY <2>4
  <2> HIDE DEF n, r, m, status, attempts
  <2> DEFINE q == [r EXCEPT !.status = "RUNNING"]
  <2>6. q = [status |-> "RUNNING", attempts |-> attempts, max |-> m, input |-> 0]
    BY ONLY <2>5
  <2> HIDE DEF q
  <2>7. [q EXCEPT !.attempts = n] = [status |-> "RUNNING", attempts |-> n, max |-> m, input |-> 0]
    BY ONLY <2>6
  <2> QED BY <2>3, <2>7 DEF n, r, m, q
<1> HIDE DEF row
<1>5. View' = [View EXCEPT ![j] = HandlerRow(row)]
  BY <1>1, <1>2, ViewMoves
<1>6. View' = [View EXCEPT ![j].status = "RUNNING", ![j].attempts = @ + 1]
  BY <1>1, <1>4, <1>5, ViewRow
<1>7. View[j].status = "QUEUED" /\ View[j].attempts < View[j].max
  BY <1>1, <1>3, ViewRow, HandlerStatuses DEF WaitingStatuses
<1> QED BY <1>6, <1>7 DEF HandlerView!StartAttempt, View

\* An attempt ends at the expiry of its lease.
LEMMA RecoveryAgrees ==
  ASSUME TypeOK, AttemptBudget, NEW w \in Workers, NEW j \in Jobs, recoverExpiredJobs(w, j)
  PROVE  HandlerView!LeaseExpires(j)
<1> DEFINE row == jobs[j]
           target == IF row.status = "CANCELLATION_REQUESTED" THEN "CANCELLED"
                     ELSE IF row.attempts < row.maxAttempts THEN "RETRY_WAIT"
                     ELSE "DEAD_LETTER"
           due == IF target = "RETRY_WAIT" THEN FALSE ELSE row.due
<1>1. jobs \in [Jobs -> JobRows] /\ row \in JobRows /\ due \in BOOLEAN /\ target \in JobStatuses
  BY DEF TypeOK, JobRows, JobStatuses
<1>2. row.status \in LeasedStatuses /\ row.status # "NONE"
  BY DEF recoverExpiredJobs, LeasedStatuses
<1>3. jobs' = [jobs EXCEPT ![j] = Settled(jobs[j], target, due)]
  BY DEF recoverExpiredJobs
<1>4. row.attempts < row.maxAttempts \/ row.attempts = row.maxAttempts
  BY <1>1 DEF AttemptBudget, JobRows
<1>5. row.attempts < row.maxAttempts => row.attempts # row.maxAttempts
  BY <1>1 DEF JobRows
<1> HIDE DEF due
<1>6. View' = [View EXCEPT ![j].status = HandlerStatus[target]]
  BY <1>1, <1>2, <1>3, ViewSettled
<1>7. View[j].attempts = row.attempts /\ View[j].max = row.maxAttempts
      /\ View[j].status = HandlerStatus[row.status]
  BY <1>1, <1>2, ViewRow
<1>8. CASE row.status = "CANCELLATION_REQUESTED"
  <2>1. View[j].status = "CANCELLATION_REQUESTED" /\ HandlerStatus[target] = "CANCELLED"
    BY <1>7, <1>8, HandlerStatuses
  <2> QED BY <1>6, <2>1 DEF HandlerView!LeaseExpires, View
<1>9. CASE row.status # "CANCELLATION_REQUESTED"
  <2>1. View[j].status = "RUNNING"
    BY <1>2, <1>7, <1>9, HandlerStatuses DEF LeasedStatuses
  <2>2. HandlerStatus[target] = IF View[j].attempts = View[j].max THEN "FAILED" ELSE "QUEUED"
    BY <1>4, <1>5, <1>7, <1>9, HandlerStatuses
  <2> QED BY <1>6, <2>1, <2>2 DEF HandlerView!LeaseExpires, HandlerView!AttemptOver, View
<1> QED BY <1>8, <1>9

\* The calls at the end of an execution, each on the row its worker owns.
LEMMA CallOnLease ==
  ASSUME NEW j \in Jobs, NEW a \in AttemptNumbers, CallPasses(j, a)
  PROVE  jobs[j].status \in AllowedStatuses(Pc(j, a))
BY DEF CallPasses, lockOwnedJob

\* The handler's work is done.
LEMMA CompletionAgrees ==
  ASSUME TypeOK, NEW j \in Jobs, NEW a \in AttemptNumbers, completeJob(j, a)
  PROVE  HandlerView!Settle(j, jobs[j].attempts, "returned")
<1>1. jobs \in [Jobs -> JobRows] /\ jobs[j] \in JobRows /\ jobs[j].due \in BOOLEAN
      /\ "SUCCEEDED" \in JobStatuses
  BY DEF TypeOK, JobRows, JobStatuses
<1>2. jobs[j].status = "RUNNING"
  BY CallOnLease DEF completeJob, AllowedStatuses
<1>3. jobs' = [jobs EXCEPT ![j] = Settled(jobs[j], "SUCCEEDED", jobs[j].due)]
  BY DEF completeJob
<1>4. View' = [View EXCEPT ![j].status = "SUCCEEDED"]
  BY <1>1, <1>2, <1>3, ViewSettled, HandlerStatuses
<1>5. View[j].status = "RUNNING" /\ View[j].attempts = jobs[j].attempts
  BY <1>1, <1>2, ViewRow, HandlerStatuses
<1> QED BY <1>4, <1>5 DEF HandlerView!Settle, View

\* The handler has failed.
LEMMA FailureAgrees ==
  ASSUME TypeOK, AttemptBudget, NEW j \in Jobs, NEW a \in AttemptNumbers, failJob(j, a)
  PROVE  HandlerView!Settle(j, jobs[j].attempts, Pc(j, a))
<1> DEFINE row == jobs[j]
           target == failureJobStatus(Pc(j, a) = "failRetryable", row.attempts, row.maxAttempts)
           due == IF target = "RETRY_WAIT" THEN FALSE ELSE row.due
<1>1. jobs \in [Jobs -> JobRows] /\ row \in JobRows /\ due \in BOOLEAN /\ target \in JobStatuses
  BY DEF TypeOK, JobRows, JobStatuses, failureJobStatus
<1>2. Pc(j, a) \in {"failRetryable", "failFatal"} /\ row.status \in {"CLAIMED", "RUNNING"}
  BY CallOnLease DEF failJob, AllowedStatuses
<1>3. jobs' = [jobs EXCEPT ![j] = Settled(jobs[j], target, due)]
  BY DEF failJob
<1>4. row.attempts < row.maxAttempts <=> row.attempts # row.maxAttempts
  BY <1>1 DEF AttemptBudget, JobRows
<1>5. target = IF Pc(j, a) = "failFatal" THEN "FAILED"
               ELSE IF row.attempts = row.maxAttempts THEN "DEAD_LETTER" ELSE "RETRY_WAIT"
  BY <1>2, <1>4 DEF failureJobStatus
<1> HIDE DEF due, target
<1>6. View' = [View EXCEPT ![j].status = HandlerStatus[target]]
  BY <1>1, <1>2, <1>3, ViewSettled
<1>7. /\ View[j].attempts = row.attempts /\ View[j].max = row.maxAttempts
      /\ View[j].status = "RUNNING"
  BY <1>1, <1>2, ViewRow, HandlerStatuses
<1>8. HandlerStatus[target] = IF Pc(j, a) = "failFatal" THEN "FAILED"
                              ELSE IF View[j].attempts = View[j].max THEN "FAILED" ELSE "QUEUED"
  BY <1>5, <1>7, HandlerStatuses
<1> QED BY <1>2, <1>6, <1>7, <1>8 DEF HandlerView!Settle, HandlerView!AttemptOver, View

\* The worker has seen the cancellation.
LEMMA AcknowledgementAgrees ==
  ASSUME TypeOK, NEW j \in Jobs, NEW a \in AttemptNumbers, acknowledgeJobCancellation(j, a),
         NEW outcome \in {"returned", "failFatal", "failRetryable"}
  PROVE  HandlerView!Settle(j, jobs[j].attempts, outcome)
<1>1. jobs \in [Jobs -> JobRows] /\ jobs[j] \in JobRows /\ jobs[j].due \in BOOLEAN
      /\ "CANCELLED" \in JobStatuses
  BY DEF TypeOK, JobRows, JobStatuses
<1>2. jobs[j].status = "CANCELLATION_REQUESTED"
  BY CallOnLease DEF acknowledgeJobCancellation, AllowedStatuses
<1>3. jobs' = [jobs EXCEPT ![j] = Settled(jobs[j], "CANCELLED", jobs[j].due)]
  BY DEF acknowledgeJobCancellation
<1>4. View' = [View EXCEPT ![j].status = "CANCELLED"]
  BY <1>1, <1>2, <1>3, ViewSettled, HandlerStatuses
<1>5. View[j].status = "CANCELLATION_REQUESTED" /\ View[j].attempts = jobs[j].attempts
  BY <1>1, <1>2, ViewRow, HandlerStatuses
<1> QED BY <1>4, <1>5 DEF HandlerView!Settle, View

\* The worker stops and gives the job back.
LEMMA ReleaseAgrees ==
  ASSUME TypeOK, NEW j \in Jobs, NEW a \in AttemptNumbers, releaseJobLease(j, a)
  PROVE  HandlerView!releaseJobLease(j)
<1> DEFINE target == IF jobs[j].status = "CANCELLATION_REQUESTED" THEN "CANCELLED" ELSE "RETRY_WAIT"
           due == IF target = "RETRY_WAIT" THEN TRUE ELSE jobs[j].due
<1>1. jobs \in [Jobs -> JobRows] /\ jobs[j] \in JobRows /\ due \in BOOLEAN /\ target \in JobStatuses
  BY DEF TypeOK, JobRows, JobStatuses
<1>2. jobs[j].status \in LeasedStatuses
  BY CallOnLease DEF releaseJobLease, AllowedStatuses
<1>3. jobs' = [jobs EXCEPT ![j] = Settled(jobs[j], target, due)]
  BY DEF releaseJobLease
<1> HIDE DEF due
<1>4. View' = [View EXCEPT ![j].status = HandlerStatus[target]]
  BY <1>1, <1>2, <1>3, ViewSettled DEF LeasedStatuses
<1>5. View[j].status = HandlerStatus[jobs[j].status]
  BY <1>1, ViewRow
<1>6. CASE jobs[j].status = "CANCELLATION_REQUESTED"
  <2>1. View[j].status = "CANCELLATION_REQUESTED" /\ HandlerStatus[target] = "CANCELLED"
    BY <1>5, <1>6, HandlerStatuses
  <2> QED BY <1>4, <2>1 DEF HandlerView!releaseJobLease, View
<1>7. CASE jobs[j].status # "CANCELLATION_REQUESTED"
  <2>1. View[j].status = "RUNNING" /\ HandlerStatus[target] = "QUEUED"
    BY <1>2, <1>5, <1>7, HandlerStatuses DEF LeasedStatuses
  <2> QED BY <1>4, <2>1 DEF HandlerView!releaseJobLease, View
<1> QED BY <1>6, <1>7

\* The operator cancels.
LEMMA CancellationAgrees ==
  ASSUME TypeOK, NEW j \in Jobs, requestJobCancellation(j)
  PROVE  HandlerView!requestJobCancellation(j)
<1>1. jobs \in [Jobs -> JobRows] /\ jobs[j] \in JobRows /\ jobs[j].due \in BOOLEAN
      /\ {"CANCELLED", "CANCELLATION_REQUESTED"} \subseteq JobStatuses
  BY DEF TypeOK, JobRows, JobStatuses
<1>2. View[j].status = HandlerStatus[jobs[j].status]
  BY <1>1, ViewRow
<1>3. CASE jobs[j].status \in WaitingStatuses
  <2>1. jobs' = [jobs EXCEPT ![j] = Settled(jobs[j], "CANCELLED", jobs[j].due)]
    BY <1>3 DEF requestJobCancellation
  <2>2. View' = [View EXCEPT ![j].status = "CANCELLED"]
    BY <1>1, <1>3, <2>1, ViewSettled, HandlerStatuses DEF WaitingStatuses
  <2>3. View[j].status = "QUEUED"
    BY <1>2, <1>3, HandlerStatuses DEF WaitingStatuses
  <2> QED BY <2>2, <2>3 DEF HandlerView!requestJobCancellation, HandlerView!Cancelled, View
<1>4. CASE jobs[j].status \notin WaitingStatuses
  <2> DEFINE row == [jobs[j] EXCEPT !.status = "CANCELLATION_REQUESTED", !.asClaimed = FALSE]
  <2>1. jobs[j].status \in {"CLAIMED", "RUNNING"} /\ jobs' = [jobs EXCEPT ![j] = row]
    BY <1>4 DEF requestJobCancellation
  <2>2. /\ row \in JobRows /\ row.status = "CANCELLATION_REQUESTED"
        /\ row.attempts = jobs[j].attempts /\ row.maxAttempts = jobs[j].maxAttempts
    BY <1>1 DEF JobRows
  <2> HIDE DEF row
  <2>3. View' = [View EXCEPT ![j].status = "CANCELLATION_REQUESTED"]
    <3>1. jobs[j].status # "NONE" /\ row.status # "NONE"
      BY <2>1, <2>2
    <3>2. View' = [View EXCEPT ![j].status = HandlerStatus[row.status]]
      BY <1>1, <2>1, <2>2, <3>1, ViewStatus
    <3> QED BY <2>2, <3>2, HandlerStatuses
  <2>4. View[j].status = "RUNNING"
    BY <1>2, <2>1, HandlerStatuses
  <2> QED BY <2>3, <2>4 DEF HandlerView!requestJobCancellation, HandlerView!Cancelled, View
<1> QED BY <1>3, <1>4

\* The operator grants one more attempt.
LEMMA RetryAgrees ==
  ASSUME TypeOK, NEW j \in Jobs, manualRetryJob(j)
  PROVE  HandlerView!manualRetryJob(j)
<1> DEFINE row == [Settled(jobs[j], "QUEUED", TRUE) EXCEPT !.maxAttempts = jobs[j].attempts + 1]
<1>1. jobs \in [Jobs -> JobRows] /\ jobs[j] \in JobRows
  BY DEF TypeOK
<1>2. jobs' = [jobs EXCEPT ![j] = row] /\ jobs[j].status \in {"FAILED", "DEAD_LETTER"}
      /\ jobs[j].attempts < AttemptCap
  BY DEF manualRetryJob
<1>3. /\ row.status = "QUEUED" /\ row.attempts = jobs[j].attempts
      /\ row.maxAttempts = jobs[j].attempts + 1
  BY <1>1 DEF Settled, JobRows
<1> HIDE DEF row
<1>4. HandlerRow(row) = [HandlerRow(jobs[j]) EXCEPT !.status = "QUEUED",
                                                    !.max = jobs[j].attempts + 1]
  <2>1. HandlerRow(row) = [status |-> "QUEUED", attempts |-> jobs[j].attempts,
                           max |-> jobs[j].attempts + 1, input |-> 0]
    BY <1>3, HandlerStatuses DEF HandlerRow
  <2>2. HandlerRow(jobs[j]) = [status |-> HandlerStatus[jobs[j].status],
                               attempts |-> jobs[j].attempts,
                               max |-> jobs[j].maxAttempts, input |-> 0]
    BY <1>2 DEF HandlerRow
  <2> DEFINE n == jobs[j].attempts + 1  r == HandlerRow(jobs[j])  m == jobs[j].maxAttempts
             status == HandlerStatus[jobs[j].status]  attempts == jobs[j].attempts
  <2>3. r = [status |-> status, attempts |-> attempts, max |-> m, input |-> 0]
    BY <2>2
  <2> HIDE DEF n, r, m, status, attempts
  <2> DEFINE q == [r EXCEPT !.status = "QUEUED"]
  <2>4. q = [status |-> "QUEUED", attempts |-> attempts, max |-> m, input |-> 0]
    BY ONLY <2>3
  <2> HIDE DEF q
  <2>5. [q EXCEPT !.max = n] = [status |-> "QUEUED", attempts |-> attempts, max |-> n, input |-> 0]
    BY ONLY <2>4
  <2> QED BY <2>1, <2>5 DEF n, r, attempts, q
<1>5. View' = [View EXCEPT ![j] = HandlerRow(row)]
  BY <1>1, <1>2, ViewMoves
<1>6. View[j] = HandlerRow(jobs[j]) /\ View[j].attempts = jobs[j].attempts
      /\ View[j].status = "FAILED"
  BY <1>1, <1>2, ViewRow, HandlerStatuses
<1>7. View' = [View EXCEPT ![j].status = "QUEUED", ![j].max = View[j].attempts + 1]
  BY <1>4, <1>5, <1>6
<1> QED BY <1>2, <1>6, <1>7 DEF HandlerView!manualRetryJob, View

\* A job is submitted.
LEMMA SubmissionAgrees ==
  ASSUME TypeOK, NEW j \in Jobs, submitJob(j), jobs[j].attempts = 0,
         jobs[j].maxAttempts = MaxAttempts
  PROVE  View[j].status = "NONE" /\ View' = [View EXCEPT ![j] = HandlerView!QueuedJob(0)]
<1>1. jobs \in [Jobs -> JobRows] /\ jobs[j] \in JobRows /\ jobs[j].status = "NONE"
  BY DEF TypeOK, submitJob
<1>2. PICK due \in BOOLEAN : jobs' = [jobs EXCEPT ![j].status = "QUEUED", ![j].due = due]
  BY DEF submitJob
<1> DEFINE row == [jobs[j] EXCEPT !.status = "QUEUED", !.due = due]
<1>3. jobs' = [jobs EXCEPT ![j] = row]
  BY <1>1, <1>2
<1>4. row.status = "QUEUED" /\ row.attempts = 0 /\ row.maxAttempts = MaxAttempts
  BY <1>1 DEF JobRows
<1> HIDE DEF row
<1>5. HandlerRow(row) = HandlerView!QueuedJob(0)
  BY <1>4, HandlerStatuses DEF HandlerRow, HandlerView!QueuedJob
<1>6. View' = [View EXCEPT ![j] = HandlerRow(row)]
  BY <1>1, <1>3, ViewMoves
<1> QED BY <1>1, <1>5, <1>6, ViewRow, HandlerStatuses

\* What no handler sees: the clocks, the start of a claimed attempt, heartbeats, the
\* processes.
LEMMA UnseenSteps ==
  ASSUME TypeOK, [Next]_vars
  PROVE  \/ View' = View
         \/ \E j \in Jobs : submitJob(j) \/ requestJobCancellation(j) \/ manualRetryJob(j)
         \/ \E j \in Jobs, w \in Workers : recoverExpiredJobs(w, j) \/ claimJobs(w, j)
         \/ \E j \in Jobs, a \in AttemptNumbers :
              completeJob(j, a) \/ failJob(j, a) \/ acknowledgeJobCancellation(j, a)
              \/ releaseJobLease(j, a)
<1>1. jobs \in [Jobs -> JobRows] /\ \A j \in Jobs : jobs[j] \in JobRows
  BY DEF TypeOK
<1>2. ASSUME UNCHANGED jobs PROVE View' = View
  BY <1>2 DEF View, HandlerRow
<1>3. ASSUME NEW j \in Jobs, NEW row \in JobRows, jobs' = [jobs EXCEPT ![j] = row],
             HandlerStatus[row.status] = HandlerStatus[jobs[j].status],
             row.status = "NONE" <=> jobs[j].status = "NONE",
             row.attempts = jobs[j].attempts, row.maxAttempts = jobs[j].maxAttempts
      PROVE  View' = View
  <2>1. HandlerRow(row) = HandlerRow(jobs[j])
    BY <1>3 DEF HandlerRow
  <2>2. View' = [View EXCEPT ![j] = HandlerRow(row)]
    BY <1>1, <1>3, ViewMoves
  <2>3. View[j] = HandlerRow(row)
    BY <2>1 DEF View
  <2> QED BY <2>2, <2>3 DEF View
<1>4. ASSUME NEW j \in Jobs, Clock(j) PROVE View' = View
  <2>1. CASE BecomeDue(j)
    <3> DEFINE row == [jobs[j] EXCEPT !.due = TRUE]
    <3>1. jobs' = [jobs EXCEPT ![j] = row]
      BY <1>1, <2>1 DEF BecomeDue
    <3>2. /\ row \in JobRows /\ row.status = jobs[j].status
          /\ row.attempts = jobs[j].attempts /\ row.maxAttempts = jobs[j].maxAttempts
      BY <1>1 DEF JobRows
    <3> HIDE DEF row
    <3> QED BY <1>3, <3>1, <3>2
  <2>2. CASE LeaseLapses(j)
    <3> DEFINE row == [jobs[j] EXCEPT !.lease = "expired"]
    <3>1. jobs' = [jobs EXCEPT ![j] = row]
      BY <1>1, <2>2 DEF LeaseLapses
    <3>2. /\ row \in JobRows /\ row.status = jobs[j].status
          /\ row.attempts = jobs[j].attempts /\ row.maxAttempts = jobs[j].maxAttempts
      BY <1>1 DEF JobRows
    <3> HIDE DEF row
    <3> QED BY <1>3, <3>1, <3>2
  <2> QED BY <1>4, <2>1, <2>2 DEF Clock, UnattendedLapse, StalledLapse
<1>5. ASSUME NEW w \in Workers, Process(w) PROVE View' = View
  <2>1. UNCHANGED jobs
    BY <1>5 DEF Process, IssueClaim, ClaimNothing, RequestStop, AbortActive, FinishStop,
                Crash, Restart, ProcessEnds
  <2> QED BY <1>2, <2>1
<1>6. ASSUME NEW j \in Jobs, NEW a \in AttemptNumbers, startJob(j, a) PROVE View' = View
  <2> DEFINE row == [jobs[j] EXCEPT !.status = "RUNNING", !.asClaimed = FALSE]
  <2>1. jobs' = [jobs EXCEPT ![j] = row]
    BY <1>1, <1>6 DEF startJob
  <2>2. jobs[j].status = "CLAIMED"
    BY <1>6, CallOnLease DEF startJob, AllowedStatuses
  <2>3. /\ row \in JobRows /\ row.status = "RUNNING"
        /\ row.attempts = jobs[j].attempts /\ row.maxAttempts = jobs[j].maxAttempts
    BY <1>1 DEF JobRows, JobStatuses
  <2> HIDE DEF row
  <2> QED BY <1>3, <2>1, <2>2, <2>3, HandlerStatuses
<1>7. ASSUME NEW j \in Jobs, NEW a \in AttemptNumbers, heartbeatJob(j, a) PROVE View' = View
  <2>1. PICK lease \in {"current", jobs[j].lease} :
          jobs' = [jobs EXCEPT ![j].lease = lease, ![j].asClaimed = FALSE]
    BY <1>7 DEF heartbeatJob
  <2> DEFINE row == [jobs[j] EXCEPT !.lease = lease, !.asClaimed = FALSE]
  <2>2. jobs' = [jobs EXCEPT ![j] = row]
    BY <1>1, <2>1
  <2>3. /\ row \in JobRows /\ row.status = jobs[j].status
        /\ row.attempts = jobs[j].attempts /\ row.maxAttempts = jobs[j].maxAttempts
    BY <1>1 DEF JobRows
  <2> HIDE DEF row
  <2> QED BY <1>3, <2>2, <2>3
<1>8. ASSUME NEW j \in Jobs, NEW a \in AttemptNumbers, Execution(j, a)
      PROVE  \/ UNCHANGED jobs \/ startJob(j, a) \/ heartbeatJob(j, a)
             \/ completeJob(j, a) \/ failJob(j, a) \/ acknowledgeJobCancellation(j, a)
             \/ releaseJobLease(j, a)
  BY <1>8 DEF Execution, QueueCall, Heartbeat, CallRejected, CallError, HandlerReturns,
              HandlerThrows, AbortWins, AfterHandler, RecheckJob, Timeout, SendHeartbeat,
              HeartbeatFails
<1>9. CASE UNCHANGED vars
  BY <1>2, <1>9 DEF vars
<1>10. CASE \E j \in Jobs : Operator(j) \/ Clock(j)
  BY <1>4, <1>10 DEF Operator
<1>11. CASE \E j \in Jobs, a \in AttemptNumbers : Execution(j, a)
  BY <1>2, <1>6, <1>7, <1>8, <1>11
<1>12. CASE Next
  BY <1>5, <1>10, <1>11, <1>12 DEF Next
<1> QED BY <1>9, <1>12

\* Rows that no submission has filled are as Init left them.
Unsubmitted == \A j \in Jobs : jobs[j].status = "NONE" => jobs[j].maxAttempts = MaxAttempts

\* Every step keeps that.
LEMMA UnsubmittedKept ==
  ASSUME QueueInv, Unsubmitted, [Next]_vars
  PROVE  Unsubmitted'
<1> SUFFICES ASSUME NEW j \in Jobs, jobs'[j].status = "NONE"
             PROVE  jobs[j].status = "NONE" /\ jobs'[j].maxAttempts = jobs[j].maxAttempts
  BY DEF Unsubmitted
<1> DEFINE st == [i \in Jobs |-> jobs[i].status]
           at == [i \in Jobs |-> jobs[i].attempts]
           mx == [i \in Jobs |-> jobs[i].maxAttempts]
<1>1. [Lifecycle!Next]_(Lifecycle!lifecycleVars)
  BY StepLifecycle
<1>2. st'[j] = "NONE" /\ st[j] = jobs[j].status /\ mx'[j] = jobs'[j].maxAttempts
      /\ mx[j] = jobs[j].maxAttempts
  OBVIOUS
<1>3. SUFFICES st[j] = "NONE" /\ mx'[j] = mx[j]
  BY <1>2
<1>4. CASE UNCHANGED Lifecycle!lifecycleVars
  BY <1>2, <1>4 DEF Lifecycle!lifecycleVars
<1>5. ASSUME NEW i \in Jobs, NEW s \in JobStatuses, st' = [st EXCEPT ![i] = s]
      PROVE  st[j] = "NONE" /\ i # j
  BY <1>2, <1>5 DEF JobStatuses
<1>6. ASSUME NEW i \in Jobs, NEW s \in JobStatuses, Lifecycle!Move(i, s)
      PROVE  st[j] = "NONE" /\ mx'[j] = mx[j]
  BY <1>5, <1>6 DEF Lifecycle!Move
<1>7. ASSUME NEW i \in Jobs, Lifecycle!Claim(i)
      PROVE  st[j] = "NONE" /\ mx'[j] = mx[j]
  <2>1. "CLAIMED" \in JobStatuses
    BY DEF JobStatuses
  <2> QED BY <1>5, <1>7, <2>1 DEF Lifecycle!Claim
<1>8. ASSUME NEW i \in Jobs, Lifecycle!Retry(i)
      PROVE  st[j] = "NONE" /\ mx'[j] = mx[j]
  <2>1. "QUEUED" \in JobStatuses
    BY DEF JobStatuses
  <2>2. st[j] = "NONE" /\ i # j
    BY <1>5, <1>8, <2>1 DEF Lifecycle!Retry
  <2> QED BY <1>8, <2>2 DEF Lifecycle!Retry
<1>9. ASSUME NEW i \in Jobs, Lifecycle!Submit(i) \/ Lifecycle!Start(i) \/ Lifecycle!Succeed(i)
                              \/ Lifecycle!EndAttempt(i) \/ Lifecycle!Cancel(i)
      PROVE  \E s \in JobStatuses : Lifecycle!Move(i, s)
  BY <1>9 DEF Lifecycle!Submit, Lifecycle!Start, Lifecycle!Succeed, Lifecycle!EndAttempt,
              Lifecycle!Cancel, JobStatuses
<1> QED BY <1>1, <1>4, <1>6, <1>7, <1>8, <1>9 DEF Lifecycle!Next

\* Every step is a step of the queue the handlers are modelled with, or stutters.
LEMMA StepHandlerView ==
  ASSUME QueueInv, Unsubmitted, [Next]_vars
  PROVE  [\E j \in Jobs : HandlerView!JobStep(j)]_View
<1>1. TypeOK /\ AttemptBudget
  BY DEF QueueInv
<1>2. ASSUME NEW j \in Jobs, submitJob(j) PROVE HandlerView!JobStep(j)
  <2>1. jobs[j].status = "NONE" /\ jobs[j].attempts = 0 /\ jobs[j].maxAttempts = MaxAttempts
    BY <1>2 DEF QueueInv, AttemptsMade, Unsubmitted, submitJob
  <2>2. View[j].status = "NONE" /\ View' = [View EXCEPT ![j] = HandlerView!QueuedJob(0)]
    BY <1>1, <1>2, <2>1, SubmissionAgrees
  <2> QED BY <2>2 DEF HandlerView!JobStep, HandlerView!NoInput, View
<1>3. ASSUME NEW j \in Jobs, requestJobCancellation(j) \/ manualRetryJob(j)
      PROVE  HandlerView!JobStep(j)
  BY <1>1, <1>3, CancellationAgrees, RetryAgrees DEF HandlerView!JobStep
<1>4. ASSUME NEW j \in Jobs, NEW w \in Workers, recoverExpiredJobs(w, j) \/ claimJobs(w, j)
      PROVE  HandlerView!JobStep(j)
  BY <1>1, <1>4, RecoveryAgrees, ClaimAgrees DEF HandlerView!JobStep
<1>5. ASSUME NEW j \in Jobs, NEW a \in AttemptNumbers,
             completeJob(j, a) \/ failJob(j, a) \/ acknowledgeJobCancellation(j, a)
             \/ releaseJobLease(j, a)
      PROVE  HandlerView!JobStep(j)
  <2>1. View[j].attempts = jobs[j].attempts
    BY <1>1, ViewRow DEF TypeOK
  <2>2. ASSUME NEW outcome \in {"returned", "failFatal", "failRetryable"},
               HandlerView!Settle(j, jobs[j].attempts, outcome)
        PROVE  HandlerView!JobStep(j)
    BY <2>1, <2>2 DEF HandlerView!JobStep, View
  <2>3. CASE completeJob(j, a)
    BY <1>1, <2>2, <2>3, CompletionAgrees
  <2>4. CASE failJob(j, a)
    <3>1. Pc(j, a) \in {"returned", "failFatal", "failRetryable"}
      BY <2>4 DEF failJob
    <3> QED BY <1>1, <2>2, <2>4, <3>1, FailureAgrees
  <2>5. CASE acknowledgeJobCancellation(j, a)
    BY <1>1, <2>2, <2>5, AcknowledgementAgrees
  <2>6. CASE releaseJobLease(j, a)
    BY <1>1, <2>6, ReleaseAgrees DEF HandlerView!JobStep
  <2> QED BY <1>5, <2>3, <2>4, <2>5, <2>6
<1> QED BY <1>1, <1>2, <1>3, <1>4, <1>5, UnseenSteps

\* The job handlers of the other modules run on this queue: every step of its workers,
\* operators, late calls and clocks is a step of WorkerJobs or stutters.
THEOREM RefinesHandlerView == Spec => ImplementsHandlerView
<1>1. Init => View = [j \in Jobs |-> HandlerView!NoJob] /\ Unsubmitted
  BY HandlerStatuses DEF Init, View, HandlerRow, NoJob, HandlerView!NoJob, HandlerView!NoInput,
     Unsubmitted
<1>2. QueueInv /\ Unsubmitted /\ [Next]_vars => Unsubmitted'
  BY UnsubmittedKept
<1>3. QueueInv /\ Unsubmitted /\ [Next]_vars
      => [\E j \in Jobs : HandlerView!JobStep(j)]_View
  BY StepHandlerView
<1> QED BY <1>1, <1>2, <1>3, QueueInvariant, PTL DEF Spec, ImplementsHandlerView,
       HandlerView!JobsSpec, View

\* The queue implements both abstractions: the lifecycle of the documentation and the
\* queue the handlers are modelled with.
THEOREM RefinesAbstractions == Spec => ImplementsAbstractions
BY RefinesLifecycle, RefinesHandlerView DEF ImplementsAbstractions

\* Every operation is, for a handler, the operation of the same name, or the end of the
\* attempt it is called for: see OperationsAgree.
THEOREM OperationsCorrect == Spec => OperationsAgree
<1>1. TypeOK /\ AttemptBudget =>
        \A j \in Jobs :
          /\ \A w \in Workers :
               /\ claimJobs(w, j) => HandlerView!StartAttempt(j)
               /\ recoverExpiredJobs(w, j) => HandlerView!LeaseExpires(j)
          /\ \A a \in AttemptNumbers :
               /\ completeJob(j, a) => HandlerView!Settle(j, jobs[j].attempts, "returned")
               /\ failJob(j, a) => HandlerView!Settle(j, jobs[j].attempts, Pc(j, a))
               /\ acknowledgeJobCancellation(j, a) =>
                    \A outcome \in {"returned", "failFatal", "failRetryable"} :
                      HandlerView!Settle(j, jobs[j].attempts, outcome)
               /\ releaseJobLease(j, a) => HandlerView!releaseJobLease(j)
          /\ requestJobCancellation(j) => HandlerView!requestJobCancellation(j)
          /\ manualRetryJob(j) => HandlerView!manualRetryJob(j)
  BY ClaimAgrees, RecoveryAgrees, CompletionAgrees, FailureAgrees, AcknowledgementAgrees,
     ReleaseAgrees, CancellationAgrees, RetryAgrees
<1>2. QueueInv => TypeOK /\ AttemptBudget
  BY DEF QueueInv
<1> QED BY <1>1, <1>2, QueueInvariant, PTL DEF OperationsAgree

-----------------------------------------------------------------------------
(* Behaviours without a fault.  What a worker promises about the work it   *)
(* holds: every execution that is not over is the current attempt of a job *)
(* whose lease is current, its process is up, and the map of the process   *)
(* (or the poll that releases a claim) knows it.                           *)

\* Where an execution has got to agrees with its row and its attempt: its lease
\* was never reported lost, and it goes on to acknowledge only a cancellation
\* that was requested.
PlaceFits(row, att, e) ==
  /\ row.status \in LeasedStatuses /\ row.lease = "current"
  /\ ~ e.leaseLost
  /\ e.cancelReq \/ e.pc \in {"ackTry", "ackCatch", "ackFinal"} =>
       row.status = "CANCELLATION_REQUESTED"
  /\ e.pc \in {"starting", "pollRelease"} => att.status = "CLAIMED"
  /\ e.pc = "recheck" => att.status = "CLAIMED" \/ row.status = "CANCELLATION_REQUESTED"

\* The process of execution (j, a) is up and keeps track of it.
Tracked(j, a) ==
  LET w == WorkerOf(j, a)
  IN  /\ Up(w)
      /\ IF Pc(j, a) = "pollRelease" THEN poll[w] = "releasing" ELSE active[w][j] = a

LiveFits(j, a) ==
  Live(j, a) => /\ a = jobs[j].attempts
                /\ PlaceFits(jobs[j], history[j][a], exec[j][a])
                /\ Tracked(j, a)

\* An attempt recorded as running is being executed.
StartedLive ==
  \A j \in Jobs, a \in AttemptNumbers : history[j][a].status = "RUNNING" => Live(j, a)

\* Only a worker that has not settled its polls has one in flight.
PollsOK == \A w \in Workers : poll[w] # "idle" => worker[w] \in {"running", "stopping"}

\* The map of a worker holds executions of that worker.
EntriesOK ==
  \A w \in Workers, j \in Jobs :
    LET a == active[w][j]
    IN  a # 0 => Live(j, a) /\ WorkerOf(j, a) = w /\ Pc(j, a) # "pollRelease"

\* A poll releases one claim.
OneRelease ==
  \A j \in Jobs, k \in Jobs : \A a \in AttemptNumbers, b \in AttemptNumbers :
    /\ Pc(j, a) = "pollRelease" /\ Pc(k, b) = "pollRelease"
    /\ WorkerOf(j, a) = WorkerOf(k, b)
    => j = k /\ a = b

\* The executions of a worker for jobs of one type.
RunningOf(w, type) == {x \in Running(w) : JobType[x[1]] = type}

\* A worker has room for what it runs and for what it is claiming.
Room ==
  \A w \in Workers :
    /\ IsFiniteSet(Running(w))
    /\ Cardinality(Running(w)) + (IF poll[w] = "claiming" THEN 1 ELSE 0) <= Concurrency
    /\ \A j \in Jobs : Cardinality(RunningOf(w, JobType[j])) <= TypeLimit[JobType[j]]

Undisturbed ==
  /\ \A j \in Jobs, a \in AttemptNumbers : LiveFits(j, a)
  /\ StartedLive /\ PollsOK /\ EntriesOK /\ OneRelease /\ Room

\* The inductive invariant of the behaviours without a fault, beside QueueInv.
FaultFreeInv == faults = 0 => Undisturbed

\* A step has a fault or leaves their number as it is.
LEMMA StepFaults ==
  ASSUME [Next]_vars
  PROVE  faults' = faults \/ Fault
<1>1. ASSUME NEW j \in Jobs, Operator(j) \/ Clock(j) PROVE faults' = faults \/ Fault
  BY <1>1 DEF Operator, Clock, submitJob, requestJobCancellation, manualRetryJob, BecomeDue,
              UnattendedLapse, StalledLapse
<1>2. ASSUME NEW w \in Workers, Process(w) PROVE faults' = faults \/ Fault
  BY <1>2 DEF Process, IssueClaim, ClaimNothing, RequestStop, AbortActive, FinishStop, Crash,
              Restart
<1>3. ASSUME NEW w \in Workers, NEW j \in Jobs, recoverExpiredJobs(w, j) \/ claimJobs(w, j)
      PROVE  faults' = faults \/ Fault
  BY <1>3 DEF recoverExpiredJobs, claimJobs
<1>4. ASSUME NEW j \in Jobs, NEW a \in AttemptNumbers, Execution(j, a)
      PROVE  faults' = faults \/ Fault
  BY <1>4 DEF Execution, QueueCall, startJob, completeJob, failJob, acknowledgeJobCancellation,
              releaseJobLease, Reply, CallRejected, CallError, HandlerReturns, HandlerThrows,
              AbortWins, AfterHandler, RecheckJob, Timeout, SendHeartbeat, Heartbeat,
              heartbeatJob, HeartbeatFails
<1>5. CASE UNCHANGED vars
  BY <1>5 DEF vars
<1> QED BY <1>1, <1>2, <1>3, <1>4, <1>5 DEF Next

\* An attempt that is recorded as claimed or running is the one of the lease.
LEMMA OpenAttempt ==
  ASSUME QueueInv, NEW j \in Jobs, NEW a \in AttemptNumbers,
         history[j][a].status \in {"CLAIMED", "RUNNING"}
  PROVE  a = jobs[j].attempts /\ jobs[j].status \in LeasedStatuses
  BY DEF QueueInv, AttemptLedger

\* What Undisturbed says of an execution that is not over.
LEMMA LiveFacts ==
  ASSUME QueueInv, Undisturbed, NEW j \in Jobs, NEW a \in AttemptNumbers, Live(j, a)
  PROVE  /\ a = jobs[j].attempts
         /\ WorkerOf(j, a) = jobs[j].owner /\ WorkerOf(j, a) \in Workers
         /\ PlaceFits(jobs[j], history[j][a], exec[j][a])
         /\ Tracked(j, a)
<1>1. LiveFits(j, a)
  BY DEF Undisturbed
<1>2. a = jobs[j].attempts /\ jobs[j].status \in LeasedStatuses
  BY <1>1 DEF LiveFits, PlaceFits
<1>3. history[j][a].worker = jobs[j].owner /\ jobs[j].owner # NoWorker
  BY <1>2 DEF QueueInv, AttemptLedger, LeaseMatchesStatus
<1>4. jobs[j].owner \in Workers
  BY <1>3 DEF QueueInv, TypeOK, JobRows
<1> QED BY <1>1, <1>2, <1>3, <1>4 DEF LiveFits, WorkerOf

\* No execution begins, none turns into or out of the release of a claim.
Shrinks ==
  /\ \A k \in Jobs, b \in AttemptNumbers :
       Live(k, b)' => /\ Live(k, b)
                      /\ WorkerOf(k, b)' = WorkerOf(k, b)
                      /\ Pc(k, b)' = "pollRelease" <=> Pc(k, b) = "pollRelease"
  /\ \A w \in Workers : poll'[w] = "claiming" => poll[w] = "claiming"

\* A worker that runs no more than before still has room.
LEMMA ShrinksKeeps ==
  ASSUME OneRelease, Room, Shrinks
  PROVE  OneRelease' /\ Room'
<1>1. OneRelease'
  BY DEF OneRelease, Shrinks, Live
<1>2. ASSUME NEW w \in Workers
      PROVE  /\ IsFiniteSet(Running(w)')
             /\ Cardinality(Running(w)') + (IF poll'[w] = "claiming" THEN 1 ELSE 0) <= Concurrency
             /\ \A j \in Jobs : Cardinality(RunningOf(w, JobType[j])') <= TypeLimit[JobType[j]]
  <2>1. Running(w)' \subseteq Running(w)
    BY DEF Running, Shrinks
  <2>2. IsFiniteSet(Running(w))
    BY DEF Room
  <2>3. /\ IsFiniteSet(Running(w)') /\ Cardinality(Running(w)') <= Cardinality(Running(w))
        /\ Cardinality(Running(w)') \in Nat /\ Cardinality(Running(w)) \in Nat
    BY <2>1, <2>2, FS_Subset, FS_CardinalityType
  <2>4. Cardinality(Running(w)') + (IF poll'[w] = "claiming" THEN 1 ELSE 0) <= Concurrency
    <3>1. Cardinality(Running(w)) + (IF poll[w] = "claiming" THEN 1 ELSE 0) <= Concurrency
      BY DEF Room
    <3>2. poll'[w] = "claiming" => poll[w] = "claiming"
      BY DEF Shrinks
    <3> QED BY <2>3, <3>1, <3>2, QueueAssumption
  <2>5. ASSUME NEW j \in Jobs
        PROVE  Cardinality(RunningOf(w, JobType[j])') <= TypeLimit[JobType[j]]
    <3>1. RunningOf(w, JobType[j])' \subseteq RunningOf(w, JobType[j])
      BY <2>1 DEF RunningOf
    <3>2. IsFiniteSet(RunningOf(w, JobType[j]))
      BY <2>2, FS_Subset DEF RunningOf
    <3>3. /\ Cardinality(RunningOf(w, JobType[j])') <= Cardinality(RunningOf(w, JobType[j]))
          /\ Cardinality(RunningOf(w, JobType[j])') \in Nat
          /\ Cardinality(RunningOf(w, JobType[j])) \in Nat
      BY <3>1, <3>2, FS_Subset, FS_CardinalityType
    <3>4. Cardinality(RunningOf(w, JobType[j])) <= TypeLimit[JobType[j]]
      BY DEF Room
    <3> QED BY <3>3, <3>4, QueueAssumption
  <2> QED BY <2>3, <2>4, <2>5
<1>3. Room'
  BY <1>2 DEF Room
<1> QED BY <1>1, <1>3

\* No execution of j is under way.
Idle(j) == \A b \in AttemptNumbers : ~ Live(j, b)

\* A step of the operator, the clock or recovery: the executions stay where they
\* are, and the row of j is left in its lease if one of them is about it.
RowStep(j) ==
  /\ UNCHANGED <<worker, active, poll>>
  /\ \A k \in Jobs \ {j} : jobs'[k] = jobs[k] /\ history'[k] = history[k] /\ exec'[k] = exec[k]
  /\ \A b \in AttemptNumbers :
       /\ history'[j][b].worker = history[j][b].worker
       /\ history'[j][b].status = "RUNNING" => history[j][b].status = "RUNNING"
       /\ exec'[j][b].pc = exec[j][b].pc
       /\ exec'[j][b].leaseLost = exec[j][b].leaseLost
       /\ exec'[j][b].cancelReq = exec[j][b].cancelReq
  /\ \/ Idle(j)
     \/ /\ history'[j] = history[j]
        /\ jobs'[j].attempts = jobs[j].attempts
        /\ jobs'[j].lease = jobs[j].lease
        /\ jobs'[j].status \in {jobs[j].status, "CANCELLATION_REQUESTED"}

\* Such a step disturbs nothing.
LEMMA RowStepKeeps ==
  ASSUME QueueInv, Undisturbed, NEW j \in Jobs, RowStep(j)
  PROVE  Undisturbed'
<1>1. \A k \in Jobs, b \in AttemptNumbers :
        /\ exec'[k][b].pc = exec[k][b].pc
        /\ history'[k][b].worker = history[k][b].worker
        /\ history'[k][b].status = "RUNNING" => history[k][b].status = "RUNNING"
  BY DEF RowStep
<1>2. \A k \in Jobs, b \in AttemptNumbers :
        /\ Pc(k, b)' = Pc(k, b) /\ (Live(k, b)' <=> Live(k, b))
        /\ WorkerOf(k, b)' = WorkerOf(k, b)
  BY <1>1 DEF Pc, Live, WorkerOf
<1>3. UNCHANGED <<worker, active, poll>>
  BY DEF RowStep
<1>4. ASSUME NEW k \in Jobs, NEW b \in AttemptNumbers PROVE LiveFits(k, b)'
  <2> SUFFICES ASSUME Live(k, b)
               PROVE  /\ b = jobs'[k].attempts
                      /\ PlaceFits(jobs'[k], history'[k][b], exec'[k][b])
                      /\ Tracked(k, b)'
    BY <1>2 DEF LiveFits
  <2>1. b = jobs[k].attempts /\ PlaceFits(jobs[k], history[k][b], exec[k][b]) /\ Tracked(k, b)
    BY LiveFacts
  <2>2. Tracked(k, b)'
    BY <1>2, <1>3, <2>1 DEF Tracked, Up
  <2>3. CASE k # j
    BY <2>1, <2>2, <2>3 DEF RowStep
  <2>4. CASE k = j
    <3>1. /\ history'[j] = history[j] /\ jobs'[j].attempts = jobs[j].attempts
          /\ jobs'[j].lease = jobs[j].lease
          /\ jobs'[j].status \in {jobs[j].status, "CANCELLATION_REQUESTED"}
      BY <2>4 DEF RowStep, Idle
    <3>2. /\ exec'[j][b].pc = exec[j][b].pc
          /\ exec'[j][b].leaseLost = exec[j][b].leaseLost
          /\ exec'[j][b].cancelReq = exec[j][b].cancelReq
      BY DEF RowStep
    <3> QED BY <2>1, <2>2, <2>4, <3>1, <3>2 DEF PlaceFits, LeasedStatuses
  <2> QED BY <2>3, <2>4
<1>5. StartedLive'
  BY <1>1, <1>2 DEF Undisturbed, StartedLive
<1>6. PollsOK'
  BY <1>3 DEF Undisturbed, PollsOK
<1>7. EntriesOK'
  <2> SUFFICES ASSUME NEW w \in Workers, NEW k \in Jobs, active[w][k] # 0
               PROVE  /\ Live(k, active[w][k])' /\ WorkerOf(k, active[w][k])' = w
                      /\ Pc(k, active[w][k])' # "pollRelease"
    BY <1>3 DEF EntriesOK
  <2>1. active[w][k] \in AttemptNumbers
    BY QueueAssumption DEF QueueInv, TypeOK, AttemptNumbers
  <2>2. /\ Live(k, active[w][k]) /\ WorkerOf(k, active[w][k]) = w
        /\ Pc(k, active[w][k]) # "pollRelease"
    BY DEF Undisturbed, EntriesOK
  <2>3. active' = active
    BY <1>3
  <2> QED BY <1>1, <2>1, <2>2, <2>3 DEF Live, Pc, WorkerOf
<1>8. Shrinks
  BY <1>2, <1>3 DEF Shrinks
<1>9. OneRelease' /\ Room'
  BY <1>8, ShrinksKeeps DEF Undisturbed
<1> QED BY <1>4, <1>5, <1>6, <1>7, <1>9 DEF Undisturbed

\* The operator, the clock and recovery make steps of that kind.
LEMMA RowActions ==
  ASSUME QueueInv, Undisturbed, NEW j \in Jobs, ~ Fault,
         Operator(j) \/ Clock(j) \/ \E w \in Workers : recoverExpiredJobs(w, j)
  PROVE  RowStep(j)
<1>0. /\ jobs \in [Jobs -> JobRows] /\ jobs[j] \in JobRows
      /\ history \in [Jobs -> AttemptRows]
      /\ exec \in [Jobs -> [AttemptNumbers -> Executions]]
  BY DEF QueueInv, TypeOK, AttemptRows
<1>1. jobs[j].status \notin LeasedStatuses \/ jobs[j].lease # "current" => Idle(j)
  BY LiveFacts DEF Idle, PlaceFits
<1>2. CASE Operator(j)
  <2>1. UNCHANGED <<history, exec, active, worker, poll>>
    BY <1>2 DEF Operator, submitJob, requestJobCancellation, manualRetryJob
  <2>2. \A k \in Jobs \ {j} : jobs'[k] = jobs[k]
    BY <1>0, <1>2 DEF Operator, submitJob, requestJobCancellation, manualRetryJob
  <2>3. CASE submitJob(j) \/ manualRetryJob(j)
    BY <1>1, <2>1, <2>2, <2>3 DEF submitJob, manualRetryJob, RowStep, LeasedStatuses
  <2>4. CASE requestJobCancellation(j)
    <3>1. CASE jobs[j].status \in WaitingStatuses
      BY <1>1, <2>1, <2>2, <3>1 DEF RowStep, LeasedStatuses, WaitingStatuses
    <3>2. CASE jobs[j].status \notin WaitingStatuses
      <4>1. jobs'[j] = [jobs[j] EXCEPT !.status = "CANCELLATION_REQUESTED", !.asClaimed = FALSE]
        BY <1>0, <2>4, <3>2 DEF requestJobCancellation
      <4>2. /\ jobs'[j].status = "CANCELLATION_REQUESTED"
            /\ jobs'[j].attempts = jobs[j].attempts /\ jobs'[j].lease = jobs[j].lease
        BY <1>0, <4>1 DEF JobRows
      <4> QED BY <2>1, <2>2, <4>2 DEF RowStep
    <3> QED BY <3>1, <3>2
  <2> QED BY <1>2, <2>3, <2>4 DEF Operator
<1>3. CASE BecomeDue(j)
  BY <1>0, <1>1, <1>3 DEF BecomeDue, RowStep, LeasedStatuses, WaitingStatuses
<1>4. CASE UnattendedLapse(j)
  <2>1. Idle(j)
    BY <1>4, LiveFacts DEF UnattendedLapse, Attended, Idle
  <2>2. ASSUME NEW b \in AttemptNumbers
        PROVE  /\ exec'[j][b].pc = exec[j][b].pc
               /\ exec'[j][b].leaseLost = exec[j][b].leaseLost
               /\ exec'[j][b].cancelReq = exec[j][b].cancelReq
    <3>1. exec'[j][b] = [exec[j][b] EXCEPT !.early = TRUE,
                           !.hb = IF exec[j][b].hb = "none" THEN "none" ELSE "early"]
      BY <1>0, <1>4 DEF UnattendedLapse, LeaseLapses
    <3>2. exec[j][b] \in Executions
      BY <1>0
    <3> QED BY <3>1, <3>2 DEF Executions
  <2>3. /\ UNCHANGED <<history, active, worker, poll>>
        /\ \A k \in Jobs \ {j} : jobs'[k] = jobs[k] /\ exec'[k] = exec[k]
    BY <1>0, <1>4 DEF UnattendedLapse, LeaseLapses
  <2> QED BY <2>1, <2>2, <2>3 DEF RowStep
<1>5. CASE StalledLapse(j)
  BY <1>5 DEF StalledLapse
<1>6. CASE \E w \in Workers : recoverExpiredJobs(w, j)
  <2>1. Idle(j)
    BY <1>1, <1>6 DEF recoverExpiredJobs
  <2>2. /\ UNCHANGED <<exec, active, worker, poll>>
        /\ \A k \in Jobs \ {j} : jobs'[k] = jobs[k]
    BY <1>0, <1>6 DEF recoverExpiredJobs
  <2>3. SetAttempt(j, "LEASE_EXPIRED")
    BY <1>6 DEF recoverExpiredJobs
  <2>4. /\ \A k \in Jobs \ {j} : history'[k] = history[k]
        /\ \A b \in AttemptNumbers :
             /\ history'[j][b].worker = history[j][b].worker
             /\ history'[j][b].status = "RUNNING" => history[j][b].status = "RUNNING"
    BY <1>0, <2>3 DEF SetAttempt, AttemptRows
  <2> QED BY <2>1, <2>2, <2>4 DEF RowStep
<1> QED BY <1>2, <1>3, <1>4, <1>5, <1>6 DEF Clock

\* A set of pairs with one pair per element is no larger than the set.
LEMMA PairsCounted ==
  ASSUME NEW A, NEW f, IsFiniteSet({<<k, f[k]>> : k \in A})
  PROVE  /\ IsFiniteSet(A) /\ Cardinality(A) \in Nat
         /\ Cardinality({<<k, f[k]>> : k \in A}) \in Nat
         /\ Cardinality({<<k, f[k]>> : k \in A}) <= Cardinality(A)
<1> DEFINE P == {<<k, f[k]>> : k \in A}
           first == [x \in P |-> x[1]]
           pair == [k \in A |-> <<k, f[k]>>]
<1>1. first \in Surjection(P, A)
  <2>1. first \in [P -> A]
    OBVIOUS
  <2>2. ASSUME NEW k \in A PROVE \E x \in P : first[x] = k
    <3>1. <<k, f[k]>> \in P /\ first[<<k, f[k]>>] = k
      OBVIOUS
    <3> QED BY <3>1
  <2> HIDE DEF P, first
  <2> QED BY <2>1, <2>2 DEF Surjection
<1>2. pair \in Surjection(A, P)
  <2>1. pair \in [A -> P] /\ \A x \in P : \E k \in A : pair[k] = x
    OBVIOUS
  <2> HIDE DEF P, pair
  <2> QED BY <2>1 DEF Surjection
<1> HIDE DEF P, first, pair
<1>3. IsFiniteSet(P)
  BY DEF P
<1>4. IsFiniteSet(A)
  BY <1>1, <1>3, FS_Surjection
<1>5. Cardinality(P) <= Cardinality(A)
  BY <1>2, <1>4, FS_Surjection
<1> QED BY <1>3, <1>4, <1>5, FS_CardinalityType DEF P

\* A worker that releases no claim runs what its map holds.
LEMMA MapHoldsRunning ==
  ASSUME QueueInv, Undisturbed, NEW w \in Workers, poll[w] # "releasing"
  PROVE  Running(w) = {<<k, active[w][k]>> : k \in ActiveJobs(w)}
<1>1. ASSUME NEW x \in Running(w)
      PROVE  x[1] \in ActiveJobs(w) /\ x = <<x[1], active[w][x[1]]>>
  <2>1. /\ x[1] \in Jobs /\ x[2] \in AttemptNumbers /\ x = <<x[1], x[2]>>
        /\ Live(x[1], x[2]) /\ WorkerOf(x[1], x[2]) = w
    BY DEF Running
  <2>2. Tracked(x[1], x[2])
    BY <2>1, LiveFacts
  <2>3. active[w][x[1]] = x[2]
    BY <2>1, <2>2 DEF Tracked
  <2>4. x[2] # 0
    BY <2>1, QueueAssumption DEF AttemptNumbers
  <2> QED BY <2>1, <2>3, <2>4 DEF ActiveJobs
<1>2. ASSUME NEW k \in ActiveJobs(w)
      PROVE  <<k, active[w][k]>> \in Running(w)
  <2>1. k \in Jobs /\ active[w][k] # 0
    BY DEF ActiveJobs
  <2>2. active[w][k] \in AttemptNumbers
    BY <2>1, QueueAssumption DEF QueueInv, TypeOK, AttemptNumbers
  <2>3. Live(k, active[w][k]) /\ WorkerOf(k, active[w][k]) = w
    BY <2>1 DEF Undisturbed, EntriesOK
  <2> QED BY <2>1, <2>2, <2>3 DEF Running
<1> QED BY <1>1, <1>2

\* So what it runs, of all types or of one, is bounded by what its map counts.
LEMMA MapCountsRunning ==
  ASSUME QueueInv, Undisturbed, NEW w \in Workers, poll[w] # "releasing", NEW type
  PROVE  /\ IsFiniteSet(Running(w)) /\ IsFiniteSet(RunningOf(w, type))
         /\ Cardinality(Running(w)) \in Nat /\ Cardinality(RunningOf(w, type)) \in Nat
         /\ Cardinality(ActiveJobs(w)) \in Nat
         /\ Cardinality(Running(w)) <= Cardinality(ActiveJobs(w))
         /\ Cardinality({i \in ActiveJobs(w) : JobType[i] = type}) \in Nat
         /\ Cardinality(RunningOf(w, type)) <=
              Cardinality({i \in ActiveJobs(w) : JobType[i] = type})
<1> DEFINE A == ActiveJobs(w)
           B == {i \in A : JobType[i] = type}
           f == active[w]
<1>1. Running(w) = {<<k, f[k]>> : k \in A}
  BY MapHoldsRunning
<1>2. RunningOf(w, type) = {<<k, f[k]>> : k \in B}
  <2>1. \A x \in RunningOf(w, type) : x \in {<<k, f[k]>> : k \in B}
    BY <1>1 DEF RunningOf
  <2>2. \A k \in B : <<k, f[k]>> \in RunningOf(w, type)
    BY <1>1 DEF RunningOf
  <2> QED BY <2>1, <2>2 DEF RunningOf
<1>3. IsFiniteSet(Running(w))
  BY DEF Undisturbed, Room
<1>4. IsFiniteSet(RunningOf(w, type))
  BY <1>3, FS_Subset DEF RunningOf
<1> HIDE DEF A, B, f
<1>5. /\ Cardinality(Running(w)) \in Nat /\ Cardinality(A) \in Nat
      /\ Cardinality(Running(w)) <= Cardinality(A)
  BY <1>1, <1>3, PairsCounted
<1>6. /\ Cardinality(RunningOf(w, type)) \in Nat /\ Cardinality(B) \in Nat
      /\ Cardinality(RunningOf(w, type)) <= Cardinality(B)
  BY <1>2, <1>4, PairsCounted
<1> QED BY <1>3, <1>4, <1>5, <1>6 DEF A, B

\* The steps of a worker process: some executions end, the others stay where they are.
ProcessStep ==
  /\ UNCHANGED <<jobs, history>>
  /\ \A k \in Jobs, b \in AttemptNumbers :
       \/ ~ Live(k, b)'
       \/ /\ exec'[k][b].pc = exec[k][b].pc
          /\ exec'[k][b].leaseLost = exec[k][b].leaseLost
          /\ exec'[k][b].cancelReq = exec[k][b].cancelReq

\* Such a step disturbs nothing if the process state stays consistent and started
\* work does not end.
LEMMA ProcessStepKeeps ==
  ASSUME QueueInv, Undisturbed, ProcessStep,
         \A k \in Jobs, b \in AttemptNumbers :
           /\ Live(k, b)' => Tracked(k, b)'
           /\ Live(k, b) /\ ~ Live(k, b)' => history[k][b].status # "RUNNING",
         PollsOK', EntriesOK', Room'
  PROVE  Undisturbed'
<1>1. \A k \in Jobs, b \in AttemptNumbers :
        /\ Live(k, b)' => /\ Live(k, b)
                          /\ exec'[k][b].pc = exec[k][b].pc
                          /\ exec'[k][b].leaseLost = exec[k][b].leaseLost
                          /\ exec'[k][b].cancelReq = exec[k][b].cancelReq
        /\ WorkerOf(k, b)' = WorkerOf(k, b)
        /\ Pc(k, b)' = "pollRelease" => Pc(k, b) = "pollRelease"
  BY DEF ProcessStep, Live, Pc, WorkerOf
<1>2. UNCHANGED <<jobs, history>>
  BY DEF ProcessStep
<1>3. ASSUME NEW k \in Jobs, NEW b \in AttemptNumbers PROVE LiveFits(k, b)'
  <2> SUFFICES ASSUME Live(k, b)'
               PROVE  /\ b = jobs'[k].attempts
                      /\ PlaceFits(jobs'[k], history'[k][b], exec'[k][b])
                      /\ Tracked(k, b)'
    BY DEF LiveFits
  <2>1. b = jobs[k].attempts /\ PlaceFits(jobs[k], history[k][b], exec[k][b])
    BY <1>1, LiveFacts
  <2>2. PlaceFits(jobs[k], history[k][b], exec'[k][b])
    BY <1>1, <2>1 DEF PlaceFits
  <2> QED BY <1>2, <2>1, <2>2
<1>4. StartedLive'
  <2> SUFFICES ASSUME NEW k \in Jobs, NEW b \in AttemptNumbers, history[k][b].status = "RUNNING"
               PROVE  Live(k, b)'
    BY <1>2 DEF StartedLive
  <2> QED BY DEF Undisturbed, StartedLive
<1>5. OneRelease'
  BY <1>1 DEF Undisturbed, OneRelease
<1> QED BY <1>3, <1>4, <1>5 DEF Undisturbed

\* Every step of a worker process keeps its promises.
LEMMA ProcessKeeps ==
  ASSUME QueueInv, Undisturbed, NEW w \in Workers, Process(w), ~ Fault
  PROVE  Undisturbed'
<1>0. /\ exec \in [Jobs -> [AttemptNumbers -> Executions]]
      /\ worker \in [Workers -> {"running", "stopping", "aborting", "stopped", "down"}]
      /\ poll \in [Workers -> {"idle", "claiming", "releasing"}]
      /\ active \in [Workers -> [Jobs -> 0..AttemptCap]]
  BY DEF QueueInv, TypeOK
<1>1. \A k \in Jobs, b \in AttemptNumbers :
        Live(k, b) => WorkerOf(k, b) \in Workers /\ Tracked(k, b)
  BY LiveFacts
<1>2. \A k \in Jobs, b \in AttemptNumbers : WorkerOf(k, b)' = WorkerOf(k, b)
  BY DEF Process, IssueClaim, ClaimNothing, RequestStop, AbortActive, FinishStop, Crash,
         Restart, ProcessEnds, WorkerOf
<1>3. \A u \in Workers, k \in Jobs : active[u][k] # 0 =>
        /\ active[u][k] \in AttemptNumbers
        /\ Live(k, active[u][k]) /\ WorkerOf(k, active[u][k]) = u
        /\ Pc(k, active[u][k]) # "pollRelease"
  BY <1>0, QueueAssumption DEF Undisturbed, EntriesOK, AttemptNumbers
<1>4. \A u \in Workers : poll[u] # "idle" => worker[u] \in {"running", "stopping"}
  BY DEF Undisturbed, PollsOK
<1>5. CASE IssueClaim(w) \/ ClaimNothing(w)
  <2>1. /\ UNCHANGED <<jobs, history, exec, active, worker>>
        /\ \A u \in Workers \ {w} : poll'[u] = poll[u]
        /\ poll[w] # "releasing"
        /\ worker[w] \in {"running", "stopping"}
    BY <1>0, <1>4, <1>5 DEF IssueClaim, ClaimNothing
  <2>2. ProcessStep
    BY <2>1 DEF ProcessStep
  <2>3. \A k \in Jobs, b \in AttemptNumbers :
          (Live(k, b)' <=> Live(k, b)) /\ Pc(k, b)' = Pc(k, b)
    BY <2>1 DEF Live, Pc
  <2>4. \A k \in Jobs, b \in AttemptNumbers : Live(k, b) => Tracked(k, b)'
    BY <1>1, <1>2, <2>1, <2>3 DEF Tracked, Up
  <2>5. PollsOK'
    BY <1>4, <2>1 DEF PollsOK
  <2>6. EntriesOK'
    BY <1>3, <2>1 DEF EntriesOK, Live, Pc, WorkerOf
  <2>7. Room'
    <3>1. \A u \in Workers : Running(u)' = Running(u)
      BY <2>1 DEF Running, Live, Pc, WorkerOf
    <3>2. ASSUME NEW u \in Workers
          PROVE  Cardinality(Running(u)) + (IF poll'[u] = "claiming" THEN 1 ELSE 0) <= Concurrency
      <4>1. CASE u # w \/ ClaimNothing(w)
        <5>1. /\ Cardinality(Running(u)) + (IF poll[u] = "claiming" THEN 1 ELSE 0) <= Concurrency
              /\ Cardinality(Running(u)) \in Nat
          BY FS_CardinalityType DEF Undisturbed, Room
        <5>2. poll'[u] = "claiming" => poll[u] = "claiming"
          BY <1>0, <2>1, <4>1 DEF ClaimNothing
        <5> QED BY <5>1, <5>2, QueueAssumption
      <4>2. CASE u = w /\ IssueClaim(w)
        <5>1. Cardinality(ActiveJobs(w)) < Concurrency
          BY <4>2 DEF IssueClaim
        <5>2. /\ Cardinality(Running(w)) <= Cardinality(ActiveJobs(w))
              /\ Cardinality(Running(w)) \in Nat /\ Cardinality(ActiveJobs(w)) \in Nat
          BY <2>1, MapCountsRunning
        <5> QED BY <4>2, <5>1, <5>2, QueueAssumption
      <4> QED BY <1>5, <4>1, <4>2
    <3>3. \A u \in Workers : IsFiniteSet(Running(u)')
      BY <3>1 DEF Undisturbed, Room
    <3>4. \A u \in Workers, j \in Jobs : RunningOf(u, JobType[j])' = RunningOf(u, JobType[j])
      BY <3>1 DEF RunningOf
    <3>5. \A u \in Workers, j \in Jobs :
            Cardinality(RunningOf(u, JobType[j])') <= TypeLimit[JobType[j]]
      BY <3>4 DEF Undisturbed, Room
    <3> QED BY <3>1, <3>2, <3>3, <3>5 DEF Room
  <2> QED BY <2>2, <2>3, <2>4, <2>5, <2>6, <2>7, ProcessStepKeeps
<1>6. CASE RequestStop(w) \/ Restart(w) \/ AbortActive(w)
  <2>1. /\ UNCHANGED <<jobs, history, active, poll>>
        /\ \A u \in Workers \ {w} : worker'[u] = worker[u]
        /\ worker'[w] \in {"running", "stopping", "aborting"}
        /\ worker'[w] = "aborting" => poll[w] = "idle"
    BY <1>0, <1>6 DEF RequestStop, Restart, AbortActive
  <2>2. \A k \in Jobs, b \in AttemptNumbers :
          /\ exec'[k][b].pc = exec[k][b].pc
          /\ exec'[k][b].leaseLost = exec[k][b].leaseLost
          /\ exec'[k][b].cancelReq = exec[k][b].cancelReq
    <3>1. CASE RequestStop(w) \/ Restart(w)
      BY <3>1 DEF RequestStop, Restart
    <3>2. CASE AbortActive(w)
      <4> TAKE k \in Jobs, b \in AttemptNumbers
      <4>1. exec'[k][b] \in {exec[k][b], [exec[k][b] EXCEPT !.shutdown = TRUE]}
        BY <3>2 DEF AbortActive
      <4>2. exec[k][b] \in Executions
        BY <1>0
      <4> QED BY <4>1, <4>2 DEF Executions
    <3> QED BY <1>6, <3>1, <3>2
  <2>3. \A k \in Jobs, b \in AttemptNumbers :
          (Live(k, b)' <=> Live(k, b)) /\ Pc(k, b)' = Pc(k, b)
    BY <2>2 DEF Live, Pc
  <2>4. ProcessStep
    BY <2>1, <2>2 DEF ProcessStep
  <2>5. \A k \in Jobs, b \in AttemptNumbers : Live(k, b) => Tracked(k, b)'
    BY <1>1, <1>2, <2>1, <2>3 DEF Tracked, Up
  <2>6. PollsOK'
    BY <1>4, <2>1 DEF PollsOK
  <2>7. EntriesOK'
    BY <1>3, <2>1, <2>2 DEF EntriesOK, Live, Pc, WorkerOf
  <2>8. Shrinks
    BY <1>2, <2>1, <2>3 DEF Shrinks
  <2>9. Room'
    BY <2>8, ShrinksKeeps DEF Undisturbed
  <2> QED BY <2>3, <2>4, <2>5, <2>6, <2>7, <2>9, ProcessStepKeeps
<1>7. CASE FinishStop(w)
  <2>1. /\ UNCHANGED <<jobs, history>>
        /\ \A u \in Workers \ {w} :
             worker'[u] = worker[u] /\ poll'[u] = poll[u] /\ active'[u] = active[u]
        /\ poll'[w] = "idle" /\ \A k \in Jobs : active'[w][k] = 0
    BY <1>0, <1>7 DEF FinishStop, ProcessEnds
  <2> DEFINE over == [NoExec EXCEPT !.pc = "done"]
  <2>2. \A k \in Jobs, b \in AttemptNumbers :
          exec'[k][b] = IF WorkerOf(k, b) = w /\ Pc(k, b) # "none"
                          THEN over ELSE exec[k][b]
    BY <1>7 DEF FinishStop, ProcessEnds
  <2>3. over.pc = "done"
    BY DEF NoExec
  <2> HIDE DEF over
  <2>4. \A k \in Jobs, b \in AttemptNumbers :
          /\ Live(k, b)' <=> Live(k, b) /\ WorkerOf(k, b) # w
          /\ WorkerOf(k, b) # w => exec'[k][b] = exec[k][b]
    BY <2>2, <2>3 DEF Live, Pc
  <2>5. \A k \in Jobs, b \in AttemptNumbers : Live(k, b) => WorkerOf(k, b) # w
    <3>1. worker[w] = "aborting" /\ ActiveJobs(w) = {}
      BY <1>7 DEF FinishStop
    <3>2. poll[w] = "idle"
      BY <1>4, <3>1
    <3> QED BY <1>1, <3>1, <3>2, QueueAssumption DEF Tracked, ActiveJobs, AttemptNumbers
  <2>6. \A k \in Jobs, b \in AttemptNumbers :
          /\ Live(k, b)' <=> Live(k, b)
          /\ Live(k, b) => exec'[k][b] = exec[k][b]
          /\ Pc(k, b)' = "pollRelease" => Pc(k, b) = "pollRelease"
    BY <2>4, <2>5, <2>2, <2>3 DEF Pc
  <2>7. \A k \in Jobs, b \in AttemptNumbers : Live(k, b) => Tracked(k, b)'
    BY <1>1, <1>2, <2>1, <2>5, <2>6 DEF Tracked, Up, Pc
  <2>8. PollsOK'
    BY <1>4, <2>1 DEF PollsOK
  <2>9. EntriesOK'
    BY <1>3, <1>2, <2>1, <2>6 DEF EntriesOK, Pc, WorkerOf
  <2>10. Shrinks
    BY <1>2, <2>1, <2>6 DEF Shrinks, Pc
  <2>11. Room'
    BY <2>10, ShrinksKeeps DEF Undisturbed
  <2>12. ProcessStep
    BY <2>1, <2>6 DEF ProcessStep
  <2> QED BY <2>6, <2>7, <2>8, <2>9, <2>11, <2>12, ProcessStepKeeps
<1>8. CASE Crash(w)
  BY <1>8 DEF Crash
<1> QED BY <1>5, <1>6, <1>7, <1>8 DEF Process

\* A set grows by at most one with an element.
LEMMA OneMore ==
  ASSUME NEW S, NEW x, IsFiniteSet(S)
  PROVE  /\ IsFiniteSet(S \cup {x}) /\ Cardinality(S \cup {x}) \in Nat
         /\ Cardinality(S \cup {x}) <= Cardinality(S) + 1
<1>1. Cardinality(S) \in Nat
  BY FS_CardinalityType
<1>2. /\ IsFiniteSet(S \cup {x})
      /\ Cardinality(S \cup {x}) = IF x \in S THEN Cardinality(S) ELSE Cardinality(S) + 1
  BY FS_AddElement
<1>3. Cardinality(S \cup {x}) \in {Cardinality(S), Cardinality(S) + 1}
  BY <1>2
<1> QED BY <1>1, <1>2, <1>3

\* A claim begins one execution, for which the poll that made it had room.
LEMMA ClaimKeeps ==
  ASSUME QueueInv, Undisturbed, NEW w \in Workers, NEW j \in Jobs, claimJobs(w, j)
  PROVE  Undisturbed'
<1> DEFINE place == IF worker[w] = "running" THEN "starting" ELSE "pollRelease"
           new == [NoExec EXCEPT !.pc = place]
<1>0. /\ jobs \in [Jobs -> JobRows] /\ jobs[j] \in JobRows
      /\ history \in [Jobs -> AttemptRows] /\ history[j] \in AttemptRows
      /\ exec \in [Jobs -> [AttemptNumbers -> Executions]]
      /\ exec[j] \in [AttemptNumbers -> Executions]
      /\ worker \in [Workers -> {"running", "stopping", "aborting", "stopped", "down"}]
      /\ poll \in [Workers -> {"idle", "claiming", "releasing"}]
      /\ active \in [Workers -> [Jobs -> 0..AttemptCap]]
  BY DEF QueueInv, TypeOK, AttemptRows
<1>1. /\ poll[w] = "claiming" /\ worker[w] \in {"running", "stopping"} /\ worker' = worker
      /\ jobs[j].status \in WaitingStatuses /\ jobs[j].attempts < jobs[j].maxAttempts
  BY DEF claimJobs, Claimable, Undisturbed, PollsOK
<1>2. PICK a \in AttemptNumbers : a = jobs[j].attempts + 1
  BY <1>0, <1>1, QueueAssumption DEF JobRows, AttemptNumbers
<1>3. Idle(j)
  BY <1>1, LiveFacts DEF Idle, PlaceFits, WaitingStatuses, LeasedStatuses
<1>4. /\ new.pc = place /\ ~ new.leaseLost /\ ~ new.cancelReq
  BY DEF NoExec
<1>5. /\ \A k \in Jobs \ {j} : jobs'[k] = jobs[k] /\ history'[k] = history[k] /\ exec'[k] = exec[k]
      /\ \A b \in AttemptNumbers \ {a} : history'[j][b] = history[j][b] /\ exec'[j][b] = exec[j][b]
  <2>1. /\ \A k \in Jobs \ {j} : jobs'[k] = jobs[k] /\ history'[k] = history[k]
        /\ \A b \in AttemptNumbers \ {a} : history'[j][b] = history[j][b]
    BY <1>0, <1>2 DEF claimJobs, AttemptRows
  <2>2. exec' = [exec EXCEPT ![j][a] = new]
    BY <1>2 DEF claimJobs
  <2> HIDE DEF new
  <2>3. /\ \A k \in Jobs \ {j} : exec'[k] = exec[k]
        /\ \A b \in AttemptNumbers \ {a} : exec'[j][b] = exec[j][b]
    BY <1>0, <1>2, <2>2
  <2> QED BY <2>1, <2>3
<1>6. /\ jobs'[j].status = "CLAIMED" /\ jobs'[j].attempts = a /\ jobs'[j].lease = "current"
  BY <1>0, <1>2 DEF claimJobs, JobRows
<1>7. history'[j][a].worker = w /\ history'[j][a].status = "CLAIMED"
  BY <1>0, <1>2 DEF claimJobs, AttemptRows
<1>8. exec'[j][a] = new
  <2>1. exec' = [exec EXCEPT ![j][a] = new]
    BY <1>2 DEF claimJobs
  <2> HIDE DEF new
  <2> QED BY <1>0, <1>2, <2>1
<1>9. /\ \A u \in Workers \ {w} : poll'[u] = poll[u] /\ active'[u] = active[u]
      /\ \A k \in Jobs \ {j} : active'[w][k] = active[w][k]
      /\ place = "starting" => poll'[w] = "idle" /\ active'[w][j] = a
      /\ place = "pollRelease" => poll'[w] = "releasing" /\ active'[w] = active[w]
  <2>1. CASE worker[w] = "running"
    <3>1. /\ active' = [active EXCEPT ![w][j] = a]
          /\ poll' = [poll EXCEPT ![w] = "idle"]
      BY <1>2, <2>1 DEF claimJobs
    <3> QED BY <1>0, <1>2, <2>1, <3>1
  <2>2. CASE worker[w] # "running"
    <3>1. /\ poll' = [poll EXCEPT ![w] = "releasing"]
          /\ active' = active
      BY <2>2 DEF claimJobs
    <3> QED BY <1>0, <2>2, <3>1
  <2> QED BY <2>1, <2>2
<1>10. place \in {"starting", "pollRelease"}
  OBVIOUS
<1> HIDE DEF new, place
<1>11. ASSUME NEW k \in Jobs, NEW b \in AttemptNumbers, Live(k, b)
       PROVE  /\ k # j
              /\ Live(k, b)' /\ Pc(k, b)' = Pc(k, b) /\ WorkerOf(k, b)' = WorkerOf(k, b)
              /\ WorkerOf(k, b) = w => Pc(k, b) # "pollRelease"
              /\ LiveFits(k, b)'
  <2>1. k # j
    BY <1>3, <1>11 DEF Idle
  <2>2. jobs'[k] = jobs[k] /\ history'[k] = history[k] /\ exec'[k] = exec[k]
    BY <1>5, <2>1
  <2>3. /\ b = jobs[k].attempts /\ PlaceFits(jobs[k], history[k][b], exec[k][b])
        /\ Tracked(k, b) /\ WorkerOf(k, b) \in Workers
    BY <1>11, LiveFacts
  <2>4. WorkerOf(k, b) = w => Pc(k, b) # "pollRelease"
    BY <1>1, <2>3 DEF Tracked
  <2>5. WorkerOf(k, b)' = WorkerOf(k, b) /\ Pc(k, b)' = Pc(k, b) /\ Live(k, b)'
    BY <1>11, <2>2 DEF WorkerOf, Pc, Live
  <2>6. Tracked(k, b)'
    BY <1>1, <1>9, <2>1, <2>3, <2>4, <2>5 DEF Tracked, Up
  <2> QED BY <2>1, <2>2, <2>3, <2>4, <2>5, <2>6 DEF LiveFits
<1>12. /\ Live(j, a)' /\ WorkerOf(j, a)' = w /\ Pc(j, a)' = place
  BY <1>4, <1>7, <1>8, <1>10 DEF Live, Pc, WorkerOf
<1>13. LiveFits(j, a)'
  <2>1. PlaceFits(jobs'[j], history'[j][a], exec'[j][a])
    BY <1>4, <1>6, <1>7, <1>8, <1>10 DEF PlaceFits, LeasedStatuses
  <2>2. Tracked(j, a)'
    BY <1>1, <1>9, <1>10, <1>12 DEF Tracked, Up
  <2> QED BY <1>6, <2>1, <2>2 DEF LiveFits
<1>14. ASSUME NEW k \in Jobs, NEW b \in AttemptNumbers, Live(k, b)'
       PROVE  (k = j /\ b = a) \/ Live(k, b)
  <2>1. CASE k # j
    <3>1. exec'[k] = exec[k]
      BY <1>5, <2>1
    <3> QED BY <1>14, <3>1 DEF Live, Pc
  <2>2. CASE k = j /\ b # a
    <3>1. exec'[j][b] = exec[j][b]
      BY <1>5, <2>2
    <3> QED BY <1>14, <2>2, <3>1 DEF Live, Pc
  <2> QED BY <2>1, <2>2
<1>15. \A k \in Jobs, b \in AttemptNumbers : LiveFits(k, b)'
  <2> TAKE k \in Jobs, b \in AttemptNumbers
  <2>1. CASE Live(k, b)'
    BY <1>11, <1>13, <1>14, <2>1
  <2>2. CASE ~ Live(k, b)'
    BY <2>2 DEF LiveFits
  <2> QED BY <2>1, <2>2
<1>16. StartedLive'
  <2> SUFFICES ASSUME NEW k \in Jobs, NEW b \in AttemptNumbers, history'[k][b].status = "RUNNING"
               PROVE  Live(k, b)'
    BY DEF StartedLive
  <2>1. ~ (k = j /\ b = a)
    BY <1>7
  <2>2. history'[k][b] = history[k][b]
    BY <1>5, <2>1
  <2>3. Live(k, b)
    BY <2>2 DEF Undisturbed, StartedLive
  <2> QED BY <1>11, <2>3
<1>17. PollsOK'
  BY <1>1, <1>9 DEF Undisturbed, PollsOK
<1>18. EntriesOK'
  <2> SUFFICES ASSUME NEW u \in Workers, NEW k \in Jobs, active'[u][k] # 0
               PROVE  /\ Live(k, active[u][k])' /\ WorkerOf(k, active[u][k])' = u
                      /\ Pc(k, active[u][k])' # "pollRelease"
    BY DEF EntriesOK
  <2>1. CASE active'[u][k] = active[u][k]
    <3>1. PICK b \in AttemptNumbers : b = active[u][k] /\ b = active'[u][k]
      BY <1>0, <2>1, QueueAssumption DEF AttemptNumbers
    <3>2. Live(k, b) /\ WorkerOf(k, b) = u /\ Pc(k, b) # "pollRelease"
      BY <2>1, <3>1 DEF Undisturbed, EntriesOK
    <3>3. /\ exec'[k][b].pc = exec[k][b].pc /\ history'[k][b] = history[k][b]
      <4>1. k # j
        BY <1>3, <3>2 DEF Idle
      <4> QED BY <1>5, <4>1
    <3> QED BY <3>1, <3>2, <3>3 DEF Live, Pc, WorkerOf
  <2>2. CASE active'[u][k] # active[u][k]
    <3>1. u = w /\ k = j /\ place = "starting" /\ active'[u][k] = a
      BY <1>9, <1>10, <2>2
    <3> QED BY <1>12, <3>1 DEF Live, Pc, WorkerOf
  <2> QED BY <2>1, <2>2
<1>19. OneRelease'
  <2> SUFFICES ASSUME NEW k \in Jobs, NEW i \in Jobs, NEW b \in AttemptNumbers, NEW c \in AttemptNumbers,
                      Pc(k, b)' = "pollRelease", Pc(i, c)' = "pollRelease",
                      WorkerOf(k, b)' = WorkerOf(i, c)'
               PROVE  k = i /\ b = c
    BY DEF OneRelease
  <2>1. Live(k, b)' /\ Live(i, c)'
    BY DEF Live
  <2>2. CASE Live(k, b) /\ Live(i, c)
    BY <1>11, <2>2 DEF Undisturbed, OneRelease
  <2>3. CASE k = j /\ b = a /\ Live(i, c)
    BY <1>11, <1>12, <2>3
  <2>4. CASE Live(k, b) /\ i = j /\ c = a
    BY <1>11, <1>12, <2>4
  <2> QED BY <1>14, <2>1, <2>2, <2>3, <2>4
<1>20. Room'
  <2>1. ASSUME NEW u \in Workers
        PROVE  Running(u)' \subseteq Running(u) \cup (IF u = w THEN {<<j, a>>} ELSE {})
    <3> SUFFICES ASSUME NEW x \in Running(u)'
                 PROVE  x \in Running(u) \/ (u = w /\ x = <<j, a>>)
      OBVIOUS
    <3>1. /\ x[1] \in Jobs /\ x[2] \in AttemptNumbers /\ x = <<x[1], x[2]>>
          /\ Live(x[1], x[2])' /\ WorkerOf(x[1], x[2])' = u
      BY DEF Running
    <3>2. CASE x[1] = j /\ x[2] = a
      BY <1>12, <3>1, <3>2
    <3>3. CASE Live(x[1], x[2])
      <4>1. WorkerOf(x[1], x[2]) = u
        BY <1>11, <3>1, <3>3
      <4> QED BY <3>1, <3>3, <4>1 DEF Running
    <3> QED BY <1>14, <3>1, <3>2, <3>3
  <2>2. ASSUME NEW u \in Workers, u # w
        PROVE  /\ IsFiniteSet(Running(u)')
               /\ Cardinality(Running(u)') + (IF poll'[u] = "claiming" THEN 1 ELSE 0) <= Concurrency
               /\ \A i \in Jobs : Cardinality(RunningOf(u, JobType[i])') <= TypeLimit[JobType[i]]
    <3>1. Running(u)' \subseteq Running(u) /\ poll'[u] = poll[u]
      BY <1>9, <2>1, <2>2
    <3>2. /\ IsFiniteSet(Running(u))
          /\ Cardinality(Running(u)) + (IF poll[u] = "claiming" THEN 1 ELSE 0) <= Concurrency
      BY DEF Undisturbed, Room
    <3>3. /\ IsFiniteSet(Running(u)') /\ Cardinality(Running(u)') <= Cardinality(Running(u))
          /\ Cardinality(Running(u)') \in Nat /\ Cardinality(Running(u)) \in Nat
      BY <3>1, <3>2, FS_Subset, FS_CardinalityType
    <3>4. ASSUME NEW i \in Jobs
          PROVE  Cardinality(RunningOf(u, JobType[i])') <= TypeLimit[JobType[i]]
      <4>1. RunningOf(u, JobType[i])' \subseteq RunningOf(u, JobType[i])
        BY <3>1 DEF RunningOf
      <4>2. IsFiniteSet(RunningOf(u, JobType[i]))
        BY <3>2, FS_Subset DEF RunningOf
      <4>3. /\ Cardinality(RunningOf(u, JobType[i])') <= Cardinality(RunningOf(u, JobType[i]))
            /\ Cardinality(RunningOf(u, JobType[i])') \in Nat
            /\ Cardinality(RunningOf(u, JobType[i])) \in Nat
        BY <4>1, <4>2, FS_Subset, FS_CardinalityType
      <4>4. Cardinality(RunningOf(u, JobType[i])) <= TypeLimit[JobType[i]]
        BY DEF Undisturbed, Room
      <4> QED BY <4>3, <4>4, QueueAssumption
    <3> QED BY <3>1, <3>2, <3>3, <3>4, QueueAssumption
  <2>3. /\ IsFiniteSet(Running(w)')
        /\ Cardinality(Running(w)') + (IF poll'[w] = "claiming" THEN 1 ELSE 0) <= Concurrency
    <3>1. IsFiniteSet(Running(w)) /\ Cardinality(Running(w)) + 1 <= Concurrency
      BY <1>1 DEF Undisturbed, Room
    <3>2. Cardinality(Running(w)) \in Nat
      BY <3>1, FS_CardinalityType
    <3>3. /\ IsFiniteSet(Running(w) \cup {<<j, a>>})
          /\ Cardinality(Running(w) \cup {<<j, a>>}) \in Nat
          /\ Cardinality(Running(w) \cup {<<j, a>>}) <= Cardinality(Running(w)) + 1
      BY <3>1, OneMore
    <3>4. Running(w)' \subseteq Running(w) \cup {<<j, a>>}
      BY <2>1
    <3>5. /\ IsFiniteSet(Running(w)') /\ Cardinality(Running(w)') \in Nat
          /\ Cardinality(Running(w)') <= Cardinality(Running(w) \cup {<<j, a>>})
      BY <3>3, <3>4, FS_Subset, FS_CardinalityType
    <3>6. poll'[w] # "claiming"
      BY <1>9, <1>10
    <3> QED BY <3>1, <3>2, <3>3, <3>5, <3>6, QueueAssumption
  <2>4. ASSUME NEW i \in Jobs
        PROVE  Cardinality(RunningOf(w, JobType[i])') <= TypeLimit[JobType[i]]
    <3> DEFINE type == JobType[i]
    <3>1. /\ IsFiniteSet(RunningOf(w, type)) /\ Cardinality(RunningOf(w, type)) \in Nat
          /\ Cardinality({k \in ActiveJobs(w) : JobType[k] = type}) \in Nat
          /\ Cardinality(RunningOf(w, type)) <=
               Cardinality({k \in ActiveJobs(w) : JobType[k] = type})
      BY <1>1, MapCountsRunning
    <3>2. CASE JobType[j] = type
      <4>1. Cardinality({k \in ActiveJobs(w) : JobType[k] = type}) < TypeLimit[type]
        BY <3>2 DEF claimJobs, Claimable
      <4>2. RunningOf(w, type)' \subseteq RunningOf(w, type) \cup {<<j, a>>}
        BY <2>1 DEF RunningOf
      <4>3. /\ IsFiniteSet(RunningOf(w, type) \cup {<<j, a>>})
            /\ Cardinality(RunningOf(w, type) \cup {<<j, a>>}) \in Nat
            /\ Cardinality(RunningOf(w, type) \cup {<<j, a>>}) <= Cardinality(RunningOf(w, type)) + 1
        BY <3>1, OneMore
      <4>4. /\ Cardinality(RunningOf(w, type)') \in Nat
            /\ Cardinality(RunningOf(w, type)') <= Cardinality(RunningOf(w, type) \cup {<<j, a>>})
        BY <4>2, <4>3, FS_Subset, FS_CardinalityType
      <4> HIDE DEF type
      <4>5. Cardinality(RunningOf(w, type)') <= TypeLimit[type]
        <5>1. TypeLimit[type] \in Nat
          BY QueueAssumption DEF type
        <5> QED BY <3>1, <4>1, <4>3, <4>4, <5>1
      <4> QED BY <4>5 DEF type
    <3>3. CASE JobType[j] # type
      <4>1. RunningOf(w, type)' \subseteq RunningOf(w, type)
        BY <2>1, <3>3 DEF RunningOf
      <4>2. /\ Cardinality(RunningOf(w, type)') \in Nat
            /\ Cardinality(RunningOf(w, type)') <= Cardinality(RunningOf(w, type))
        BY <3>1, <4>1, FS_Subset, FS_CardinalityType
      <4>3. Cardinality(RunningOf(w, type)) <= TypeLimit[type]
        BY DEF Undisturbed, Room
      <4> QED BY <3>1, <4>2, <4>3, QueueAssumption
    <3> QED BY <3>2, <3>3
  <2> QED BY <2>2, <2>3, <2>4 DEF Room
<1> QED BY <1>15, <1>16, <1>17, <1>18, <1>19, <1>20 DEF Undisturbed

\* What a step of execution (j, a) leaves alone.
AroundExecution(j, a) ==
  /\ UNCHANGED worker
  /\ \A k \in Jobs \ {j} : jobs'[k] = jobs[k] /\ history'[k] = history[k] /\ exec'[k] = exec[k]
  /\ \A b \in AttemptNumbers \ {a} : exec'[j][b] = exec[j][b] /\ history'[j][b] = history[j][b]
  /\ history'[j][a].worker = history[j][a].worker

\* A heartbeat of an execution that is over.
Late(j, a) ==
  /\ ~ Live(j, a)
  /\ exec'[j][a].pc = exec[j][a].pc
  /\ UNCHANGED <<history, active, poll>>
  /\ jobs'[j].status = jobs[j].status /\ jobs'[j].attempts = jobs[j].attempts
  /\ jobs[j].lease = "current" => jobs'[j].lease = "current"

\* An execution goes on.
Moves(j, a) ==
  /\ Live(j, a)
  /\ exec'[j][a].pc \notin {"none", "done"}
  /\ exec'[j][a].pc = "pollRelease" <=> exec[j][a].pc = "pollRelease"
  /\ jobs'[j].attempts = jobs[j].attempts
  /\ PlaceFits(jobs'[j], history'[j][a], exec'[j][a])
  /\ UNCHANGED <<active, poll>>

\* An execution ends, and with it the entry of the map or the poll.
Ends(j, a) ==
  /\ Live(j, a)
  /\ exec'[j][a].pc = "done"
  /\ history'[j][a].status # "RUNNING"
  /\ \A u \in Workers, k \in Jobs :
       u # WorkerOf(j, a) \/ k # j => active'[u][k] = active[u][k]
  /\ \A u \in Workers : u # WorkerOf(j, a) => poll'[u] = poll[u]
  /\ IF exec[j][a].pc = "pollRelease"
       THEN poll'[WorkerOf(j, a)] = "idle" /\ UNCHANGED active
       ELSE active'[WorkerOf(j, a)][j] = 0 /\ UNCHANGED poll

ExecutionStep(j, a) == AroundExecution(j, a) /\ (Late(j, a) \/ Moves(j, a) \/ Ends(j, a))

\* Such a step disturbs nothing.
LEMMA ExecutionStepKeeps ==
  ASSUME QueueInv, Undisturbed, NEW j \in Jobs, NEW a \in AttemptNumbers, ExecutionStep(j, a)
  PROVE  Undisturbed'
<1>0. /\ active \in [Workers -> [Jobs -> 0..AttemptCap]]
      /\ poll \in [Workers -> {"idle", "claiming", "releasing"}]
  BY DEF QueueInv, TypeOK
<1>1. ASSUME NEW k \in Jobs, NEW b \in AttemptNumbers
      PROVE  /\ WorkerOf(k, b)' = WorkerOf(k, b)
             /\ ~ (k = j /\ b = a) =>
                  /\ exec'[k][b] = exec[k][b] /\ history'[k][b] = history[k][b]
                  /\ (Live(k, b)' <=> Live(k, b)) /\ Pc(k, b)' = Pc(k, b)
  <2>1. ~ (k = j /\ b = a) => exec'[k][b] = exec[k][b] /\ history'[k][b] = history[k][b]
    BY DEF ExecutionStep, AroundExecution
  <2>2. WorkerOf(k, b)' = WorkerOf(k, b)
    BY <2>1 DEF ExecutionStep, AroundExecution, WorkerOf
  <2> QED BY <2>1, <2>2 DEF Live, Pc
<1>2. worker' = worker
  BY DEF ExecutionStep, AroundExecution
<1>3. Shrinks
  <2>1. Live(j, a)' => Live(j, a) /\ (Pc(j, a)' = "pollRelease" <=> Pc(j, a) = "pollRelease")
    BY DEF ExecutionStep, Late, Moves, Ends, Live, Pc
  <2>2. \A u \in Workers : poll'[u] = "claiming" => poll[u] = "claiming"
    BY DEF ExecutionStep, Late, Moves, Ends
  <2> QED BY <1>1, <2>1, <2>2 DEF Shrinks
<1>4. OneRelease' /\ Room'
  BY <1>3, ShrinksKeeps DEF Undisturbed
<1>5. PollsOK'
  <2>1. \A u \in Workers : poll'[u] # "idle" => poll[u] # "idle"
    BY DEF ExecutionStep, Late, Moves, Ends
  <2> QED BY <1>2, <2>1 DEF Undisturbed, PollsOK
<1>6. ASSUME NEW k \in Jobs, NEW b \in AttemptNumbers, Live(k, b)' PROVE Tracked(k, b)'
  <2>1. Live(k, b) /\ (Pc(k, b)' = "pollRelease" <=> Pc(k, b) = "pollRelease")
    BY <1>3, <1>6 DEF Shrinks
  <2>2. /\ Tracked(k, b) /\ WorkerOf(k, b) \in Workers /\ b = jobs[k].attempts
    BY <2>1, LiveFacts
  <2>3. CASE UNCHANGED <<active, poll>>
    BY <1>1, <1>2, <2>1, <2>2, <2>3 DEF Tracked, Up
  <2>4. CASE Ends(j, a)
    <3>1. ~ (k = j /\ b = a)
      BY <1>6, <2>4 DEF Ends, Live, Pc
    <3>2. k # j
      BY <2>2, <2>4, <3>1, LiveFacts DEF Ends
    <3>3. active'[WorkerOf(k, b)][k] = active[WorkerOf(k, b)][k]
      BY <2>2, <2>4, <3>2 DEF Ends
    <3>4. Pc(k, b) = "pollRelease" => poll'[WorkerOf(k, b)] = poll[WorkerOf(k, b)]
      <4> SUFFICES ASSUME Pc(k, b) = "pollRelease", poll' # poll
                   PROVE  WorkerOf(k, b) # WorkerOf(j, a)
        BY <2>2, <2>4 DEF Ends
      <4>1. Pc(j, a) = "pollRelease"
        BY <2>4 DEF Ends, Pc
      <4> QED BY <3>2, <4>1 DEF Undisturbed, OneRelease
    <3> QED BY <1>1, <1>2, <2>1, <2>2, <3>3, <3>4 DEF Tracked, Up
  <2> QED BY <2>3, <2>4 DEF ExecutionStep, Late, Moves
<1>7. ASSUME NEW k \in Jobs, NEW b \in AttemptNumbers, Live(k, b)'
      PROVE  b = jobs'[k].attempts /\ PlaceFits(jobs'[k], history'[k][b], exec'[k][b])
  <2>1. Live(k, b)
    BY <1>3, <1>7 DEF Shrinks
  <2>2. b = jobs[k].attempts /\ PlaceFits(jobs[k], history[k][b], exec[k][b])
    BY <2>1, LiveFacts
  <2>3. CASE k = j /\ b = a
    <3>1. Moves(j, a)
      BY <1>7, <2>1, <2>3 DEF ExecutionStep, Late, Ends, Live, Pc
    <3> QED BY <2>2, <2>3, <3>1 DEF Moves
  <2>4. CASE k = j /\ b # a
    <3>1. ~ Live(j, a)
      BY <2>2, <2>4, LiveFacts
    <3>2. Late(j, a)
      BY <3>1 DEF ExecutionStep, Moves, Ends
    <3> QED BY <1>1, <2>2, <2>4, <3>2 DEF Late, PlaceFits
  <2>5. CASE k # j
    <3>1. jobs'[k] = jobs[k] /\ history'[k] = history[k] /\ exec'[k] = exec[k]
      BY <2>5 DEF ExecutionStep, AroundExecution
    <3> QED BY <2>2, <3>1
  <2> QED BY <2>3, <2>4, <2>5
<1>8. \A k \in Jobs, b \in AttemptNumbers : LiveFits(k, b)'
  BY <1>6, <1>7 DEF LiveFits
<1>9. StartedLive'
  <2> SUFFICES ASSUME NEW k \in Jobs, NEW b \in AttemptNumbers, history'[k][b].status = "RUNNING"
               PROVE  Live(k, b)'
    BY DEF StartedLive
  <2>1. CASE ~ (k = j /\ b = a)
    BY <1>1, <2>1 DEF Undisturbed, StartedLive
  <2>2. CASE k = j /\ b = a
    <3>1. ~ Ends(j, a)
      BY <2>2 DEF Ends
    <3>2. ~ Late(j, a)
      BY <2>2 DEF Late, Undisturbed, StartedLive
    <3> QED BY <2>2, <3>1, <3>2 DEF ExecutionStep, Moves, Live, Pc
  <2> QED BY <2>1, <2>2
<1>10. EntriesOK'
  <2> SUFFICES ASSUME NEW u \in Workers, NEW k \in Jobs, active'[u][k] # 0
               PROVE  /\ Live(k, active[u][k])' /\ WorkerOf(k, active[u][k])' = u
                      /\ Pc(k, active[u][k])' # "pollRelease"
    BY DEF EntriesOK
  <2>1. active'[u][k] = active[u][k]
    BY DEF ExecutionStep, Late, Moves, Ends
  <2>2. PICK b \in AttemptNumbers : b = active[u][k] /\ b = active'[u][k]
    BY <1>0, <2>1, QueueAssumption DEF AttemptNumbers
  <2>3. Live(k, b) /\ WorkerOf(k, b) = u /\ Pc(k, b) # "pollRelease"
    BY <2>1, <2>2 DEF Undisturbed, EntriesOK
  <2>4. Live(k, b)' /\ Pc(k, b)' # "pollRelease"
    <3>1. CASE ~ (k = j /\ b = a)
      BY <1>1, <2>3, <3>1
    <3>2. CASE k = j /\ b = a
      <4>1. ~ Late(j, a)
        BY <2>3, <3>2 DEF Late
      <4>2. ~ Ends(j, a)
        BY <2>2, <2>3, <3>2 DEF Ends, Pc
      <4>3. Moves(j, a)
        BY <4>1, <4>2 DEF ExecutionStep
      <4> QED BY <2>3, <3>2, <4>3 DEF Moves, Live, Pc
    <3> QED BY <3>1, <3>2
  <2> QED BY <1>1, <2>2, <2>3, <2>4 DEF Live, Pc, WorkerOf
<1> QED BY <1>4, <1>5, <1>8, <1>9, <1>10 DEF Undisturbed

\* Goto moves one execution, or ends it and takes it out of the map or the poll.
LEMMA GotoEffect ==
  ASSUME QueueInv, NEW j \in Jobs, NEW a \in AttemptNumbers, NEW pc \in Pcs, Goto(j, a, pc),
         Live(j, a), WorkerOf(j, a) \in Workers
  PROVE  /\ \A k \in Jobs \ {j} : exec'[k] = exec[k]
         /\ \A b \in AttemptNumbers \ {a} : exec'[j][b] = exec[j][b]
         /\ exec'[j][a].pc = pc
         /\ pc # "done" => /\ exec'[j][a].leaseLost = exec[j][a].leaseLost
                           /\ exec'[j][a].cancelReq = exec[j][a].cancelReq
                           /\ exec[j][a].pc # "pollRelease" => UNCHANGED <<active, poll>>
         /\ pc = "done" =>
              /\ \A u \in Workers, k \in Jobs :
                   u # WorkerOf(j, a) \/ k # j => active'[u][k] = active[u][k]
              /\ \A u \in Workers : u # WorkerOf(j, a) => poll'[u] = poll[u]
              /\ IF exec[j][a].pc = "pollRelease"
                   THEN poll'[WorkerOf(j, a)] = "idle" /\ UNCHANGED active
                   ELSE active'[WorkerOf(j, a)][j] = 0 /\ UNCHANGED poll
<1>0. /\ exec \in [Jobs -> [AttemptNumbers -> Executions]]
      /\ exec[j] \in [AttemptNumbers -> Executions] /\ exec[j][a] \in Executions
      /\ active \in [Workers -> [Jobs -> 0..AttemptCap]]
      /\ poll \in [Workers -> {"idle", "claiming", "releasing"}]
  BY DEF QueueInv, TypeOK
<1> DEFINE e == exec[j][a]
           over == [NoExec EXCEPT !.pc = "done", !.hb = e.hb]
           on == [e EXCEPT !.pc = pc, !.early = (pc \in CallPcs => jobs[j].lease # "expired")]
           new == IF pc = "done" THEN over ELSE on
<1>1. exec' = [exec EXCEPT ![j][a] = new]
  BY DEF Goto
<1>2. over.pc = "done"
  BY DEF NoExec
<1>3. on.pc = pc /\ on.leaseLost = e.leaseLost /\ on.cancelReq = e.cancelReq
  BY <1>0 DEF Executions
<1> HIDE DEF over, on
<1>4. /\ new.pc = pc
      /\ pc # "done" => new.leaseLost = e.leaseLost /\ new.cancelReq = e.cancelReq
  BY <1>2, <1>3
<1> HIDE DEF new, e
<1>5. /\ \A k \in Jobs \ {j} : exec'[k] = exec[k]
      /\ \A b \in AttemptNumbers \ {a} : exec'[j][b] = exec[j][b]
      /\ exec'[j][a] = new
  BY <1>0, <1>1
<1>6. pc # "done" /\ exec[j][a].pc # "pollRelease" => UNCHANGED <<active, poll>>
  BY DEF Goto
<1>7. CASE pc = "done" /\ exec[j][a].pc = "pollRelease"
  <2>1. poll' = [poll EXCEPT ![WorkerOf(j, a)] = "idle"] /\ active' = active
    BY <1>7 DEF Goto
  <2> QED BY <1>0, <1>4, <1>5, <1>7, <2>1 DEF e
<1>8. CASE pc = "done" /\ exec[j][a].pc # "pollRelease"
  <2>1. active' = [active EXCEPT ![WorkerOf(j, a)][j] = 0] /\ poll' = poll
    BY <1>8 DEF Goto
  <2> QED BY <1>0, <1>4, <1>5, <1>8, <2>1 DEF e
<1>9. CASE pc # "done"
  BY <1>4, <1>5, <1>6, <1>9 DEF e
<1> QED BY <1>7, <1>8, <1>9

\* Where the inner catch leads an execution that did not lose its lease.
LEMMA CatchPlace ==
  ASSUME NEW e \in Executions, ~ e.leaseLost, NEW r \in BOOLEAN
  PROVE  /\ CatchPc(e, r) \in {"releaseCatch", "ackCatch", "failRetryable", "failFatal"}
         /\ CatchPc(e, r) = "ackCatch" => e.cancelReq
  BY DEF CatchPc, Executions

\* A call of an execution that is under way finds its job in one of the allowed
\* statuses only if it is the cancellation that takes the others away.
LEMMA CallsPass ==
  ASSUME QueueInv, Undisturbed, NEW j \in Jobs, NEW a \in AttemptNumbers, Live(j, a),
         CallLosesLease(j, a)
  PROVE  /\ Pc(j, a) \notin {"ackTry", "ackCatch", "ackFinal", "releaseTry", "releaseCatch",
                             "pollRelease"}
         /\ Pc(j, a) \in {"failRetryable", "failFatal"} =>
              jobs[j].status = "CANCELLATION_REQUESTED"
<1>1. /\ a = jobs[j].attempts /\ WorkerOf(j, a) = jobs[j].owner
      /\ PlaceFits(jobs[j], history[j][a], exec[j][a])
  BY LiveFacts
<1>2. jobs[j].lease = "current" /\ jobs[j].status \in LeasedStatuses
  BY <1>1 DEF PlaceFits
<1>3. Pc(j, a) # "starting" => jobs[j].status \notin AllowedStatuses(Pc(j, a))
  BY <1>1, <1>2 DEF CallLosesLease, lockOwnedJob
<1>4. Pc(j, a) \in {"ackTry", "ackFinal"} \/ (Pc(j, a) = "ackCatch") =>
        jobs[j].status = "CANCELLATION_REQUESTED"
  BY <1>1 DEF PlaceFits, Pc
<1> QED BY <1>2, <1>3, <1>4 DEF AllowedStatuses, LeasedStatuses

\* Every step of an execution is such a step, if no fault happens in it.
LEMMA ExecutionSteps ==
  ASSUME QueueInv, Undisturbed, NEW j \in Jobs, NEW a \in AttemptNumbers, Execution(j, a),
         ~ Fault
  PROVE  ExecutionStep(j, a)
<1>0. /\ jobs \in [Jobs -> JobRows] /\ jobs[j] \in JobRows
      /\ history \in [Jobs -> AttemptRows] /\ history[j] \in AttemptRows
      /\ exec \in [Jobs -> [AttemptNumbers -> Executions]]
      /\ exec[j] \in [AttemptNumbers -> Executions] /\ exec[j][a] \in Executions
  BY DEF QueueInv, TypeOK, AttemptRows
<1>1. Live(j, a) =>
        /\ a = jobs[j].attempts /\ WorkerOf(j, a) = jobs[j].owner /\ WorkerOf(j, a) \in Workers
        /\ PlaceFits(jobs[j], history[j][a], exec[j][a])
  BY LiveFacts
<1>2. ASSUME NEW pc \in Pcs, Goto(j, a, pc), Live(j, a), UNCHANGED <<jobs, history, worker>>,
             pc # "none", pc # "pollRelease", Pc(j, a) # "pollRelease",
             pc # "done" => PlaceFits(jobs[j], history[j][a], [exec[j][a] EXCEPT !.pc = pc]),
             pc = "done" => history[j][a].status # "RUNNING"
      PROVE  ExecutionStep(j, a)
  <2>1. AroundExecution(j, a)
    BY <1>1, <1>2, GotoEffect DEF AroundExecution
  <2>2. CASE pc = "done"
    <3>1. Ends(j, a)
      BY <1>1, <1>2, <2>2, GotoEffect DEF Ends
    <3> QED BY <2>1, <3>1 DEF ExecutionStep
  <2>3. CASE pc # "done"
    <3>1. /\ exec'[j][a].pc = pc /\ exec'[j][a].leaseLost = exec[j][a].leaseLost
          /\ exec'[j][a].cancelReq = exec[j][a].cancelReq
          /\ UNCHANGED <<active, poll>>
      BY <1>1, <1>2, <2>3, GotoEffect DEF Pc
    <3>2. PlaceFits(jobs'[j], history'[j][a], exec'[j][a])
      BY <1>0, <1>2, <2>3, <3>1 DEF PlaceFits, Executions
    <3>3. Moves(j, a)
      BY <1>2, <2>3, <3>1, <3>2 DEF Moves, Pc
    <3> QED BY <2>1, <3>3 DEF ExecutionStep
  <2> QED BY <2>2, <2>3
<1>3. CASE startJob(j, a)
  <2>1. Goto(j, a, "handling") /\ worker' = worker
    BY <1>3 DEF startJob, Reply
  <2>2. Live(j, a) /\ exec[j][a].pc = "starting" /\ jobs[j].status = "CLAIMED"
    BY <1>3 DEF startJob, Live, Pc, CallPasses, lockOwnedJob, AllowedStatuses
  <2>3. "handling" \in Pcs
    BY DEF Pcs, TimerPcs
  <2>4. /\ exec'[j][a].pc = "handling" /\ exec'[j][a].leaseLost = exec[j][a].leaseLost
        /\ exec'[j][a].cancelReq = exec[j][a].cancelReq
        /\ UNCHANGED <<active, poll>>
        /\ \A k \in Jobs \ {j} : exec'[k] = exec[k]
        /\ \A b \in AttemptNumbers \ {a} : exec'[j][b] = exec[j][b]
    BY <1>1, <2>1, <2>2, <2>3, GotoEffect
  <2>5. /\ \A k \in Jobs \ {j} : jobs'[k] = jobs[k]
        /\ jobs'[j].status = "RUNNING" /\ jobs'[j].attempts = jobs[j].attempts
        /\ jobs'[j].lease = jobs[j].lease
    BY <1>0, <1>3 DEF startJob, JobRows
  <2>6. /\ \A k \in Jobs \ {j} : history'[k] = history[k]
        /\ \A b \in AttemptNumbers \ {a} : history'[j][b] = history[j][b]
        /\ history'[j][a].worker = history[j][a].worker
    BY <1>0, <1>1, <1>3, <2>2 DEF startJob, SetAttempt, AttemptRows
  <2>7. AroundExecution(j, a)
    BY <2>1, <2>4, <2>5, <2>6 DEF AroundExecution
  <2>8. PlaceFits(jobs'[j], history'[j][a], exec'[j][a])
    BY <1>1, <2>2, <2>4, <2>5 DEF PlaceFits, LeasedStatuses
  <2>9. Moves(j, a)
    BY <2>2, <2>4, <2>5, <2>8 DEF Moves
  <2> QED BY <2>7, <2>9 DEF ExecutionStep
<1>4. CASE \/ completeJob(j, a) \/ failJob(j, a) \/ acknowledgeJobCancellation(j, a)
           \/ releaseJobLease(j, a)
  <2>1. /\ Goto(j, a, "done") /\ worker' = worker
        /\ Live(j, a)
        /\ \E row : jobs' = [jobs EXCEPT ![j] = row]
        /\ \E target \in ClosedStatuses : SetAttempt(j, target)
    <3>1. CASE completeJob(j, a)
      BY <3>1 DEF completeJob, Reply, Live, ClosedStatuses, AttemptStatuses
    <3>2. CASE failJob(j, a)
      BY <3>2 DEF failJob, Reply, Live, ClosedStatuses, AttemptStatuses, failureJobStatus
    <3>3. CASE acknowledgeJobCancellation(j, a)
      BY <3>3 DEF acknowledgeJobCancellation, Reply, Live, ClosedStatuses, AttemptStatuses
    <3>4. CASE releaseJobLease(j, a)
      BY <3>4 DEF releaseJobLease, Reply, Live, ClosedStatuses, AttemptStatuses
    <3> QED BY <1>4, <3>1, <3>2, <3>3, <3>4
  <2>2. PICK target \in ClosedStatuses : SetAttempt(j, target)
    BY <2>1
  <2>3. /\ \A k \in Jobs \ {j} : history'[k] = history[k]
        /\ \A b \in AttemptNumbers \ {a} : history'[j][b] = history[j][b]
        /\ history'[j][a].worker = history[j][a].worker
        /\ history'[j][a].status = target
    BY <1>0, <1>1, <2>1, <2>2 DEF SetAttempt, AttemptRows
  <2>4. \A k \in Jobs \ {j} : jobs'[k] = jobs[k]
    BY <1>0, <2>1
  <2>5. "done" \in Pcs
    BY DEF Pcs
  <2>6. AroundExecution(j, a)
    BY <1>1, <2>1, <2>3, <2>4, <2>5, GotoEffect DEF AroundExecution
  <2>7. target # "RUNNING"
    BY DEF ClosedStatuses
  <2>8. Ends(j, a)
    BY <1>1, <2>1, <2>3, <2>5, <2>7, GotoEffect DEF Ends
  <2> QED BY <2>6, <2>8 DEF ExecutionStep
<1>5. CASE HandlerReturns(j, a) \/ AfterHandler(j, a)
  <2>1. PICK pc \in {"returned", "ackTry", "releaseTry", "complete"} :
          Goto(j, a, pc) /\ (pc = "ackTry" => exec[j][a].cancelReq)
    BY <1>5 DEF HandlerReturns, AfterHandler
  <2>2. /\ Live(j, a) /\ Pc(j, a) # "pollRelease" /\ UNCHANGED <<jobs, history, worker>>
    BY <1>5 DEF HandlerReturns, AfterHandler, Live
  <2>3. pc \in Pcs /\ pc \notin {"none", "done", "pollRelease", "starting", "recheck", "ackCatch",
                                 "ackFinal"}
    BY <2>1 DEF Pcs, TimerPcs, CallPcs, TryCalls, CatchCalls
  <2>4. PlaceFits(jobs[j], history[j][a], [exec[j][a] EXCEPT !.pc = pc])
    BY <1>0, <1>1, <2>1, <2>2, <2>3 DEF PlaceFits, Executions
  <2> QED BY <1>2, <2>1, <2>2, <2>3, <2>4
<1>6. CASE HandlerThrows(j, a) \/ AbortWins(j, a) \/ (CallRejected(j, a) /\ Pc(j, a) \in TryCalls)
  <2>1. PICK r \in BOOLEAN : Goto(j, a, ThrowPc(exec[j][a], r))
    BY <1>6 DEF HandlerThrows, AbortWins, CallRejected, Throw
  <2>2. /\ Live(j, a) /\ Pc(j, a) # "pollRelease" /\ UNCHANGED <<jobs, history, worker>>
        /\ exec[j][a].pc \in TryCalls \cup {"handling"}
    BY <1>6 DEF HandlerThrows, AbortWins, CallRejected, Live, Pc, TryCalls
  <2>3. ~ exec[j][a].leaseLost
    BY <1>1, <2>2 DEF PlaceFits
  <2>4. PICK pc \in {"releaseCatch", "ackCatch", "failRetryable", "failFatal"} :
          Goto(j, a, pc) /\ (pc = "ackCatch" => exec[j][a].cancelReq)
    BY <1>0, <2>1, <2>2, <2>3, CatchPlace DEF ThrowPc
  <2>5. pc \in Pcs /\ pc \notin {"none", "done", "pollRelease", "starting", "recheck", "ackTry",
                                 "ackFinal"}
    BY <2>4 DEF Pcs, TimerPcs, CallPcs, TryCalls, CatchCalls
  <2>6. PlaceFits(jobs[j], history[j][a], [exec[j][a] EXCEPT !.pc = pc])
    BY <1>0, <1>1, <2>2, <2>4, <2>5 DEF PlaceFits, Executions
  <2> QED BY <1>2, <2>2, <2>4, <2>5, <2>6
<1>7. CASE CallRejected(j, a) /\ Pc(j, a) \notin TryCalls
  <2>1. /\ Live(j, a) /\ UNCHANGED <<jobs, history, worker>> /\ CallLosesLease(j, a)
        /\ Pc(j, a) \in CallPcs
    BY <1>7 DEF CallRejected, Live, CallPcs, TryCalls, CatchCalls
  <2>2. /\ Pc(j, a) \in {"starting", "failRetryable", "failFatal"}
        /\ Pc(j, a) # "starting" => jobs[j].status = "CANCELLATION_REQUESTED"
    BY <1>7, <2>1, CallsPass DEF CallPcs, TryCalls, CatchCalls
  <2>3. ~ exec[j][a].leaseLost
    BY <1>1, <2>1 DEF PlaceFits
  <2>4. Goto(j, a, "recheck")
    BY <1>7, <2>2, <2>3 DEF CallRejected, Throw, ThrowPc, Pc, TryCalls, CatchCalls
  <2>5. Pc(j, a) = "starting" => history[j][a].status = "CLAIMED"
    BY <1>1, <2>1 DEF PlaceFits, Pc
  <2>6. PlaceFits(jobs[j], history[j][a], [exec[j][a] EXCEPT !.pc = "recheck"])
    BY <1>0, <1>1, <2>1, <2>2, <2>5 DEF PlaceFits, Executions
  <2>7. "recheck" \in Pcs
    BY DEF Pcs
  <2> QED BY <1>2, <2>1, <2>2, <2>4, <2>6, <2>7
<1>8. CASE RecheckJob(j, a)
  <2>1. /\ Live(j, a) /\ Pc(j, a) = "recheck" /\ UNCHANGED <<jobs, history, worker>>
    BY <1>8 DEF RecheckJob, Live
  <2>2. "ackFinal" \in Pcs /\ "done" \in Pcs
    BY DEF Pcs, CallPcs
  <2>3. CASE jobs[j].status = "CANCELLATION_REQUESTED"
    <3>1. Goto(j, a, "ackFinal")
      BY <1>1, <1>8, <2>1, <2>3 DEF RecheckJob
    <3>2. PlaceFits(jobs[j], history[j][a], [exec[j][a] EXCEPT !.pc = "ackFinal"])
      BY <1>0, <1>1, <2>1, <2>3 DEF PlaceFits, Executions
    <3> QED BY <1>2, <2>1, <2>2, <3>1, <3>2
  <2>4. CASE jobs[j].status # "CANCELLATION_REQUESTED"
    <3>1. Goto(j, a, "done")
      BY <1>8, <2>4 DEF RecheckJob
    <3>2. history[j][a].status = "CLAIMED"
      BY <1>1, <2>1, <2>4 DEF PlaceFits, Pc
    <3> QED BY <1>2, <2>1, <2>2, <3>1, <3>2
  <2> QED BY <2>3, <2>4
<1>9. ASSUME NEW new \in Executions, exec' = [exec EXCEPT ![j][a] = new], new.pc = exec[j][a].pc,
             Live(j, a) => PlaceFits(jobs'[j], history[j][a], new),
             UNCHANGED <<history, worker, active, poll>>,
             \A k \in Jobs \ {j} : jobs'[k] = jobs[k],
             jobs'[j].status = jobs[j].status, jobs'[j].attempts = jobs[j].attempts,
             jobs[j].lease = "current" => jobs'[j].lease = "current"
      PROVE  ExecutionStep(j, a)
  <2>1. /\ \A k \in Jobs \ {j} : exec'[k] = exec[k]
        /\ \A b \in AttemptNumbers \ {a} : exec'[j][b] = exec[j][b]
        /\ exec'[j][a] = new
    BY <1>0, <1>9
  <2>2. AroundExecution(j, a)
    BY <1>9, <2>1 DEF AroundExecution
  <2>3. CASE Live(j, a)
    <3>1. Moves(j, a)
      BY <1>9, <2>1, <2>3 DEF Moves, Live, Pc
    <3> QED BY <2>2, <3>1 DEF ExecutionStep
  <2>4. CASE ~ Live(j, a)
    <3>1. Late(j, a)
      BY <1>9, <2>1, <2>4 DEF Late
    <3> QED BY <2>2, <3>1 DEF ExecutionStep
  <2> QED BY <2>3, <2>4
<1>10. CASE Timeout(j, a) \/ SendHeartbeat(j, a)
  <2>1. PICK timedOut \in BOOLEAN, hb \in {"none", "early", "late"} :
          exec' = [exec EXCEPT ![j][a] = [exec[j][a] EXCEPT !.timedOut = timedOut, !.hb = hb]]
    <3>1. CASE Timeout(j, a)
      <4>1. [exec[j][a] EXCEPT !.timedOut = TRUE] =
              [exec[j][a] EXCEPT !.timedOut = TRUE, !.hb = exec[j][a].hb]
        BY <1>0 DEF Executions
      <4>2. exec' = [exec EXCEPT ![j][a] = [exec[j][a] EXCEPT !.timedOut = TRUE]]
        BY <3>1 DEF Timeout
      <4>3. exec[j][a].hb \in {"none", "early", "late"}
        BY <1>0 DEF Executions
      <4> QED BY <4>1, <4>2, <4>3
    <3>2. CASE SendHeartbeat(j, a)
      <4> DEFINE hb == IF jobs[j].lease = "expired" THEN "late" ELSE "early"
      <4>1. [exec[j][a] EXCEPT !.hb = hb] =
              [exec[j][a] EXCEPT !.timedOut = exec[j][a].timedOut, !.hb = hb]
        BY <1>0 DEF Executions
      <4>2. exec' = [exec EXCEPT ![j][a] = [exec[j][a] EXCEPT !.hb = hb]]
        BY <3>2 DEF SendHeartbeat
      <4>3. exec[j][a].timedOut \in BOOLEAN /\ hb \in {"none", "early", "late"}
        BY <1>0 DEF Executions
      <4> QED BY <4>1, <4>2, <4>3
    <3> QED BY <1>10, <3>1, <3>2
  <2> DEFINE new == [exec[j][a] EXCEPT !.timedOut = timedOut, !.hb = hb]
  <2>2. /\ new \in Executions /\ new.pc = exec[j][a].pc
        /\ new.leaseLost = exec[j][a].leaseLost /\ new.cancelReq = exec[j][a].cancelReq
    BY <1>0 DEF Executions
  <2>3. UNCHANGED <<jobs, history, worker, active, poll>>
    BY <1>10 DEF Timeout, SendHeartbeat
  <2> HIDE DEF new
  <2>4. Live(j, a) => PlaceFits(jobs'[j], history[j][a], new)
    BY <1>1, <2>2, <2>3 DEF PlaceFits
  <2> QED BY <1>9, <2>1, <2>2, <2>3, <2>4 DEF new
<1>11. CASE Heartbeat(j, a)
  <2> DEFINE e == exec[j][a]
  <2>1. /\ UNCHANGED <<history, worker, active, poll>>
        /\ \A k \in Jobs \ {j} : jobs'[k] = jobs[k]
        /\ jobs'[j].status = jobs[j].status /\ jobs'[j].attempts = jobs[j].attempts
        /\ jobs[j].lease = "current" => jobs'[j].lease = "current"
    <3>1. CASE heartbeatJob(j, a)
      <4>1. PICK lease \in {"current", jobs[j].lease} :
              jobs' = [jobs EXCEPT ![j] = [jobs[j] EXCEPT !.lease = lease, !.asClaimed = FALSE]]
        BY <1>0, <3>1 DEF heartbeatJob
      <4>2. jobs'[j] = [jobs[j] EXCEPT !.lease = lease, !.asClaimed = FALSE]
        BY <1>0, <4>1
      <4>3. /\ jobs'[j].status = jobs[j].status /\ jobs'[j].attempts = jobs[j].attempts
            /\ jobs'[j].lease = lease
        BY <1>0, <4>2 DEF JobRows
      <4> QED BY <1>0, <3>1, <4>1, <4>3 DEF heartbeatJob
    <3>2. CASE HeartbeatFails(j, a)
      BY <3>2 DEF HeartbeatFails
    <3> QED BY <1>11, <3>1, <3>2 DEF Heartbeat
  <2>2. CASE ~ Live(j, a)
    <3> DEFINE new == [e EXCEPT !.hb = "none"]
    <3>1. exec' = [exec EXCEPT ![j][a] = new]
      BY <1>11, <2>2 DEF Heartbeat, heartbeatJob, HeartbeatFails, HeartbeatSettles
    <3>2. new \in Executions /\ new.pc = e.pc
      BY <1>0 DEF Executions
    <3> HIDE DEF new
    <3> QED BY <1>9, <2>1, <2>2, <3>1, <3>2
  <2>3. CASE Live(j, a)
    <3>1. /\ a = jobs[j].attempts /\ WorkerOf(j, a) = jobs[j].owner
          /\ jobs[j].lease = "current" /\ jobs[j].status \in LeasedStatuses
          /\ PlaceFits(jobs[j], history[j][a], e)
      BY <1>1, <2>3 DEF PlaceFits
    <3>2. heartbeatJob(j, a) /\ HeartbeatSettles(j, a, jobs[j].status = "CANCELLATION_REQUESTED", FALSE)
      BY <1>11, <3>1 DEF Heartbeat, heartbeatJob, HeartbeatFails, HeartbeatOwns
    <3> DEFINE cancel == jobs[j].status = "CANCELLATION_REQUESTED"
               new == [e EXCEPT !.hb = "none", !.cancelReq = e.cancelReq \/ cancel,
                                !.leaseLost = e.leaseLost \/ FALSE]
    <3>3. exec' = [exec EXCEPT ![j][a] = new]
      BY <2>3, <3>2 DEF HeartbeatSettles
    <3>4. cancel \in BOOLEAN
      OBVIOUS
    <3>5. /\ new \in Executions /\ new.pc = e.pc
          /\ new.leaseLost <=> e.leaseLost
          /\ new.cancelReq => e.cancelReq \/ cancel
      <4> HIDE DEF cancel
      <4> QED BY <1>0, <3>4 DEF Executions
    <3> HIDE DEF new
    <3>6. PlaceFits(jobs'[j], history[j][a], new)
      BY <2>1, <3>1, <3>5 DEF PlaceFits
    <3> QED BY <1>9, <2>1, <3>3, <3>5, <3>6
  <2> QED BY <2>2, <2>3
<1>12. CASE CallError(j, a)
  BY <1>12 DEF CallError
<1> QED
  BY <1>3, <1>4, <1>5, <1>6, <1>7, <1>8, <1>10, <1>11, <1>12 DEF Execution, QueueCall

\* Nothing is disturbed before the first step.
LEMMA InitFaultFree == Init => FaultFreeInv
<1> SUFFICES ASSUME Init PROVE Undisturbed
  BY DEF FaultFreeInv
<1>1. \A j \in Jobs, a \in AttemptNumbers :
        /\ Pc(j, a) = "none" /\ ~ Live(j, a) /\ history[j][a].status = "NONE"
  BY DEF Init, NoExec, NoAttempt, Pc, Live
<1>2. /\ \A w \in Workers, j \in Jobs : active[w][j] = 0
      /\ \A w \in Workers : poll[w] = "idle"
  BY DEF Init
<1>3. Room
  <2> SUFFICES ASSUME NEW w \in Workers
               PROVE  /\ IsFiniteSet(Running(w))
                      /\ Cardinality(Running(w)) + (IF poll[w] = "claiming" THEN 1 ELSE 0)
                           <= Concurrency
                      /\ \A j \in Jobs :
                           Cardinality(RunningOf(w, JobType[j])) <= TypeLimit[JobType[j]]
    BY DEF Room
  <2>1. Running(w) = {}
    BY <1>1 DEF Running
  <2>2. \A j \in Jobs : RunningOf(w, JobType[j]) = {}
    BY <2>1 DEF RunningOf
  <2>3. IsFiniteSet({}) /\ Cardinality({}) = 0
    BY FS_EmptySet
  <2> QED BY <1>2, <2>1, <2>2, <2>3, QueueAssumption
<1> QED
  BY <1>1, <1>2, <1>3 DEF Undisturbed, LiveFits, StartedLive, PollsOK, EntriesOK, OneRelease

\* Every step keeps the invariant of the behaviours without a fault.
LEMMA NextFaultFree == QueueInv /\ FaultFreeInv /\ [Next]_vars => FaultFreeInv'
<1> SUFFICES ASSUME QueueInv, FaultFreeInv, [Next]_vars, faults' = 0
             PROVE  Undisturbed'
  BY DEF FaultFreeInv
<1>1. faults = 0 /\ ~ Fault
  <2>1. faults \in Nat
    BY QueueAssumption DEF QueueInv, TypeOK
  <2>2. faults' = faults \/ Fault
    BY StepFaults
  <2> QED BY <2>1, <2>2 DEF Fault
<1>2. Undisturbed
  BY <1>1 DEF FaultFreeInv
<1>3. ASSUME NEW j \in Jobs, Operator(j) \/ Clock(j) PROVE Undisturbed'
  <2>1. RowStep(j)
    BY <1>1, <1>2, <1>3, RowActions
  <2> QED BY <1>2, <2>1, RowStepKeeps
<1>4. ASSUME NEW w \in Workers, NEW j \in Jobs, recoverExpiredJobs(w, j) PROVE Undisturbed'
  <2>1. RowStep(j)
    BY <1>1, <1>2, <1>4, RowActions
  <2> QED BY <1>2, <2>1, RowStepKeeps
<1>5. ASSUME NEW w \in Workers, Process(w) PROVE Undisturbed'
  BY <1>1, <1>2, <1>5, ProcessKeeps
<1>6. ASSUME NEW w \in Workers, NEW j \in Jobs, claimJobs(w, j) PROVE Undisturbed'
  BY <1>2, <1>6, ClaimKeeps
<1>7. ASSUME NEW j \in Jobs, NEW a \in AttemptNumbers, Execution(j, a) PROVE Undisturbed'
  <2>1. ExecutionStep(j, a)
    BY <1>1, <1>2, <1>7, ExecutionSteps
  <2> QED BY <1>2, <2>1, ExecutionStepKeeps
<1>8. CASE UNCHANGED vars
  <2>1. UNCHANGED <<jobs, history, exec, active, worker, poll>>
    BY <1>8 DEF vars
  <2>2. \A j \in Jobs, a \in AttemptNumbers : LiveFits(j, a)'
    BY <1>2, <2>1 DEF Undisturbed, LiveFits, Tracked, Live, Pc, WorkerOf, Up
  <2>3. (StartedLive /\ PollsOK /\ EntriesOK)'
    BY <1>2, <2>1 DEF Undisturbed, StartedLive, PollsOK, EntriesOK, Live, Pc, WorkerOf
  <2>4. Shrinks
    BY <2>1 DEF Shrinks, Live, Pc, WorkerOf
  <2> QED BY <1>2, <2>2, <2>3, <2>4, ShrinksKeeps DEF Undisturbed
<1> QED BY <1>3, <1>4, <1>5, <1>6, <1>7, <1>8 DEF Next

\* As long as no fault has happened, every execution that is not over is the
\* current attempt of a job whose lease is current, in a process that tracks it.
THEOREM FaultFreeInvariant == Spec => []FaultFreeInv
  BY InitFaultFree, NextFaultFree, QueueInvariant, PTL DEF Spec

\* Without faults, a worker whose stop() returned holds no current lease of an
\* attempt it started.
THEOREM DrainCorrect == Spec => []DrainReleasesLeases
<1>1. QueueInv /\ FaultFreeInv => DrainReleasesLeases
  <2> SUFFICES ASSUME QueueInv, FaultFreeInv, NEW w \in Workers, NEW j \in Jobs,
                      worker[w] = "stopped", faults = 0, jobs[j].owner = w,
                      history[j][jobs[j].attempts].status = "RUNNING"
               PROVE  FALSE
    BY DEF DrainReleasesLeases
  <2>1. Undisturbed
    BY DEF FaultFreeInv
  <2>2. jobs[j].status \in LeasedStatuses /\ jobs[j] \in JobRows
    BY QueueAssumption DEF QueueInv, LeaseMatchesStatus, TypeOK
  <2>3. PICK a \in AttemptNumbers : a = jobs[j].attempts
    BY <2>2, QueueAssumption DEF QueueInv, AttemptsMade, JobRows, AttemptNumbers
  <2>4. Live(j, a)
    BY <2>1, <2>3 DEF Undisturbed, StartedLive
  <2>5. WorkerOf(j, a) = w /\ Tracked(j, a)
    BY <2>1, <2>4, LiveFacts
  <2> QED BY <2>5 DEF Tracked, Up
<1> QED BY <1>1, FaultFreeInvariant, QueueInvariant, PTL

\* Without faults, a worker runs at most its concurrency, and at most the cap of
\* each type, although both are compared with the map before a claim commits.
THEOREM ConcurrencyCorrect == Spec => []FaultFreeConcurrency
<1>1. FaultFreeInv => FaultFreeConcurrency
  <2> SUFFICES ASSUME FaultFreeInv, faults = 0, NEW w \in Workers
               PROVE  /\ Cardinality(Running(w)) <= Concurrency
                      /\ \A j \in Jobs :
                           Cardinality({x \in Running(w) : JobType[x[1]] = JobType[j]})
                             <= TypeLimit[JobType[j]]
    BY DEF FaultFreeConcurrency
  <2>1. /\ IsFiniteSet(Running(w))
        /\ Cardinality(Running(w)) + (IF poll[w] = "claiming" THEN 1 ELSE 0) <= Concurrency
        /\ \A j \in Jobs : Cardinality(RunningOf(w, JobType[j])) <= TypeLimit[JobType[j]]
    BY DEF FaultFreeInv, Undisturbed, Room
  <2>2. Cardinality(Running(w)) \in Nat
    BY <2>1, FS_CardinalityType
  <2> QED BY <2>1, <2>2, QueueAssumption DEF RunningOf
<1> QED BY <1>1, FaultFreeInvariant, PTL
-----------------------------------------------------------------------------
(* Executions and the maps, whatever fails.  With crashes, lost replies and *)
(* stalls an execution may outlive its lease and its attempt be settled by  *)
(* another worker; what remains true is which attempts have an execution,   *)
(* that the timers only run for started ones, and what the maps point at.   *)

\* An attempt that was never claimed has no execution; any other was claimed by
\* a worker.
ExecutionsClaimed ==
  \A j \in Jobs, a \in AttemptNumbers :
    IF history[j][a].status = "NONE" THEN Pc(j, a) = "none" ELSE WorkerOf(j, a) \in Workers

\* The inductive invariant of the executions, beside QueueInv.
PlacesInv == ExecutionsClaimed /\ HandlerOnlyAfterStart /\ EntriesOK

\* No step takes an attempt back, gives it to another worker or, once it was
\* started, makes it look unstarted.
LEMMA AttemptsMoveOn ==
  ASSUME QueueInv, [Next]_vars, NEW i \in Jobs, NEW a \in AttemptNumbers,
         history[i][a].status # "NONE"
  PROVE  /\ history'[i][a].worker = history[i][a].worker
         /\ history'[i][a].status # "NONE"
         /\ history[i][a].status # "CLAIMED" => history'[i][a].status # "CLAIMED"
<1>1. CASE UNCHANGED <<jobs, history, output>>
  BY <1>1
<1>2. ASSUME NEW j \in Jobs, Framed(j), i # j PROVE history'[i] = history[i]
  BY <1>2 DEF Framed
<1>3. ASSUME TableStep(i)
      PROVE  /\ history'[i][a].worker = history[i][a].worker
             /\ history'[i][a].status # "NONE"
             /\ history[i][a].status # "CLAIMED" => history'[i][a].status # "CLAIMED"
  <2>0. /\ jobs[i] \in JobRows
        /\ history \in [Jobs -> AttemptRows] /\ history[i] \in AttemptRows
        /\ RowInv(jobs[i], history[i], output[i])
    BY RowInvEquiv
  <2>1. CASE submitJob(i) \/ requestJobCancellation(i) \/ manualRetryJob(i) \/ Touch(i)
    BY <2>1 DEF submitJob, requestJobCancellation, manualRetryJob, Touch
  <2>2. CASE ClaimRow(i)
    <3>1. jobs[i].attempts + 1 \in AttemptNumbers
      BY <2>0, <2>2, QueueAssumption DEF ClaimRow, JobRows, AttemptNumbers
    <3>2. history[i][jobs[i].attempts + 1].status = "NONE"
      BY <2>0, <3>1 DEF RowInv, JobRows
    <3>3. PICK r : history' = [history EXCEPT ![i][jobs[i].attempts + 1] = r]
      BY <2>2 DEF ClaimRow
    <3>4. history'[i][a] = history[i][a]
      BY <2>0, <3>2, <3>3 DEF AttemptRows
    <3> QED BY <3>4
  <2>3. ASSUME NEW s \in {"RUNNING"} \cup ClosedStatuses, SetAttempt(i, s)
        PROVE  /\ history'[i][a].worker = history[i][a].worker
               /\ history'[i][a].status \in {history[i][a].status, s}
    BY <2>0, <2>3 DEF SetAttempt, AttemptRows
  <2>4. CASE StartRow(i) \/ SettleRow(i)
    <3>1. PICK s \in {"RUNNING"} \cup ClosedStatuses : SetAttempt(i, s)
      BY <2>4 DEF StartRow, SettleRow
    <3> QED BY <2>3, <3>1 DEF ClosedStatuses
  <2> QED BY <1>3, <2>1, <2>2, <2>4 DEF TableStep
<1> QED BY <1>1, <1>2, <1>3, StepFramed

\* An execution that is not over has an attempt of its own.
LEMMA LiveClaimed ==
  ASSUME PlacesInv, NEW j \in Jobs, NEW a \in AttemptNumbers, Pc(j, a) # "none"
  PROVE  history[j][a].status # "NONE" /\ WorkerOf(j, a) \in Workers
  BY DEF PlacesInv, ExecutionsClaimed

\* Where an execution may go in one step: it stays, or goes on to a place that
\* has timers only if it had them or its attempt is a started one.
GoesOn(k, b) ==
  \/ Pc(k, b)' = Pc(k, b)
  \/ /\ Pc(k, b) # "none" /\ Pc(k, b)' \notin {"none", "pollRelease"}
     /\ Pc(k, b)' \in TimerPcs =>
          \/ Pc(k, b) \in TimerPcs
          \/ history'[k][b].status \notin {"NONE", "CLAIMED"}

\* An entry of a map that a step leaves in place is one it does not end.
EntryStays(u, k) ==
  \A b \in AttemptNumbers :
    active'[u][k] = b => /\ active[u][k] = b
                         /\ Pc(k, b)' = "done" => Pc(k, b) = "done"

\* The maps hold numbers of attempts, so what is to be shown of every entry is
\* to be shown of every attempt.
LEMMA EntriesFromAttempts ==
  ASSUME QueueInv, [Next]_vars,
         \A u \in Workers, k \in Jobs : \A b \in AttemptNumbers :
           active'[u][k] = b =>
             Live(k, b)' /\ WorkerOf(k, b)' = u /\ Pc(k, b)' # "pollRelease"
  PROVE  EntriesOK'
<1>1. active' \in [Workers -> [Jobs -> 0..AttemptCap]]
  BY StepProcesses DEF QueueInv, ProcessesOK
<1>2. ASSUME NEW u \in Workers, NEW k \in Jobs, NEW b, active'[u][k] = b, b # 0
      PROVE  Live(k, b)' /\ WorkerOf(k, b)' = u /\ Pc(k, b)' # "pollRelease"
  <2>1. b \in AttemptNumbers
    BY <1>1, <1>2, QueueAssumption DEF AttemptNumbers
  <2> QED BY <1>2, <2>1
<1> QED BY <1>2 DEF EntriesOK

\* A step that claims nothing keeps the invariant if the executions go on and
\* the maps lose the entries of those that end.
LEMMA PlacesKept ==
  ASSUME QueueInv, PlacesInv, [Next]_vars,
         \A k \in Jobs, b \in AttemptNumbers : GoesOn(k, b),
         \A k \in Jobs, b \in AttemptNumbers :
           history[k][b].status = "NONE" => history'[k][b].status = "NONE",
         \A u \in Workers, k \in Jobs : EntryStays(u, k)
  PROVE  PlacesInv'
<1>1. ASSUME NEW k \in Jobs, NEW b \in AttemptNumbers
      PROVE  /\ IF history'[k][b].status = "NONE" THEN Pc(k, b)' = "none"
                                                  ELSE WorkerOf(k, b)' \in Workers
             /\ Pc(k, b)' \in TimerPcs => history'[k][b].status \notin {"NONE", "CLAIMED"}
  <2>1. CASE history[k][b].status = "NONE"
    <3>1. Pc(k, b) = "none" /\ history'[k][b].status = "NONE"
      BY <2>1 DEF PlacesInv, ExecutionsClaimed
    <3>2. Pc(k, b)' = "none"
      BY <3>1 DEF GoesOn
    <3> QED BY <3>1, <3>2 DEF TimerPcs, TryCalls, CatchCalls
  <2>2. CASE history[k][b].status # "NONE"
    <3>1. WorkerOf(k, b)' \in Workers /\ history'[k][b].status # "NONE"
      BY <2>2, AttemptsMoveOn DEF PlacesInv, ExecutionsClaimed, WorkerOf
    <3>2. Pc(k, b) \in TimerPcs => history'[k][b].status # "CLAIMED"
      BY <2>2, AttemptsMoveOn DEF PlacesInv, HandlerOnlyAfterStart
    <3> QED BY <3>1, <3>2 DEF GoesOn
  <2> QED BY <2>1, <2>2
<1>2. ASSUME NEW u \in Workers, NEW k \in Jobs, NEW b \in AttemptNumbers, active'[u][k] = b
      PROVE  Live(k, b)' /\ WorkerOf(k, b)' = u /\ Pc(k, b)' # "pollRelease"
  <2>1. b # 0 /\ active[u][k] = b
    BY <1>2, QueueAssumption DEF EntryStays, AttemptNumbers
  <2>2. Live(k, b) /\ WorkerOf(k, b) = u /\ Pc(k, b) # "pollRelease"
    BY <2>1 DEF PlacesInv, EntriesOK
  <2>3. WorkerOf(k, b)' = u
    BY <2>2, LiveClaimed, AttemptsMoveOn DEF Live, WorkerOf
  <2>4. Pc(k, b)' \notin {"none", "done", "pollRelease"}
    <3>1. Pc(k, b) \notin {"none", "done", "pollRelease"}
      BY <2>2 DEF Live
    <3>2. Pc(k, b)' # "done"
      BY <1>2, <2>1, <3>1 DEF EntryStays
    <3> QED BY <3>1, <3>2 DEF GoesOn
  <2> QED BY <2>3, <2>4 DEF Live
<1>3. EntriesOK'
  BY <1>2, EntriesFromAttempts
<1> QED BY <1>1, <1>3 DEF PlacesInv, ExecutionsClaimed, HandlerOnlyAfterStart

\* A step that moves no execution and no map keeps the invariant.
LEMMA PlacesStay ==
  ASSUME QueueInv, PlacesInv, [Next]_vars, UNCHANGED active,
         \A k \in Jobs, b \in AttemptNumbers :
           /\ Pc(k, b)' = Pc(k, b)
           /\ history[k][b].status = "NONE" => history'[k][b].status = "NONE"
  PROVE  PlacesInv'
<1>1. \A u \in Workers, k \in Jobs : EntryStays(u, k)
  BY DEF EntryStays
<1> QED BY <1>1, PlacesKept DEF GoesOn

\* A call changes the record of an attempt that was made, or none.
LEMMA CallHistory ==
  ASSUME QueueInv, NEW j \in Jobs, NEW s \in {"RUNNING"} \cup ClosedStatuses, SetAttempt(j, s),
         jobs[j].status \in LeasedStatuses
  PROVE  /\ jobs[j].attempts \in AttemptNumbers
         /\ history'[j][jobs[j].attempts].status = s
         /\ \A k \in Jobs, b \in AttemptNumbers :
              history[k][b].status = "NONE" => history'[k][b].status = "NONE"
<1>0. /\ jobs[j] \in JobRows
      /\ history \in [Jobs -> AttemptRows] /\ history[j] \in AttemptRows
      /\ RowInv(jobs[j], history[j], output[j])
  BY RowInvEquiv
<1>1. jobs[j].attempts \in AttemptNumbers
  BY <1>0, QueueAssumption DEF RowInv, JobRows, AttemptNumbers
<1>2. history[j][jobs[j].attempts].status # "NONE"
  BY <1>0, <1>1 DEF RowInv, JobRows
<1>3. history' = [history EXCEPT ![j][jobs[j].attempts].status = s]
  BY DEF SetAttempt
<1> HIDE DEF SetAttempt
<1>4. history'[j][jobs[j].attempts].status = s
  BY <1>0, <1>1, <1>3 DEF AttemptRows
<1>5. ASSUME NEW k \in Jobs, NEW b \in AttemptNumbers, history[k][b].status = "NONE"
      PROVE  history'[k][b].status = "NONE"
  <2>1. history[k] \in AttemptRows
    BY <1>0
  <2>2. history'[k][b] = history[k][b]
    BY <1>0, <1>2, <1>3, <1>5, <2>1 DEF AttemptRows
  <2> QED BY <1>5, <2>2
<1> QED BY <1>1, <1>4, <1>5

\* Continuing an execution, or ending it with its entry, keeps the invariant.
LEMMA GotoKeepsPlaces ==
  ASSUME QueueInv, PlacesInv, [Next]_vars, NEW j \in Jobs, NEW a \in AttemptNumbers,
         NEW pc \in Pcs \ {"none", "pollRelease"}, Goto(j, a, pc), Live(j, a),
         Pc(j, a) = "pollRelease" => pc = "done",
         pc \in TimerPcs =>
           Pc(j, a) \in TimerPcs \/ history'[j][a].status \notin {"NONE", "CLAIMED"},
         \A k \in Jobs, b \in AttemptNumbers :
           history[k][b].status = "NONE" => history'[k][b].status = "NONE"
  PROVE  PlacesInv'
<1>1. WorkerOf(j, a) \in Workers /\ Pc(j, a) # "none"
  BY LiveClaimed DEF Live
<1>2. /\ \A k \in Jobs \ {j} : exec'[k] = exec[k]
      /\ \A b \in AttemptNumbers \ {a} : exec'[j][b] = exec[j][b]
      /\ exec'[j][a].pc = pc
      /\ pc # "done" => UNCHANGED active
      /\ pc = "done" =>
           /\ \A u \in Workers, k \in Jobs :
                u # WorkerOf(j, a) \/ k # j => active'[u][k] = active[u][k]
           /\ IF Pc(j, a) = "pollRelease" THEN UNCHANGED active
                                          ELSE active'[WorkerOf(j, a)][j] = 0
  BY <1>1, GotoEffect DEF Pc
<1>3. ASSUME NEW k \in Jobs, NEW b \in AttemptNumbers PROVE GoesOn(k, b)
  <2>1. CASE k = j /\ b = a
    BY <1>1, <1>2, <2>1 DEF GoesOn, Pc
  <2>2. CASE k # j \/ b # a
    BY <1>2, <2>2 DEF GoesOn, Pc
  <2> QED BY <2>1, <2>2
<1>4. ASSUME NEW u \in Workers, NEW k \in Jobs, NEW b \in AttemptNumbers, active'[u][k] = b
      PROVE  active[u][k] = b /\ (Pc(k, b)' = "done" => Pc(k, b) = "done")
  <2>1. b # 0
    BY QueueAssumption DEF AttemptNumbers
  <2>2. active[u][k] = b
    BY <1>2, <1>4, <2>1
  <2>3. Live(k, b) /\ WorkerOf(k, b) = u /\ Pc(k, b) # "pollRelease"
    BY <2>1, <2>2 DEF PlacesInv, EntriesOK
  <2>4. CASE k = j /\ b = a
    <3>1. pc # "done"
      BY <1>2, <1>4, <2>1, <2>3, <2>4
    <3> QED BY <1>2, <2>2, <2>4, <3>1 DEF Pc
  <2>5. CASE k # j \/ b # a
    BY <1>2, <2>2, <2>5 DEF Pc
  <2> QED BY <2>4, <2>5
<1>5. \A u \in Workers, k \in Jobs : EntryStays(u, k)
  BY <1>4 DEF EntryStays
<1> QED BY <1>3, <1>5, PlacesKept

\* Where an error leads: never to the timers of an execution that had none.
LEMMA ThrowPlace ==
  ASSUME NEW e \in Executions, NEW r \in BOOLEAN
  PROVE  /\ ThrowPc(e, r) \in Pcs \ {"none", "pollRelease"}
         /\ ThrowPc(e, r) \in TimerPcs => e.pc \in TimerPcs
         /\ e.pc = "pollRelease" => ThrowPc(e, r) = "done"
  BY DEF ThrowPc, CatchPc, Pcs, CallPcs, TimerPcs, TryCalls, CatchCalls

\* An error in an execution keeps the invariant.
LEMMA ThrowKeepsPlaces ==
  ASSUME QueueInv, PlacesInv, [Next]_vars, NEW j \in Jobs, NEW a \in AttemptNumbers,
         Throw(j, a), Live(j, a),
         \A k \in Jobs, b \in AttemptNumbers :
           history[k][b].status = "NONE" => history'[k][b].status = "NONE"
  PROVE  PlacesInv'
<1>1. exec[j][a] \in Executions
  BY DEF QueueInv, TypeOK
<1>2. PICK r \in BOOLEAN : Goto(j, a, ThrowPc(exec[j][a], r))
  BY DEF Throw
<1>3. /\ ThrowPc(exec[j][a], r) \in Pcs \ {"none", "pollRelease"}
      /\ ThrowPc(exec[j][a], r) \in TimerPcs => Pc(j, a) \in TimerPcs
      /\ Pc(j, a) = "pollRelease" => ThrowPc(exec[j][a], r) = "done"
  BY <1>1, ThrowPlace DEF Pc
<1> QED BY <1>2, <1>3, GotoKeepsPlaces

\* Every step of an execution keeps the invariant.
LEMMA ExecutionKeepsPlaces ==
  ASSUME QueueInv, PlacesInv, [Next]_vars, NEW j \in Jobs, NEW a \in AttemptNumbers,
         Execution(j, a)
  PROVE  PlacesInv'
<1>0. /\ exec \in [Jobs -> [AttemptNumbers -> Executions]] /\ exec[j][a] \in Executions
      /\ "handling" \in Pcs /\ "done" \in Pcs /\ "handling" \notin {"none", "pollRelease"}
      /\ "done" \notin TimerPcs
  BY DEF QueueInv, TypeOK, Pcs, TimerPcs, TryCalls, CatchCalls
<1>1. ASSUME UNCHANGED history
      PROVE  \A k \in Jobs, b \in AttemptNumbers :
               history[k][b].status = "NONE" => history'[k][b].status = "NONE"
  BY <1>1
<1>2. CASE startJob(j, a)
  <2>1. /\ jobs[j].status \in LeasedStatuses /\ jobs[j].attempts = a
        /\ SetAttempt(j, "RUNNING") /\ Live(j, a) /\ Pc(j, a) # "pollRelease"
    BY <1>2 DEF startJob, CallPasses, lockOwnedJob, AllowedStatuses, LeasedStatuses, Live
  <2>2. /\ history'[j][a].status = "RUNNING"
        /\ \A k \in Jobs, b \in AttemptNumbers :
             history[k][b].status = "NONE" => history'[k][b].status = "NONE"
    BY <2>1, CallHistory
  <2>3. Goto(j, a, "handling") \/ Throw(j, a)
    BY <1>2 DEF startJob, Reply
  <2> QED BY <1>0, <2>1, <2>2, <2>3, GotoKeepsPlaces, ThrowKeepsPlaces
<1>3. CASE \/ completeJob(j, a) \/ failJob(j, a) \/ acknowledgeJobCancellation(j, a)
           \/ releaseJobLease(j, a)
  <2>1. /\ jobs[j].status \in LeasedStatuses /\ Live(j, a)
        /\ \E s \in {"RUNNING"} \cup ClosedStatuses : SetAttempt(j, s)
        /\ Reply(j, a, "done")
    <3>1. CASE completeJob(j, a)
      BY <3>1 DEF completeJob, CallPasses, lockOwnedJob, AllowedStatuses, LeasedStatuses, Live,
                  ClosedStatuses, AttemptStatuses
    <3>2. CASE failJob(j, a)
      <4>1. jobs[j].status \in LeasedStatuses /\ Live(j, a) /\ Reply(j, a, "done")
        BY <3>2 DEF failJob, CallPasses, lockOwnedJob, AllowedStatuses, LeasedStatuses, Live
      <4> QED BY <3>2, <4>1 DEF failJob, failureJobStatus, ClosedStatuses, AttemptStatuses
    <3>3. CASE acknowledgeJobCancellation(j, a)
      BY <3>3 DEF acknowledgeJobCancellation, CallPasses, lockOwnedJob, AllowedStatuses,
                  LeasedStatuses, Live, ClosedStatuses, AttemptStatuses
    <3>4. CASE releaseJobLease(j, a)
      BY <3>4 DEF releaseJobLease, CallPasses, lockOwnedJob, AllowedStatuses, LeasedStatuses,
                  Live, ClosedStatuses, AttemptStatuses
    <3> QED BY <1>3, <3>1, <3>2, <3>3, <3>4
  <2>2. \A k \in Jobs, b \in AttemptNumbers :
          history[k][b].status = "NONE" => history'[k][b].status = "NONE"
    BY <2>1, CallHistory
  <2>3. Goto(j, a, "done") \/ Throw(j, a)
    BY <2>1 DEF Reply
  <2> QED BY <1>0, <2>1, <2>2, <2>3, GotoKeepsPlaces, ThrowKeepsPlaces
<1>4. CASE CallRejected(j, a) \/ CallError(j, a) \/ HandlerThrows(j, a) \/ AbortWins(j, a)
  <2>1. Throw(j, a) /\ UNCHANGED history /\ Live(j, a)
    BY <1>4 DEF CallRejected, CallError, HandlerThrows, AbortWins, Live, CallPcs, TryCalls,
                CatchCalls
  <2> QED BY <1>1, <2>1, ThrowKeepsPlaces
<1>5. CASE HandlerReturns(j, a) \/ AfterHandler(j, a)
  <2>1. /\ UNCHANGED history /\ Live(j, a) /\ Pc(j, a) \in TimerPcs /\ Pc(j, a) # "pollRelease"
        /\ \E pc \in {"returned", "ackTry", "releaseTry", "complete"} : Goto(j, a, pc)
    BY <1>5 DEF HandlerReturns, AfterHandler, Live, TimerPcs
  <2>2. {"returned", "ackTry", "releaseTry", "complete"} \subseteq Pcs \ {"none", "pollRelease"}
    BY DEF Pcs, TimerPcs, TryCalls
  <2> QED BY <1>1, <2>1, <2>2, GotoKeepsPlaces
<1>6. CASE RecheckJob(j, a)
  <2>1. /\ UNCHANGED history /\ Live(j, a) /\ Pc(j, a) # "pollRelease"
        /\ \E pc \in {"ackFinal", "done"} : Goto(j, a, pc)
    BY <1>6 DEF RecheckJob, Live
  <2>2. /\ {"ackFinal", "done"} \subseteq Pcs \ {"none", "pollRelease"}
        /\ "ackFinal" \notin TimerPcs
    BY DEF Pcs, CallPcs, TimerPcs, TryCalls, CatchCalls
  <2> QED BY <1>0, <1>1, <2>1, <2>2, GotoKeepsPlaces
<1>7. CASE Timeout(j, a) \/ SendHeartbeat(j, a) \/ Heartbeat(j, a)
  <2>1. UNCHANGED <<history, active>>
    BY <1>7 DEF Timeout, SendHeartbeat, Heartbeat, heartbeatJob, HeartbeatFails
  <2>2. \A k \in Jobs, b \in AttemptNumbers : exec'[k][b].pc = exec[k][b].pc
    <3>1. ASSUME NEW e, e.pc = exec[j][a].pc, exec' = [exec EXCEPT ![j][a] = e]
          PROVE  \A k \in Jobs, b \in AttemptNumbers : exec'[k][b].pc = exec[k][b].pc
      BY <1>0, <3>1
    <3>2. CASE Timeout(j, a)
      <4>1. [exec[j][a] EXCEPT !.timedOut = TRUE].pc = exec[j][a].pc
        BY <1>0 DEF Executions
      <4>2. exec' = [exec EXCEPT ![j][a] = [exec[j][a] EXCEPT !.timedOut = TRUE]]
        BY <3>2 DEF Timeout
      <4> QED BY <3>1, <4>1, <4>2
    <3>3. CASE SendHeartbeat(j, a)
      <4> DEFINE hb == IF jobs[j].lease = "expired" THEN "late" ELSE "early"
      <4>1. [exec[j][a] EXCEPT !.hb = hb].pc = exec[j][a].pc
        BY <1>0 DEF Executions
      <4>2. exec' = [exec EXCEPT ![j][a] = [exec[j][a] EXCEPT !.hb = hb]]
        BY <3>3 DEF SendHeartbeat
      <4> QED BY <3>1, <4>1, <4>2
    <3>4. CASE Heartbeat(j, a)
      <4>1. \E c, l \in BOOLEAN : HeartbeatSettles(j, a, c, l)
        BY <3>4 DEF Heartbeat, heartbeatJob, HeartbeatFails
      <4>2. PICK c \in BOOLEAN, l \in BOOLEAN : HeartbeatSettles(j, a, c, l)
        BY <4>1
      <4> DEFINE on == [exec[j][a] EXCEPT !.hb = "none",
                          !.cancelReq = exec[j][a].cancelReq \/ c,
                          !.leaseLost = exec[j][a].leaseLost \/ l]
                 over == [exec[j][a] EXCEPT !.hb = "none"]
      <4>3. on.pc = exec[j][a].pc /\ over.pc = exec[j][a].pc
        BY <1>0 DEF Executions
      <4>4. exec' = [exec EXCEPT ![j][a] = on] \/ exec' = [exec EXCEPT ![j][a] = over]
        BY <4>2 DEF HeartbeatSettles
      <4> HIDE DEF on, over
      <4> QED BY <3>1, <4>3, <4>4
    <3> QED BY <1>7, <3>2, <3>3, <3>4
  <2> QED BY <1>1, <2>1, <2>2, PlacesStay DEF Pc
<1> QED BY <1>2, <1>3, <1>4, <1>5, <1>6, <1>7 DEF Execution, QueueCall

\* A claim begins one execution, with an entry in the map or in the poll.
LEMMA ClaimKeepsPlaces ==
  ASSUME QueueInv, PlacesInv, [Next]_vars, NEW w \in Workers, NEW j \in Jobs, claimJobs(w, j)
  PROVE  PlacesInv'
<1>0. /\ jobs[j] \in JobRows
      /\ history \in [Jobs -> AttemptRows] /\ history[j] \in AttemptRows
      /\ exec \in [Jobs -> [AttemptNumbers -> Executions]]
      /\ active \in [Workers -> [Jobs -> 0..AttemptCap]]
  BY RowInvEquiv DEF QueueInv, TypeOK
<1>a. jobs[j].attempts + 1 \in AttemptNumbers
  BY <1>0, QueueAssumption DEF claimJobs, Claimable, JobRows, AttemptNumbers
<1>1. PICK a \in AttemptNumbers : a = jobs[j].attempts + 1
  BY <1>a
<1>2. history[j][a].status = "NONE"
  BY <1>0, <1>1 DEF QueueInv, AttemptLedger, JobRows
<1>3. Pc(j, a) = "none"
  BY <1>1, <1>2 DEF PlacesInv, ExecutionsClaimed
<1>4. \E p \in {"starting", "pollRelease"} :
        /\ exec' = [exec EXCEPT ![j][a] = [NoExec EXCEPT !.pc = p]]
        /\ p = "starting" => active' = [active EXCEPT ![w][j] = a]
        /\ p = "pollRelease" => active' = active
  BY <1>1 DEF claimJobs
<1>5. PICK p \in {"starting", "pollRelease"} :
        /\ exec' = [exec EXCEPT ![j][a] = [NoExec EXCEPT !.pc = p]]
        /\ p = "starting" => active' = [active EXCEPT ![w][j] = a]
        /\ p = "pollRelease" => active' = active
  BY <1>4
<1>6. history' = [history EXCEPT ![j][a] = [worker |-> w, status |-> "CLAIMED"]]
  BY <1>1 DEF claimJobs
<1>7. [NoExec EXCEPT !.pc = p].pc = p
  BY DEF NoExec
<1>8. Pc(j, a)' = p /\ WorkerOf(j, a)' = w /\ history'[j][a].status = "CLAIMED"
  <2>1. exec'[j][a] = [NoExec EXCEPT !.pc = p]
    BY <1>0, <1>1, <1>5
  <2>2. history'[j][a] = [worker |-> w, status |-> "CLAIMED"]
    BY <1>0, <1>1, <1>6 DEF AttemptRows
  <2> QED BY <1>7, <2>1, <2>2 DEF Pc, WorkerOf
<1>9. ASSUME NEW k \in Jobs, NEW b \in AttemptNumbers, k # j \/ b # a
      PROVE  /\ Pc(k, b)' = Pc(k, b) /\ WorkerOf(k, b)' = WorkerOf(k, b)
             /\ history'[k][b] = history[k][b]
  BY <1>0, <1>1, <1>5, <1>6, <1>9 DEF Pc, WorkerOf, AttemptRows
<1>10. ExecutionsClaimed' /\ HandlerOnlyAfterStart'
  <2> SUFFICES ASSUME NEW k \in Jobs, NEW b \in AttemptNumbers
               PROVE  /\ IF history'[k][b].status = "NONE" THEN Pc(k, b)' = "none"
                                                           ELSE WorkerOf(k, b)' \in Workers
                      /\ Pc(k, b)' \in TimerPcs =>
                           history'[k][b].status \notin {"NONE", "CLAIMED"}
    BY DEF ExecutionsClaimed, HandlerOnlyAfterStart
  <2>1. CASE k = j /\ b = a
    <3>1. p \notin TimerPcs
      BY DEF TimerPcs, TryCalls, CatchCalls
    <3> QED BY <1>8, <2>1, <3>1
  <2>2. CASE k # j \/ b # a
    BY <1>9, <2>2 DEF PlacesInv, ExecutionsClaimed, HandlerOnlyAfterStart
  <2> QED BY <2>1, <2>2
<1>11. ASSUME NEW u \in Workers, NEW k \in Jobs, NEW b \in AttemptNumbers, active'[u][k] = b
       PROVE  Live(k, b)' /\ WorkerOf(k, b)' = u /\ Pc(k, b)' # "pollRelease"
  <2>1. CASE p = "starting" /\ u = w /\ k = j
    <3>1. active'[u][k] = a
      BY <1>0, <1>5, <2>1
    <3>2. b = a /\ Pc(k, b)' = "starting" /\ WorkerOf(k, b)' = u
      BY <1>8, <1>11, <2>1, <3>1
    <3> QED BY <3>2 DEF Live
  <2>2. CASE ~ (p = "starting" /\ u = w /\ k = j)
    <3>1. active[u][k] = b /\ b # 0
      BY <1>0, <1>5, <1>11, <2>2, QueueAssumption DEF AttemptNumbers
    <3>2. Live(k, b) /\ WorkerOf(k, b) = u /\ Pc(k, b) # "pollRelease"
      BY <3>1 DEF PlacesInv, EntriesOK
    <3>3. k # j \/ b # a
      BY <1>3, <3>2 DEF Live
    <3>4. Pc(k, b)' = Pc(k, b) /\ WorkerOf(k, b)' = WorkerOf(k, b)
      BY <1>9, <3>3
    <3> QED BY <3>2, <3>4 DEF Live
  <2> QED BY <2>1, <2>2
<1>12. EntriesOK'
  BY <1>11, EntriesFromAttempts
<1> QED BY <1>10, <1>12 DEF PlacesInv

\* A process that stops or dies takes its executions and its map with it; the
\* other steps of a process move neither.
LEMMA ProcessKeepsPlaces ==
  ASSUME QueueInv, PlacesInv, [Next]_vars, NEW w \in Workers, Process(w)
  PROVE  PlacesInv'
<1>0. /\ exec \in [Jobs -> [AttemptNumbers -> Executions]]
      /\ active \in [Workers -> [Jobs -> 0..AttemptCap]]
      /\ \A k \in Jobs, b \in AttemptNumbers : exec[k][b] \in Executions
  BY DEF QueueInv, TypeOK
<1>1. UNCHANGED history
  BY DEF Process, IssueClaim, ClaimNothing, RequestStop, AbortActive, FinishStop, Crash,
         Restart, ProcessEnds
<1>2. CASE IssueClaim(w) \/ ClaimNothing(w) \/ RequestStop(w) \/ Restart(w)
  <2>1. UNCHANGED <<exec, active>>
    BY <1>2 DEF IssueClaim, ClaimNothing, RequestStop, Restart
  <2> QED BY <1>1, <2>1, PlacesStay DEF Pc
<1>3. CASE AbortActive(w)
  <2>1. \A k \in Jobs, b \in AttemptNumbers : exec'[k][b].pc = exec[k][b].pc
    BY <1>0, <1>3 DEF AbortActive, Executions
  <2>2. UNCHANGED active
    BY <1>3 DEF AbortActive
  <2> QED BY <1>1, <2>1, <2>2, PlacesStay DEF Pc
<1>4. CASE FinishStop(w) \/ Crash(w)
  <2>1. \E state \in {"stopped", "down"} : ProcessEnds(w, state)
    BY <1>4 DEF FinishStop, Crash
  <2>2. /\ exec' = [j \in Jobs |-> [a \in AttemptNumbers |->
                      IF WorkerOf(j, a) = w /\ Pc(j, a) # "none"
                        THEN [NoExec EXCEPT !.pc = "done"] ELSE exec[j][a]]]
        /\ active' = [active EXCEPT ![w] = [j \in Jobs |-> 0]]
    BY <2>1 DEF ProcessEnds
  <2>3. [NoExec EXCEPT !.pc = "done"].pc = "done"
    BY DEF NoExec
  <2>4. \A k \in Jobs, b \in AttemptNumbers :
          Pc(k, b)' = IF WorkerOf(k, b) = w /\ Pc(k, b) # "none" THEN "done" ELSE Pc(k, b)
    BY <2>2, <2>3 DEF Pc
  <2>5. \A k \in Jobs, b \in AttemptNumbers : GoesOn(k, b)
    BY <2>4 DEF GoesOn, TimerPcs, TryCalls, CatchCalls
  <2>6. ASSUME NEW u \in Workers, NEW k \in Jobs, NEW b \in AttemptNumbers, active'[u][k] = b
        PROVE  active[u][k] = b /\ (Pc(k, b)' = "done" => Pc(k, b) = "done")
    <3>1. u # w /\ active[u][k] = b /\ b # 0
      BY <1>0, <2>2, <2>6, QueueAssumption DEF AttemptNumbers
    <3>2. WorkerOf(k, b) = u
      BY <3>1 DEF PlacesInv, EntriesOK
    <3> QED BY <2>4, <3>1, <3>2
  <2>7. \A k \in Jobs, b \in AttemptNumbers :
          history[k][b].status = "NONE" => history'[k][b].status = "NONE"
    BY <1>1
  <2>8. \A u \in Workers, k \in Jobs : EntryStays(u, k)
    BY <2>6 DEF EntryStays
  <2> QED BY <2>5, <2>7, <2>8, PlacesKept
<1> QED BY <1>2, <1>3, <1>4 DEF Process

\* Every step keeps the invariant of the executions.
LEMMA NextPlaces == QueueInv /\ PlacesInv /\ [Next]_vars => PlacesInv'
<1> SUFFICES ASSUME QueueInv, PlacesInv, [Next]_vars PROVE PlacesInv'
  OBVIOUS
<1>0. \A k \in Jobs, b \in AttemptNumbers : exec[k][b] \in Executions
  BY DEF QueueInv, TypeOK
<1>1. ASSUME NEW j \in Jobs, Operator(j) \/ BecomeDue(j) PROVE PlacesInv'
  <2>1. UNCHANGED <<history, exec, active>>
    BY <1>1 DEF Operator, submitJob, requestJobCancellation, manualRetryJob, BecomeDue
  <2> QED BY <2>1, PlacesStay DEF Pc
<1>2. ASSUME NEW j \in Jobs, LeaseLapses(j) PROVE PlacesInv'
  <2>1. UNCHANGED <<history, active>>
    BY <1>2 DEF LeaseLapses
  <2>2. \A k \in Jobs, b \in AttemptNumbers : exec'[k][b].pc = exec[k][b].pc
    <3>1. exec \in [Jobs -> [AttemptNumbers -> Executions]]
      BY DEF QueueInv, TypeOK
    <3> DEFINE late(a) == [exec[j][a] EXCEPT !.early = TRUE,
                             !.hb = IF exec[j][a].hb = "none" THEN "none" ELSE "early"]
    <3>2. \A a \in AttemptNumbers : late(a).pc = exec[j][a].pc
      BY <1>0 DEF Executions
    <3>3. exec' = [exec EXCEPT ![j] = [a \in AttemptNumbers |-> late(a)]]
      BY <1>2 DEF LeaseLapses
    <3> HIDE DEF late
    <3> QED BY <3>1, <3>2, <3>3
  <2> QED BY <2>1, <2>2, PlacesStay DEF Pc
<1>3. ASSUME NEW w \in Workers, NEW j \in Jobs, recoverExpiredJobs(w, j) PROVE PlacesInv'
  <2>1. /\ jobs[j].status \in LeasedStatuses /\ SetAttempt(j, "LEASE_EXPIRED")
        /\ UNCHANGED <<exec, active>>
    BY <1>3 DEF recoverExpiredJobs
  <2>2. \A k \in Jobs, b \in AttemptNumbers :
          history[k][b].status = "NONE" => history'[k][b].status = "NONE"
    BY <2>1, CallHistory DEF ClosedStatuses, AttemptStatuses
  <2> QED BY <2>1, <2>2, PlacesStay DEF Pc
<1>4. CASE UNCHANGED vars
  BY <1>4, PlacesStay DEF vars, Pc
<1> QED
  BY <1>1, <1>2, <1>3, <1>4, ProcessKeepsPlaces, ClaimKeepsPlaces, ExecutionKeepsPlaces
     DEF Next, Clock, UnattendedLapse, StalledLapse

\* At first nothing was claimed and the maps are empty.
LEMMA InitPlaces == Init => PlacesInv
<1> SUFFICES ASSUME Init PROVE PlacesInv
  OBVIOUS
<1>1. \A j \in Jobs, a \in AttemptNumbers :
        history[j][a].status = "NONE" /\ Pc(j, a) = "none"
  BY DEF Init, NoAttempt, NoExec, Pc
<1>2. \A w \in Workers, j \in Jobs : active[w][j] = 0
  BY DEF Init
<1> QED BY <1>1, <1>2 DEF PlacesInv, ExecutionsClaimed, HandlerOnlyAfterStart, EntriesOK,
                          TimerPcs, TryCalls, CatchCalls

\* Whatever crashes or is lost, every execution is of a claimed attempt, and the
\* entries of the maps and the timers are where execute put them.
THEOREM PlacesInvariant == Spec => []PlacesInv
  BY InitPlaces, NextPlaces, QueueInvariant, PTL DEF Spec

\* The promises stop() waits for can settle: every entry of a worker's map is an
\* execution still running in that process.
THEOREM EntriesCorrect == Spec => []ActiveEntriesLive
<1>1. PlacesInv => ActiveEntriesLive
  BY DEF PlacesInv, EntriesOK, ActiveEntriesLive
<1> QED BY <1>1, PlacesInvariant, PTL

\* No handler runs for an attempt that startJob has not recorded as started.
THEOREM HandlerStarted == Spec => []HandlerOnlyAfterStart
<1>1. PlacesInv => HandlerOnlyAfterStart
  BY DEF PlacesInv
<1> QED BY <1>1, PlacesInvariant, PTL

-----------------------------------------------------------------------------
(* Cancellation, once leases end.                                          *)

\* A requested cancellation stays requested until it is carried out, whoever
\* retries, completes, fails or releases the job meanwhile.
LEMMA CancellationStays ==
  ASSUME NEW j \in Jobs
  PROVE  QueueInv /\ [Next]_vars /\ jobs[j].status = "CANCELLATION_REQUESTED" =>
           jobs'[j].status \in {"CANCELLATION_REQUESTED", "CANCELLED"}
<1> SUFFICES ASSUME QueueInv, [Next]_vars, jobs[j].status = "CANCELLATION_REQUESTED",
                    jobs'[j].status # "CANCELLATION_REQUESTED"
             PROVE  jobs'[j].status = "CANCELLED"
  OBVIOUS
<1>1. canTransitionJob(jobs[j].status, jobs'[j].status)
  BY StepStatus
<1> QED BY <1>1 DEF canTransitionJob, transitions, JobStatuses

\* Whatever ends the leases, whether fairness of the recovery or the workers,
\* brings every requested cancellation to CANCELLED: no lease of such a job ends
\* in another way.
THEOREM CancellationFollows == Spec /\ LeasesEnd => CancellationCompletes
<1>1. ASSUME NEW j \in Jobs
      PROVE  Spec /\ LeasesEnd =>
               (jobs[j].status = "CANCELLATION_REQUESTED" ~> jobs[j].status = "CANCELLED")
  <2>1. QueueInv /\ [Next]_vars /\ jobs[j].status = "CANCELLATION_REQUESTED" =>
          (jobs[j].status = "CANCELLATION_REQUESTED" \/ jobs[j].status = "CANCELLED")'
    BY CancellationStays
  <2>2. /\ jobs[j].status = "CANCELLATION_REQUESTED" => jobs[j].status \in LeasedStatuses
        /\ jobs[j].status \notin LeasedStatuses => ~ (jobs[j].status = "CANCELLATION_REQUESTED")
    BY DEF LeasedStatuses
  <2>3. LeasesEnd =>
          (jobs[j].status \in LeasedStatuses ~> jobs[j].status \notin LeasedStatuses)
    BY DEF LeasesEnd
  <2> QED BY <2>1, <2>2, <2>3, QueueInvariant, PTL DEF Spec
<1> QED BY <1>1 DEF CancellationCompletes
=============================================================================

------------------------- MODULE RunPipelineProofs -------------------------
(***************************************************************************)
(* Proofs about RunPipeline, for every number of stages, attempts,         *)
(* generations and jobs.  All but three steps leave the generations of     *)
(* every stage as they are and treat each row alike (RowKept); a new       *)
(* commit, a restart and the queueing of the next stage do not, and are    *)
(* treated apart.                                                          *)
(***************************************************************************)
EXTENDS RunPipeline, TLAPS

USE PipelineAssumption DEF PipelineAssumption

-----------------------------------------------------------------------------
(* The inductive invariant.                                                *)

StageRows ==
  [ status : StageStatuses \cup {"NONE"}, out : {"none", "fresh", "committed"},
    commits : 0..1, basis : 0..GenCap, hasInput : BOOLEAN,
    effects : {"none", "current", "superseded", "displaced"} ]
JobRows ==
  [ status : JobStatuses \cup {"NONE"}, attempts : 0..MaxAttempts, stage : Stages,
    gen : Generations, key : 0..(GenCap + 1), from : 0..GenCap, prev : 0..GenCap ]
Attempts == [pc : Pcs, arg : 0..GenCap]

\* The generations of a stage that exist are those up to its latest.
GenerationsOK ==
  \A s \in Stages, g \in Generations : rows[s][g].status = "NONE" <=> g > latest[s]

\* A job works on a row that exists, and only existing jobs have handlers.
JobsOK ==
  \A i \in JobIds :
    /\ jobs[i].gen <= latest[jobs[i].stage]
    /\ \A a \in AttemptNumbers : Pc(i, a) # "none" => jobs[i].status # "NONE"

Queueing == {"queue", "queueStale"}

\* A handler about to queue the next stage read a generation of it that is
\* still the latest, or that another handler has replaced since.
TargetOK(i, a) ==
  Pc(i, a) \in Queueing =>
    LET s == jobs[i].stage + 1
        n == handler[i][a].arg
    IN  /\ s \in Stages /\ n \in 1..latest[s]
        /\ assertCurrentRunStageJob(i, a) => n = latest[s] \/ rows[s][n].status = "STALE"

RowsInv == SucceededPrefix /\ EffectsOfLatest /\ SupersededAtRest /\ ClosedWhenCancelled

PipelineInv ==
  /\ TypeOK /\ GenerationsOK /\ JobsOK /\ RowsInv
  /\ \A i \in JobIds, a \in AttemptNumbers : TargetOK(i, a)

-----------------------------------------------------------------------------
(* Types.                                                                  *)

\* The tables lead from statuses to statuses.
LEMMA TableStatuses ==
  /\ \A from \in StageStatuses : \A to : canTransitionRunStage(from, to) => to \in StageStatuses
  /\ \A from \in RunStatuses : \A to : canTransitionResearchRun(from, to) => to \in RunStatuses
<1>1. ASSUME NEW from \in StageStatuses PROVE stageTransitions[from] \subseteq StageStatuses
  BY DEF stageTransitions, StageStatuses
<1>2. ASSUME NEW from \in RunStatuses PROVE runTransitions[from] \subseteq RunStatuses
  BY DEF runTransitions, RunStatuses
<1> QED BY <1>1, <1>2 DEF canTransitionRunStage, canTransitionResearchRun

\* "NONE" is not a status.
LEMMA NoStatus == "NONE" \notin StageStatuses \cup JobStatuses
  BY DEF StageStatuses, JobStatuses

\* A new status of the run changes neither its mode nor its type.
LEMMA RunUpdated ==
  ASSUME TypeOK, NEW status \in RunStatuses, SetRun(status)
  PROVE  run' \in [mode : Modes, status : RunStatuses] /\ run'.status = status
  BY DEF TypeOK, SetRun

\* An update of a table of two indices.
LEMMA NestedUpdate ==
  ASSUME NEW S, NEW T, NEW V, NEW f \in [S -> [T -> V]], NEW s \in S, NEW t \in T, NEW v \in V,
         NEW g, g = [f EXCEPT ![s][t] = v]
  PROVE  /\ g \in [S -> [T -> V]]
         /\ \A x \in S, y \in T : g[x][y] = IF x = s /\ y = t THEN v ELSE f[x][y]
  OBVIOUS

\* The rows after the update of one of them.
LEMMA RowUpdated ==
  ASSUME TypeOK, NEW i \in JobIds, NEW row \in StageRows, UpdateRow(i, row)
  PROVE  /\ rows' \in [Stages -> [Generations -> StageRows]]
         /\ Row(i) = rows[jobs[i].stage][jobs[i].gen]
         /\ jobs[i].stage \in Stages /\ jobs[i].gen \in Generations
         /\ \A s \in Stages, g \in Generations :
              rows'[s][g] = IF s = jobs[i].stage /\ g = jobs[i].gen THEN row ELSE rows[s][g]
<1>1. jobs[i].stage \in Stages /\ jobs[i].gen \in Generations
  BY DEF TypeOK
<1>2. rows \in [Stages -> [Generations -> StageRows]]
  BY DEF TypeOK, StageRows
<1>3. rows' = [rows EXCEPT ![jobs[i].stage][jobs[i].gen] = row]
  BY DEF UpdateRow
<1> QED BY <1>1, <1>2, <1>3, NestedUpdate DEF Row

\* The handlers after a step of one of them.
LEMMA HandlerMoved ==
  ASSUME TypeOK, NEW i \in JobIds, NEW a \in AttemptNumbers, NEW pc \in Pcs,
         NEW arg \in 0..GenCap, GotoWith(i, a, pc, arg)
  PROVE  /\ handler' \in [JobIds -> [AttemptNumbers -> Attempts]]
         /\ \A j \in JobIds, b \in AttemptNumbers :
              handler'[j][b] = IF j = i /\ b = a THEN [pc |-> pc, arg |-> arg] ELSE handler[j][b]
<1> DEFINE new == [pc |-> pc, arg |-> arg]
<1>1. new \in Attempts
  BY DEF Attempts
<1>2. handler \in [JobIds -> [AttemptNumbers -> Attempts]]
  BY DEF TypeOK, Attempts
<1>3. handler' = [handler EXCEPT ![i][a] = new]
  BY DEF GotoWith
<1> HIDE DEF new
<1>4. /\ handler' \in [JobIds -> [AttemptNumbers -> Attempts]]
      /\ \A j \in JobIds, b \in AttemptNumbers :
           handler'[j][b] = IF j = i /\ b = a THEN new ELSE handler[j][b]
  BY <1>1, <1>2, <1>3, NestedUpdate
<1> QED BY <1>4 DEF new

\* A row that is read exists: its generation is not beyond the latest.
LEMMA RowExists ==
  ASSUME PipelineInv, NEW i \in JobIds
  PROVE  /\ jobs[i].stage \in Stages /\ jobs[i].gen \in Generations
         /\ Row(i) \in StageRows /\ Row(i).status \in StageStatuses
         /\ jobs[i].gen <= latest[jobs[i].stage]
<1>1. jobs[i].stage \in Stages /\ jobs[i].gen \in Generations
  BY DEF PipelineInv, TypeOK
<1>2. jobs[i].gen <= latest[jobs[i].stage] /\ latest[jobs[i].stage] \in Generations
  BY <1>1 DEF PipelineInv, JobsOK, TypeOK
<1>3. Row(i) \in StageRows
  BY <1>1 DEF PipelineInv, TypeOK, StageRows, Row
<1>4. Row(i).status # "NONE"
  BY <1>1, <1>2 DEF PipelineInv, GenerationsOK, Row, Generations
<1> QED BY <1>1, <1>2, <1>3, <1>4 DEF StageRows

-----------------------------------------------------------------------------
(* Steps that treat every row alike.                                       *)

Stopped == {"CANCELLED", "COMPLETED", "FAILED"}

\* Another run of the project may take the place of a row's effects.
EffectsKept(s, g) ==
  \/ rows'[s][g].effects = rows[s][g].effects
  \/ rows[s][g].effects = "current" /\ rows'[s][g].effects = "displaced"

\* What a row may go through in a step that makes no generation and commits
\* nothing: only the row of the latest generation is opened.
RowKept(s, g) ==
  LET from == rows[s][g].status
      to == rows'[s][g].status
  IN  /\ EffectsKept(s, g)
      /\ \/ to = from
         \/ /\ from \in StageStatuses \ {"SUCCEEDED"} /\ to # "SUCCEEDED"
            /\ canTransitionRunStage(from, to)
            /\ to \in OpenStages \/ from = "STALE" => g = latest[s]
            /\ to \in OpenStages => run'.status \notin Stopped

AllClosed == \A s \in Stages, g \in Generations : rows'[s][g].status \notin OpenStages

\* The run and the stage rows move along their tables, and a stage of a stopped
\* run is not executed: the two action properties, as one step.
RunMoves == run'.status = run.status \/ canTransitionResearchRun(run.status, run'.status)
RowMoves(s, g) ==
  LET from == rows[s][g].status
      to == rows'[s][g].status
  IN  /\ IF from = "NONE" THEN to \in {"NONE", "QUEUED"}
                          ELSE to = from \/ canTransitionRunStage(from, to)
      /\ to \in {"QUEUED", "RUNNING", "SUCCEEDED"} /\ to # from => run'.status \notin Stopped
Moves == RunMoves /\ \A s \in Stages, g \in Generations : RowMoves(s, g)

\* The run and its rows after such a step.
RowsSettled ==
  /\ run' \in [mode : Modes, status : RunStatuses]
  /\ rows' \in [Stages -> [Generations -> StageRows]]
  /\ \A s \in Stages, g \in Generations : RowKept(s, g)
  /\ run'.status = "CANCELLED" => AllClosed
  /\ RunMoves

\* Rows that are kept keep the invariants about rows.
LEMMA RowsStep ==
  ASSUME PipelineInv, RowsSettled, latest' = latest
  PROVE  GenerationsOK' /\ RowsInv' /\ Moves
<1>1. /\ GenerationsOK /\ SucceededPrefix /\ EffectsOfLatest /\ SupersededAtRest
      /\ latest \in [Stages -> Generations]
  BY DEF PipelineInv, RowsInv, TypeOK
<1>2. ASSUME NEW s \in Stages, NEW g \in Generations
      PROVE  /\ EffectsKept(s, g)
             /\ rows'[s][g].status = "SUCCEEDED" <=> rows[s][g].status = "SUCCEEDED"
             /\ rows'[s][g].status = "NONE" <=> rows[s][g].status = "NONE"
             /\ g < latest[s] => rows'[s][g].status \notin OpenStages
  <2>1. RowKept(s, g)
    BY DEF RowsSettled
  <2>2. g < latest[s] => g # latest[s] /\ rows[s][g].status \notin OpenStages
    BY <1>1 DEF SupersededAtRest, Generations
  <2> QED BY <2>1, <2>2, TableStatuses, NoStatus DEF RowKept
<1>3. GenerationsOK'
  BY <1>1, <1>2 DEF GenerationsOK
<1>4. SucceededPrefix'
  <2> SUFFICES ASSUME NEW s \in Stages, s > 1, Latest(s)'.status = "SUCCEEDED"
               PROVE  Latest(s - 1)'.status = "SUCCEEDED"
    BY DEF SucceededPrefix
  <2>1. s - 1 \in Stages /\ latest[s] \in Generations /\ latest[s - 1] \in Generations
    BY <1>1 DEF Stages
  <2>2. Latest(s).status = "SUCCEEDED"
    BY <1>2, <2>1 DEF Latest
  <2>3. Latest(s - 1).status = "SUCCEEDED"
    BY <1>1, <2>2 DEF SucceededPrefix
  <2> QED BY <1>2, <2>1, <2>3 DEF Latest
<1>5. EffectsOfLatest'
  BY <1>1, <1>2 DEF EffectsOfLatest, EffectsKept
<1>6. SupersededAtRest' /\ ClosedWhenCancelled'
  BY <1>2 DEF SupersededAtRest, ClosedWhenCancelled, RowsSettled, AllClosed
<1>7. ASSUME NEW s \in Stages, NEW g \in Generations PROVE RowMoves(s, g)
  <2>1. RowKept(s, g)
    BY DEF RowsSettled
  <2> QED BY <2>1, TableStatuses, NoStatus DEF RowKept, RowMoves, OpenStages
<1> QED BY <1>3, <1>4, <1>5, <1>6, <1>7 DEF RowsInv, Moves, RowsSettled

\* A handler that is about to queue the next stage was so before, in the same
\* attempt of a job that has not changed hands, or has just read what to queue.
TargetKept(i, a) ==
  handler'[i][a].pc \in Queueing =>
    /\ jobs'[i].stage = jobs[i].stage
    /\ \/ handler'[i][a] = handler[i][a] /\ (assertCurrentRunStageJob(i, a)' => assertCurrentRunStageJob(i, a))
       \/ /\ jobs[i].stage + 1 \in Stages
          /\ handler'[i][a].arg = latest[jobs[i].stage + 1]

\* Steps that keep the rows and the targets keep the invariant.
LEMMA KeptStep ==
  ASSUME PipelineInv, RowsSettled, latest' = latest,
         jobs' \in [JobIds -> JobRows], handler' \in [JobIds -> [AttemptNumbers -> Attempts]],
         JobsOK', \A i \in JobIds, a \in AttemptNumbers : TargetKept(i, a)
  PROVE  PipelineInv' /\ Moves
<1>1. latest \in [Stages -> Generations] /\ \A i \in JobIds, a \in AttemptNumbers : TargetOK(i, a)
  BY DEF PipelineInv, TypeOK
<1>2. TypeOK'
  BY <1>1 DEF TypeOK, RowsSettled, StageRows, JobRows, Attempts
<1>3. ASSUME NEW i \in JobIds, NEW a \in AttemptNumbers PROVE TargetOK(i, a)'
  <2> SUFFICES ASSUME handler'[i][a].pc \in Queueing
               PROVE  LET s == jobs'[i].stage + 1
                          n == handler'[i][a].arg
                      IN  /\ s \in Stages /\ n \in 1..latest[s]
                          /\ assertCurrentRunStageJob(i, a)' => n = latest[s] \/ rows'[s][n].status = "STALE"
    BY DEF TargetOK, Pc
  <2> DEFINE s == jobs[i].stage + 1
             n == handler'[i][a].arg
  <2>1. jobs'[i].stage = jobs[i].stage
    BY DEF TargetKept
  <2>2. CASE s \in Stages /\ n = latest[s]
    <3>1. latest[s] \in 1..latest[s]
      BY <1>1, <2>2 DEF Generations
    <3> QED BY <2>1, <2>2, <3>1
  <2>3. CASE /\ handler'[i][a] = handler[i][a]
             /\ assertCurrentRunStageJob(i, a)' => assertCurrentRunStageJob(i, a)
    <3>1. /\ s \in Stages /\ n \in 1..latest[s]
          /\ assertCurrentRunStageJob(i, a) => n = latest[s] \/ rows[s][n].status = "STALE"
      BY <1>1, <2>3 DEF TargetOK, Pc
    <3>2. ASSUME rows[s][n].status = "STALE", n # latest[s] PROVE rows'[s][n].status = "STALE"
      <4>1. n \in Generations
        BY <1>1, <3>1 DEF Generations
      <4>2. RowKept(s, n)
        BY <3>1, <4>1 DEF RowsSettled
      <4> QED BY <3>2, <4>2 DEF RowKept
    <3> HIDE DEF s, n
    <3> QED BY <2>1, <2>3, <3>1, <3>2 DEF s, n
  <2> QED BY <2>2, <2>3 DEF TargetKept
<1> QED BY <1>2, <1>3, RowsStep DEF PipelineInv

\* A transaction or a read of a handler, which changes no job.
LEMMA HandlerStep ==
  ASSUME PipelineInv, RowsSettled, UNCHANGED <<latest, jobs>>, NEW i \in JobIds, NEW a \in AttemptNumbers,
         Pc(i, a) # "none", NEW pc \in Pcs, NEW arg \in 0..GenCap, GotoWith(i, a, pc, arg),
         pc \in Queueing => jobs[i].stage + 1 \in Stages /\ arg = latest[jobs[i].stage + 1]
  PROVE  PipelineInv' /\ Moves
<1>1. TypeOK /\ JobsOK
  BY DEF PipelineInv
<1>2. /\ handler' \in [JobIds -> [AttemptNumbers -> Attempts]]
      /\ \A j \in JobIds, b \in AttemptNumbers :
           handler'[j][b] = IF j = i /\ b = a THEN [pc |-> pc, arg |-> arg] ELSE handler[j][b]
  BY <1>1, HandlerMoved
<1>3. jobs' \in [JobIds -> JobRows]
  BY <1>1 DEF TypeOK, JobRows
<1>4. JobsOK'
  BY <1>1, <1>2 DEF JobsOK, Pc
<1>5. ASSUME NEW j \in JobIds, NEW b \in AttemptNumbers PROVE TargetKept(j, b)
  <2>1. CASE j = i /\ b = a
    BY <1>2, <2>1 DEF TargetKept
  <2>2. CASE ~(j = i /\ b = a)
    BY <1>2, <2>2 DEF TargetKept, assertCurrentRunStageJob
  <2> QED BY <2>1, <2>2
<1> QED BY <1>2, <1>3, <1>4, <1>5, KeptStep

\* A step of the queue or of the operator, which moves no handler but to a
\* place outside the queueing of stages.
LEMMA QueueStep ==
  ASSUME PipelineInv, RowsSettled, latest' = latest,
         jobs' \in [JobIds -> JobRows], handler' \in [JobIds -> [AttemptNumbers -> Attempts]],
         \A i \in JobIds :
           \/ jobs'[i].stage = jobs[i].stage /\ jobs'[i].gen = jobs[i].gen /\ jobs'[i].status # "NONE"
           \/ jobs'[i] = jobs[i]
           \/ /\ jobs[i].status = "NONE" /\ jobs'[i].status # "NONE"
              /\ jobs'[i].gen <= latest[jobs'[i].stage],
         \A i \in JobIds, a \in AttemptNumbers :
           /\ handler'[i][a].pc # "none" => handler[i][a].pc # "none" \/ jobs'[i].status # "NONE"
           /\ handler'[i][a].pc \in Queueing => handler'[i][a] = handler[i][a]
           /\ assertCurrentRunStageJob(i, a)' =>
                assertCurrentRunStageJob(i, a) \/ handler'[i][a].pc \notin Queueing
  PROVE  PipelineInv' /\ Moves
<1>1. JobsOK
  BY DEF PipelineInv
<1>2. JobsOK'
  BY <1>1 DEF JobsOK, Pc
<1>3. ASSUME NEW i \in JobIds, NEW a \in AttemptNumbers PROVE TargetKept(i, a)
  <2> SUFFICES ASSUME handler'[i][a].pc \in Queueing PROVE jobs'[i].stage = jobs[i].stage
    BY DEF TargetKept
  <2>1. jobs[i].status # "NONE"
    BY <1>1 DEF JobsOK, Pc, Queueing
  <2> QED BY <2>1
<1> QED BY <1>2, <1>3, KeptStep

-----------------------------------------------------------------------------
(* The transactions of a handler that write one row, or none.              *)

\* A step that writes no row, and only the run perhaps.
LEMMA SameRows ==
  ASSUME PipelineInv, rows' = rows,
         run' \in [mode : Modes, status : RunStatuses], RunMoves,
         run'.status = "CANCELLED" => run.status = "CANCELLED"
  PROVE  RowsSettled
<1>1. rows \in [Stages -> [Generations -> StageRows]] /\ ClosedWhenCancelled
  BY DEF PipelineInv, TypeOK, StageRows, RowsInv
<1> QED BY <1>1 DEF RowsSettled, RowKept, EffectsKept, AllClosed, ClosedWhenCancelled

\* A step that writes neither the run nor a stage row.
LEMMA NothingWritten ==
  ASSUME PipelineInv, UNCHANGED <<run, rows>>
  PROVE  RowsSettled
<1>1. run \in [mode : Modes, status : RunStatuses]
  BY DEF PipelineInv, TypeOK
<1> QED BY <1>1, SameRows DEF RunMoves

\* A job's row is written, and the run perhaps with it.
LEMMA OneRow ==
  ASSUME PipelineInv, NEW i \in JobIds, NEW row \in StageRows, UpdateRow(i, row),
         row.effects = Row(i).effects,
         \/ row.status = Row(i).status
         \/ /\ Row(i).status # "SUCCEEDED" /\ row.status # "SUCCEEDED"
            /\ canTransitionRunStage(Row(i).status, row.status)
            /\ Row(i).status # "STALE"
            /\ row.status \in OpenStages =>
                 Row(i).status \in OpenStages /\ run'.status \notin Stopped,
         run' \in [mode : Modes, status : RunStatuses], RunMoves,
         run'.status = "CANCELLED" => run.status = "CANCELLED"
  PROVE  RowsSettled
<1>1. /\ rows' \in [Stages -> [Generations -> StageRows]]
      /\ Row(i) = rows[jobs[i].stage][jobs[i].gen]
      /\ jobs[i].stage \in Stages /\ jobs[i].gen \in Generations
      /\ \A s \in Stages, g \in Generations :
           rows'[s][g] = IF s = jobs[i].stage /\ g = jobs[i].gen THEN row ELSE rows[s][g]
  BY RowUpdated DEF PipelineInv
<1>2. Row(i).status \in StageStatuses /\ jobs[i].gen <= latest[jobs[i].stage]
  BY RowExists
<1>3. Row(i).status \in OpenStages => jobs[i].gen = latest[jobs[i].stage]
  <2>1. latest[jobs[i].stage] \in Generations
    BY <1>1 DEF PipelineInv, TypeOK
  <2> QED BY <1>1, <1>2, <2>1 DEF PipelineInv, RowsInv, SupersededAtRest, Generations
<1>4. ASSUME NEW s \in Stages, NEW g \in Generations PROVE RowKept(s, g)
  <2>1. CASE s = jobs[i].stage /\ g = jobs[i].gen
    BY <1>1, <1>2, <1>3, <2>1 DEF RowKept, EffectsKept
  <2>2. CASE ~(s = jobs[i].stage /\ g = jobs[i].gen)
    BY <1>1, <2>2 DEF RowKept, EffectsKept
  <2> QED BY <2>1, <2>2
<1>5. ASSUME run'.status = "CANCELLED" PROVE AllClosed
  BY <1>1, <1>5 DEF PipelineInv, RowsInv, ClosedWhenCancelled, AllClosed, Stopped
<1> QED BY <1>1, <1>4, <1>5 DEF RowsSettled

\* loadBundle, reloadBundle and the other steps that only move the handler.
LEMMA ReadStep ==
  ASSUME PipelineInv, UNCHANGED <<run, rows, latest, jobs>>,
         NEW i \in JobIds, NEW a \in AttemptNumbers, Pc(i, a) # "none",
         NEW pc \in Pcs, NEW arg \in 0..GenCap, GotoWith(i, a, pc, arg), pc \notin Queueing
  PROVE  PipelineInv' /\ Moves
BY NothingWritten, HandlerStep

\* startRunStage runs a queued row, and so the latest of its stage.
LEMMA StartStep ==
  ASSUME PipelineInv, NEW i \in JobIds, NEW a \in AttemptNumbers, startRunStage(i, a)
  PROVE  PipelineInv' /\ Moves
<1> DEFINE row == [Row(i) EXCEPT !.status = "RUNNING"]
<1>1. /\ Row(i) \in StageRows /\ Row(i).status \in StageStatuses
      /\ run \in [mode : Modes, status : RunStatuses] /\ TypeOK
  BY RowExists DEF PipelineInv, TypeOK
<1>2. /\ UpdateRow(i, row) /\ SetRun("RUNNING") /\ Goto(i, a, "reload") /\ UNCHANGED <<latest, jobs>>
      /\ Row(i).status = "RUNNING" \/ canTransitionRunStage(Row(i).status, "RUNNING")
      /\ run.status \in {"QUEUED", "RUNNING"} /\ Pc(i, a) # "none"
  BY DEF startRunStage, StartPasses
<1>3. row \in StageRows /\ row.effects = Row(i).effects /\ row.status = "RUNNING"
  BY <1>1 DEF StageRows, StageStatuses
<1> HIDE DEF row
<1>4. Row(i).status \in {"RUNNING", "QUEUED"}
  BY <1>1, <1>2 DEF canTransitionRunStage, stageTransitions, StageStatuses
<1>5. run' \in [mode : Modes, status : RunStatuses] /\ run'.status = "RUNNING"
  BY <1>1, <1>2, RunUpdated DEF RunStatuses
<1>6. RunMoves
  BY <1>2, <1>5 DEF RunMoves, canTransitionResearchRun, runTransitions, RunStatuses
<1>7. RowsSettled
  BY <1>2, <1>3, <1>4, <1>5, <1>6, OneRow DEF OpenStages, Stopped
<1>8. "reload" \in Pcs /\ "reload" \notin Queueing /\ 0 \in 0..GenCap
  BY DEF Pcs, Queueing
<1> QED BY <1>2, <1>7, <1>8, HandlerStep DEF Goto

\* The reads of a handler, a provider that fails and a refused transaction.
LEMMA ReadOnlyStep ==
  ASSUME PipelineInv, NEW i \in JobIds, NEW a \in AttemptNumbers,
         loadBundle(i, a) \/ reloadBundle(i, a) \/ AdvanceFenced(i, a) \/ ProviderFails(i, a)
           \/ HandlerRefused(i, a)
  PROVE  PipelineInv' /\ Moves
<1>1. UNCHANGED <<run, rows, latest, jobs>> /\ Pc(i, a) # "none"
  BY DEF loadBundle, reloadBundle, AdvanceFenced, ProviderFails, HandlerRefused, FencedPcs, BoundaryOf
<1>2. \E pc \in Pcs \ Queueing, arg \in 0..GenCap : GotoWith(i, a, pc, arg)
  <2>1. \A pc \in {"advance", "start", "block", "failRetryable", "failFatal", "route", "provider", "commit"} :
          pc \in Pcs \ Queueing
    BY DEF Pcs, FencedPcs, Queueing
  <2>2. 0 \in 0..GenCap /\ 1 \in 0..GenCap
    OBVIOUS
  <2>3. CASE loadBundle(i, a) \/ AdvanceFenced(i, a) \/ ProviderFails(i, a) \/ HandlerRefused(i, a)
    BY <2>1, <2>2, <2>3 DEF loadBundle, AdvanceFenced, ProviderFails, HandlerRefused, Goto
  <2>4. CASE reloadBundle(i, a)
    <3>1. jobs[i].stage \in Stages /\ latest \in [Stages -> Generations]
      BY DEF PipelineInv, TypeOK
    <3>2. (IF jobs[i].stage = 1 THEN 0 ELSE latest[jobs[i].stage - 1]) \in 0..GenCap
      BY <3>1 DEF Stages, Generations
    <3>3. (IF Row(i).out = "committed" THEN 1 ELSE 0) \in 0..GenCap
      OBVIOUS
    <3> QED BY <2>1, <2>2, <2>4, <3>2, <3>3 DEF reloadBundle, Goto
  <2> QED BY <2>3, <2>4
<1> QED BY <1>1, <1>2, ReadStep

\* recordRunStageProviderAttempt stores the output in a running row.
LEMMA ProviderStep ==
  ASSUME PipelineInv, NEW i \in JobIds, NEW a \in AttemptNumbers, ProviderReturns(i, a)
  PROVE  PipelineInv' /\ Moves
<1> DEFINE row == [Row(i) EXCEPT !.out = "fresh", !.basis = handler[i][a].arg]
<1>1. /\ Row(i) \in StageRows /\ run \in [mode : Modes, status : RunStatuses]
      /\ handler[i][a].arg \in 0..GenCap
  BY RowExists DEF PipelineInv, TypeOK
<1>2. /\ UpdateRow(i, row) /\ UNCHANGED <<run, latest, jobs>> /\ Pc(i, a) # "none"
      /\ \E pc \in {"commit", "block"} : GotoWith(i, a, pc, 0)
  BY DEF ProviderReturns, Goto
<1>3. row \in StageRows /\ row.effects = Row(i).effects /\ row.status = Row(i).status
  BY <1>1 DEF StageRows
<1> HIDE DEF row
<1>4. RowsSettled
  BY <1>1, <1>2, <1>3, OneRow DEF RunMoves
<1>5. \A pc \in {"commit", "block"} : pc \in Pcs /\ pc \notin Queueing
  BY DEF Pcs, FencedPcs, Queueing
<1>6. 0 \in 0..GenCap
  OBVIOUS
<1> QED BY <1>2, <1>4, <1>5, <1>6, HandlerStep

\* blockRunStage: no succeeded and no stale row is blocked.
LEMMA BlockStep ==
  ASSUME PipelineInv, NEW i \in JobIds, NEW a \in AttemptNumbers, blockRunStage(i, a)
  PROVE  PipelineInv' /\ Moves
<1> DEFINE row == [Row(i) EXCEPT !.status = "BLOCKED"]
<1>1. /\ Row(i) \in StageRows /\ Row(i).status \in StageStatuses
      /\ run \in [mode : Modes, status : RunStatuses] /\ TypeOK
  BY RowExists DEF PipelineInv, TypeOK
<1>2. /\ UpdateRow(i, row) /\ SetRun("BLOCKED") /\ GotoWith(i, a, "failFatal", 0)
      /\ UNCHANGED <<latest, jobs>> /\ Pc(i, a) # "none"
      /\ Row(i).status = "BLOCKED" \/ canTransitionRunStage(Row(i).status, "BLOCKED")
      /\ run.status = "BLOCKED" \/ canTransitionResearchRun(run.status, "BLOCKED")
  BY DEF blockRunStage, BlockPasses, Goto
<1>3. row \in StageRows /\ row.effects = Row(i).effects /\ row.status = "BLOCKED"
  BY <1>1 DEF StageRows, StageStatuses
<1> HIDE DEF row
<1>4. Row(i).status \notin {"SUCCEEDED", "STALE"}
  BY <1>1, <1>2 DEF canTransitionRunStage, stageTransitions, StageStatuses
<1>5. run' \in [mode : Modes, status : RunStatuses] /\ run'.status = "BLOCKED"
  BY <1>1, <1>2, RunUpdated DEF RunStatuses
<1>6. RunMoves
  BY <1>2, <1>5 DEF RunMoves
<1>7. RowsSettled
  BY <1>2, <1>3, <1>4, <1>5, <1>6, OneRow DEF OpenStages
<1>8. "failFatal" \in Pcs /\ "failFatal" \notin Queueing /\ 0 \in 0..GenCap
  BY DEF Pcs, Queueing
<1> QED BY <1>2, <1>7, <1>8, HandlerStep

\* advanceResearchPipelineStage reads which stage comes next.
LEMMA RouteStep ==
  ASSUME PipelineInv, NEW i \in JobIds, NEW a \in AttemptNumbers,
         advanceResearchPipelineStage(i, a)
  PROVE  PipelineInv' /\ Moves
<1>1. UNCHANGED <<run, rows, latest, jobs>> /\ Pc(i, a) # "none"
  BY DEF advanceResearchPipelineStage
<1>2. jobs[i].stage \in Stages /\ latest \in [Stages -> Generations]
  BY DEF PipelineInv, TypeOK
<1>3. CASE \E pc \in {"failRetryable", "returned", "toBlocked", "toApproval", "toQa", "toPaused"} :
             GotoWith(i, a, pc, 0)
  <2>1. \A pc \in {"failRetryable", "returned", "toBlocked", "toApproval", "toQa", "toPaused"} :
          pc \in Pcs /\ pc \notin Queueing
    BY DEF Pcs, FencedPcs, BoundaryOf, Queueing
  <2>2. 0 \in 0..GenCap
    OBVIOUS
  <2> QED BY <1>1, <1>3, <2>1, <2>2, ReadStep
<1>4. CASE /\ jobs[i].stage # StageCount
           /\ \E pc \in Queueing : GotoWith(i, a, pc, latest[jobs[i].stage + 1])
  <2>1. jobs[i].stage + 1 \in Stages
    BY <1>2, <1>4 DEF Stages
  <2>2. latest[jobs[i].stage + 1] \in 0..GenCap
    BY <1>2, <2>1 DEF Generations
  <2>3. \A pc \in Queueing : pc \in Pcs
    BY DEF Queueing, Pcs, FencedPcs
  <2> QED BY <1>1, <1>4, <2>1, <2>2, <2>3, NothingWritten, HandlerStep
<1> QED BY <1>3, <1>4 DEF advanceResearchPipelineStage, Goto, Queueing

\* setResearchRunBoundary writes the run only.
LEMMA BoundaryStep ==
  ASSUME PipelineInv, NEW i \in JobIds, NEW a \in AttemptNumbers, setResearchRunBoundary(i, a)
  PROVE  PipelineInv' /\ Moves
<1> DEFINE status == BoundaryOf[Pc(i, a)]
<1>1. /\ UNCHANGED <<rows, latest, jobs>> /\ SetRun(status) /\ GotoWith(i, a, "returned", 0)
      /\ run.status = status \/ canTransitionResearchRun(run.status, status)
      /\ Pc(i, a) \in DOMAIN BoundaryOf
  BY DEF setResearchRunBoundary, BoundaryPasses, Goto
<1>2. status \in {"PAUSED", "QA_REQUIRED", "APPROVAL_REQUIRED", "BLOCKED"} /\ Pc(i, a) # "none"
  BY <1>1 DEF BoundaryOf
<1> HIDE DEF status
<1>3. run' \in [mode : Modes, status : RunStatuses] /\ run'.status = status
  BY <1>1, <1>2, RunUpdated DEF RunStatuses, PipelineInv
<1>4. RowsSettled
  BY <1>1, <1>2, <1>3, SameRows DEF RunMoves
<1>5. "returned" \in Pcs /\ "returned" \notin Queueing /\ 0 \in 0..GenCap
  BY DEF Pcs, Queueing
<1> QED BY <1>1, <1>2, <1>4, <1>5, HandlerStep

-----------------------------------------------------------------------------
(* The commit of a stage.                                                  *)

\* A new commit makes the running row, the latest of its stage, the one whose
\* effects are current; the row of the stage before has succeeded.
LEMMA CommitRows ==
  ASSUME PipelineInv, NEW i \in JobIds, NEW a \in AttemptNumbers, commitRunStage(i, a),
         Row(i).commits = 0
  PROVE  /\ run' \in [mode : Modes, status : RunStatuses]
         /\ rows' \in [Stages -> [Generations -> StageRows]]
         /\ GenerationsOK' /\ RowsInv' /\ Moves
         /\ \A s \in Stages, g \in Generations :
              rows[s][g].status = "STALE" => rows'[s][g].status = "STALE"
<1> DEFINE s == jobs[i].stage
           n == jobs[i].gen
           row == [Row(i) EXCEPT !.status = "SUCCEEDED", !.commits = @ + 1,
                                 !.out = "committed", !.effects = "current"]
<1>1. /\ s \in Stages /\ n \in Generations /\ Row(i) \in StageRows
      /\ Row(i) = rows[s][n] /\ n <= latest[s]
      /\ rows \in [Stages -> [Generations -> StageRows]] /\ latest \in [Stages -> Generations]
      /\ run \in [mode : Modes, status : RunStatuses] /\ TypeOK
  BY RowExists DEF PipelineInv, TypeOK, StageRows, Row
<1>2. /\ rows' = [rows EXCEPT ![s] = [g \in Generations |->
                    IF g = n THEN [rows[s][g] EXCEPT !.status = "SUCCEEDED", !.commits = @ + 1,
                                     !.out = "committed", !.effects = "current"]
                    ELSE Superseded(rows[s][g])]]
      /\ SetRun(CommitTarget(i))
  <2>1. ~(Row(i).commits > 0)
    OBVIOUS
  <2> QED BY <2>1 DEF commitRunStage
<1>14. /\ latest' = latest /\ rows[s][n].status = "RUNNING" /\ assertDependenciesSucceeded(s)
       /\ run.status = CommitTarget(i) \/ canTransitionResearchRun(run.status, CommitTarget(i))
  <2>1. ~(Row(i).commits > 0)
    OBVIOUS
  <2> QED BY <2>1 DEF commitRunStage, CommitPasses, Row
<1>3. row \in StageRows /\ row.status = "SUCCEEDED" /\ row.effects = "current"
  <2>1. Row(i).commits + 1 \in 0..1
    OBVIOUS
  <2> QED BY <1>1, <2>1 DEF StageRows, StageStatuses
<1>4. \A t \in Stages, g \in Generations :
         /\ Superseded(rows[t][g]) \in StageRows
         /\ Superseded(rows[t][g]).status = rows[t][g].status
         /\ Superseded(rows[t][g]).effects # "current"
  <2>1. ASSUME NEW r \in StageRows
        PROVE  Superseded(r) \in StageRows /\ Superseded(r).status = r.status
               /\ Superseded(r).effects # "current"
    BY DEF Superseded, StageRows
  <2> QED BY <1>1, <2>1
<1>5. \A t \in Stages, g \in Generations :
         rows'[t][g] = IF t = s THEN IF g = n THEN row ELSE Superseded(rows[s][g]) ELSE rows[t][g]
  BY <1>1, <1>2
<1> HIDE DEF row
<1>6. rows' \in [Stages -> [Generations -> StageRows]]
  <2>1. [g \in Generations |-> IF g = n THEN row ELSE Superseded(rows[s][g])]
          \in [Generations -> StageRows]
    BY <1>1, <1>3, <1>4
  <2>2. rows' = [rows EXCEPT ![s] = [g \in Generations |-> IF g = n THEN row ELSE Superseded(rows[s][g])]]
    BY <1>1, <1>2 DEF row
  <2> QED BY <1>1, <2>1, <2>2
<1>7. run' \in [mode : Modes, status : RunStatuses] /\ run'.status \in {"QA_REQUIRED", "RUNNING"} /\ RunMoves
  BY <1>1, <1>2, <1>14, RunUpdated DEF CommitTarget, RunStatuses, RunMoves
<1>8. n = latest[s]
  BY <1>1, <1>14 DEF PipelineInv, RowsInv, SupersededAtRest, OpenStages, Generations
<1>9. \A t \in Stages, g \in Generations :
         /\ t = s /\ g = n => rows[t][g].status = "RUNNING" /\ rows'[t][g].status = "SUCCEEDED"
         /\ ~(t = s /\ g = n) => rows'[t][g].status = rows[t][g].status
  BY <1>1, <1>3, <1>4, <1>5, <1>14
<1>10. GenerationsOK' /\ SupersededAtRest' /\ ClosedWhenCancelled'
  <2>1. GenerationsOK'
    BY <1>8, <1>9, <1>14 DEF PipelineInv, GenerationsOK
  <2>2. SupersededAtRest'
    BY <1>9, <1>14 DEF PipelineInv, RowsInv, SupersededAtRest, OpenStages
  <2>3. ClosedWhenCancelled'
    BY <1>7 DEF ClosedWhenCancelled
  <2> QED BY <2>1, <2>2, <2>3
<1>11. EffectsOfLatest'
  <2>1. EffectsOfLatest
    BY DEF PipelineInv, RowsInv
  <2> QED BY <1>3, <1>4, <1>5, <1>8, <1>9, <1>14, <2>1 DEF EffectsOfLatest
<1>12. SucceededPrefix'
  <2> SUFFICES ASSUME NEW t \in Stages, t > 1, Latest(t)'.status = "SUCCEEDED"
               PROVE  Latest(t - 1)'.status = "SUCCEEDED"
    BY DEF SucceededPrefix
  <2>1. t - 1 \in Stages /\ latest[t] \in Generations /\ latest[t - 1] \in Generations
    BY <1>1 DEF Stages
  <2>2. Latest(t - 1).status = "SUCCEEDED"
    <3>1. CASE t = s
      <4>1. (t - 1) + 1 = s
        BY <3>1 DEF Stages
      <4> QED BY <1>14, <2>1, <4>1 DEF assertDependenciesSucceeded
    <3>2. CASE t # s
      <4>1. Latest(t).status = "SUCCEEDED"
        BY <1>9, <1>14, <2>1, <3>2 DEF Latest
      <4> QED BY <4>1 DEF PipelineInv, RowsInv, SucceededPrefix
    <3> QED BY <3>1, <3>2
  <2> QED BY <1>9, <1>14, <2>1, <2>2 DEF Latest
<1>13. Moves
  BY <1>7, <1>9, NoStatus DEF Moves, RowMoves, canTransitionRunStage, stageTransitions, StageStatuses, Stopped
<1> QED BY <1>6, <1>7, <1>9, <1>10, <1>11, <1>12, <1>13 DEF RowsInv

\* commitRunStage: a replayed commit writes nothing.
LEMMA CommitStep ==
  ASSUME PipelineInv, NEW i \in JobIds, NEW a \in AttemptNumbers, commitRunStage(i, a)
  PROVE  PipelineInv' /\ Moves
<1>1. /\ UNCHANGED <<latest, jobs>> /\ GotoWith(i, a, "advance", 0) /\ Pc(i, a) # "none"
      /\ TypeOK /\ JobsOK /\ Row(i) \in StageRows
  BY RowExists DEF commitRunStage, Goto, PipelineInv
<1>2. "advance" \in Pcs /\ "advance" \notin Queueing /\ 0 \in 0..GenCap
  BY DEF Pcs, FencedPcs, Queueing
<1>3. CASE Row(i).commits > 0
  <2>1. UNCHANGED <<run, rows>>
    BY <1>3 DEF commitRunStage
  <2> QED BY <1>1, <1>2, <2>1, ReadStep
<1>4. CASE Row(i).commits = 0
  <2>1. /\ run' \in [mode : Modes, status : RunStatuses]
        /\ rows' \in [Stages -> [Generations -> StageRows]]
        /\ GenerationsOK' /\ RowsInv' /\ Moves
        /\ \A s \in Stages, g \in Generations :
             rows[s][g].status = "STALE" => rows'[s][g].status = "STALE"
    BY <1>4, CommitRows
  <2>2. /\ handler' \in [JobIds -> [AttemptNumbers -> Attempts]]
        /\ \A j \in JobIds, b \in AttemptNumbers :
             handler'[j][b] = IF j = i /\ b = a THEN [pc |-> "advance", arg |-> 0] ELSE handler[j][b]
    BY <1>1, <1>2, HandlerMoved
  <2>3. TypeOK'
    BY <1>1, <2>1, <2>2 DEF TypeOK, StageRows, Attempts
  <2>4. JobsOK'
    BY <1>1, <2>2 DEF JobsOK, Pc
  <2>5. ASSUME NEW j \in JobIds, NEW b \in AttemptNumbers PROVE TargetOK(j, b)'
    <3> SUFFICES ASSUME handler'[j][b].pc \in Queueing PROVE TargetOK(j, b)'
      BY DEF TargetOK, Pc
    <3>1. handler'[j][b] = handler[j][b] /\ TargetOK(j, b) /\ latest \in [Stages -> Generations]
      BY <1>1, <1>2, <2>2 DEF PipelineInv, TypeOK
    <3>2. handler[j][b].arg \in 1..latest[jobs[j].stage + 1] => handler[j][b].arg \in Generations
      BY <1>1, <3>1 DEF TypeOK, TargetOK, Generations, Pc
    <3> QED BY <1>1, <2>1, <3>1, <3>2 DEF TargetOK, Pc, assertCurrentRunStageJob
  <2> QED BY <2>1, <2>3, <2>4, <2>5 DEF PipelineInv
<1>5. Row(i).commits \in 0..1
  BY <1>1 DEF StageRows
<1> QED BY <1>3, <1>4, <1>5

-----------------------------------------------------------------------------
(* Submitting a job.                                                       *)

\* A submitted job is a new row that waits.
LEMMA Submitted ==
  ASSUME TypeOK, NEW k \in JobIds, Fresh(k), NEW job \in JobRows, job.status = "QUEUED",
         jobs' = [jobs EXCEPT ![k] = job]
  PROVE  /\ jobs' \in [JobIds -> JobRows]
         /\ jobs[k].status = "NONE" /\ jobs'[k] = job
         /\ \A j \in JobIds : j # k => jobs'[j] = jobs[j]
         /\ \A j \in JobIds, b \in AttemptNumbers :
              assertCurrentRunStageJob(j, b)' => assertCurrentRunStageJob(j, b)
<1>1. jobs \in [JobIds -> JobRows]
  BY DEF TypeOK, JobRows
<1>2. /\ jobs' \in [JobIds -> JobRows] /\ jobs'[k] = job
      /\ \A j \in JobIds : j # k => jobs'[j] = jobs[j]
  BY <1>1
<1> QED BY <1>2 DEF Fresh, assertCurrentRunStageJob

\* The row of a new generation.
LEMMA QueuedRowType ==
  QueuedRow \in StageRows /\ QueuedRow.status = "QUEUED" /\ QueuedRow.effects = "none"
<1>1. NoRow \in StageRows /\ NoRow.effects = "none"
  BY DEF NoRow, StageRows
<1>2. QueuedRow = [NoRow EXCEPT !.status = "QUEUED", !.hasInput = TRUE]
  BY DEF QueuedRow
<1> QED BY <1>1, <1>2 DEF StageRows, StageStatuses

\* The job of a stage is of the type of the jobs table.
LEMMA JobForType ==
  ASSUME NEW s \in Stages, NEW g \in Generations, NEW key \in 0..(GenCap + 1),
         NEW from \in 0..GenCap, NEW prev \in 0..GenCap
  PROVE  /\ JobFor(s, g, key, from, prev) \in JobRows
         /\ JobFor(s, g, key, from, prev).status = "QUEUED"
         /\ JobFor(s, g, key, from, prev).stage = s /\ JobFor(s, g, key, from, prev).gen = g
<1>1. 0 \in 0..MaxAttempts /\ "QUEUED" \in JobStatuses
  BY DEF JobStatuses
<1> QED BY <1>1 DEF JobFor, NoJob, JobRows

-----------------------------------------------------------------------------
(* Queueing the next stage.                                                *)

\* What queueRunStage queues is the latest row, or a new one after a stale one.
LEMMA QueueTarget ==
  ASSUME PipelineInv, NEW i \in JobIds, NEW a \in AttemptNumbers, queueRunStage(i, a),
         NEW s, s = jobs[i].stage + 1, NEW n, n = handler[i][a].arg
  PROVE  /\ s \in Stages /\ n = latest[s] /\ n \in Generations /\ rows[s][n] \in StageRows
         /\ rows[s][n].status \in {"PENDING", "QUEUED", "FAILED", "CANCELLED", "BLOCKED", "STALE"}
         /\ NextJob(i, a) \in JobRows /\ NextJob(i, a).status = "QUEUED"
         /\ NextJob(i, a).stage = s
         /\ NextJob(i, a).gen = IF rows[s][n].status = "STALE" THEN n + 1 ELSE n
         /\ NextJob(i, a).gen \in Generations
<1>1. /\ Pc(i, a) \in Queueing /\ QueuePasses(i, a) /\ NextJob(i, a).gen <= GenCap
  BY DEF queueRunStage, Queueing
<1>2. /\ TargetOK(i, a) /\ TypeOK /\ GenerationsOK /\ latest \in [Stages -> Generations]
      /\ rows \in [Stages -> [Generations -> StageRows]] /\ jobs[i].gen \in Generations
  BY DEF PipelineInv, TypeOK, StageRows
<1>3. s \in Stages /\ n \in 1..latest[s] /\ (n = latest[s] \/ rows[s][n].status = "STALE")
  BY <1>1, <1>2 DEF TargetOK, QueuePasses
<1>4. n = latest[s] /\ n \in Generations
  BY <1>1, <1>2, <1>3 DEF QueuePasses
<1>5. rows[s][n] \in StageRows /\ rows[s][n].status \in StageStatuses
  BY <1>2, <1>3, <1>4 DEF GenerationsOK, StageRows, Generations
<1>6. rows[s][n].status = "QUEUED" \/ canTransitionRunStage(rows[s][n].status, "QUEUED")
  BY <1>1 DEF QueuePasses
<1>7. rows[s][n].status \in {"PENDING", "QUEUED", "FAILED", "CANCELLED", "BLOCKED", "STALE"}
  BY <1>5, <1>6 DEF canTransitionRunStage, stageTransitions, StageStatuses
<1> DEFINE gen == IF rows[s][n].status = "STALE" THEN n + 1 ELSE n
           key == IF Pc(i, a) = "queueStale" THEN n + 1 ELSE n
<1>8. NextJob(i, a) = JobFor(s, gen, key, n, jobs[i].gen)
  BY DEF NextJob
<1> HIDE DEF gen, key
<1>9. NextJob(i, a).gen = gen
  BY <1>8 DEF JobFor, NoJob
<1>10. gen \in Generations /\ key \in 0..(GenCap + 1) /\ n \in 0..GenCap /\ jobs[i].gen \in 0..GenCap
  <2>1. gen <= GenCap
    BY <1>1, <1>9
  <2>2. n \in 1..GenCap /\ jobs[i].gen \in 1..GenCap
    BY <1>2, <1>4 DEF Generations
  <2> QED BY <2>1, <2>2 DEF Generations, gen, key
<1>11. /\ NextJob(i, a) \in JobRows /\ NextJob(i, a).status = "QUEUED"
       /\ NextJob(i, a).stage = s /\ NextJob(i, a).gen = gen
  <2> DEFINE from == jobs[i].gen
             job == JobFor(s, gen, key, n, from)
  <2>1. s \in Stages /\ gen \in Generations /\ key \in 0..(GenCap + 1)
        /\ n \in 0..GenCap /\ from \in 0..GenCap
    BY <1>3, <1>10
  <2> HIDE DEF from
  <2>2. /\ job \in JobRows /\ job.status = "QUEUED"
        /\ job.stage = s /\ job.gen = gen
    <3>1. 0 \in 0..MaxAttempts /\ "QUEUED" \in JobStatuses
      BY DEF JobStatuses
    <3> QED BY <2>1, <3>1 DEF JobFor, NoJob, JobRows
  <2> QED BY <1>8, <2>2 DEF from
<1> QED BY <1>3, <1>4, <1>5, <1>7, <1>10, <1>11 DEF gen

\* The jobs after queueRunStage: one more, or none if the key was used before.
LEMMA QueuedJob ==
  ASSUME PipelineInv, NEW i \in JobIds, NEW a \in AttemptNumbers, queueRunStage(i, a)
  PROVE  /\ jobs' \in [JobIds -> JobRows]
         /\ \A j \in JobIds :
              \/ jobs'[j] = jobs[j]
              \/ jobs[j].status = "NONE" /\ jobs'[j] = NextJob(i, a)
         /\ \A j \in JobIds, b \in AttemptNumbers :
              assertCurrentRunStageJob(j, b)' => assertCurrentRunStageJob(j, b)
<1> DEFINE job == NextJob(i, a)
<1>1. TypeOK /\ job \in JobRows /\ job.status = "QUEUED"
  BY QueueTarget DEF PipelineInv
<1> HIDE DEF job
<1>2. CASE jobs' = jobs
  BY <1>1, <1>2 DEF TypeOK, JobRows, assertCurrentRunStageJob
<1>3. CASE \E k \in JobIds : Fresh(k) /\ jobs' = [jobs EXCEPT ![k] = job]
  <2>1. PICK k \in JobIds : Fresh(k) /\ jobs' = [jobs EXCEPT ![k] = job]
    BY <1>3
  <2> QED BY <1>1, <2>1, Submitted DEF job
<1> QED BY <1>2, <1>3 DEF queueRunStage, job

\* A row that is not stale is queued again in place.
LEMMA RequeueStep ==
  ASSUME PipelineInv, NEW i \in JobIds, NEW a \in AttemptNumbers, queueRunStage(i, a),
         rows[jobs[i].stage + 1][handler[i][a].arg].status # "STALE"
  PROVE  PipelineInv' /\ Moves
<1> DEFINE s == jobs[i].stage + 1
           n == handler[i][a].arg
           row == [rows[s][n] EXCEPT !.status = "QUEUED", !.out = "none", !.hasInput = TRUE]
<1>1. /\ s \in Stages /\ n = latest[s] /\ n \in Generations /\ rows[s][n] \in StageRows
      /\ rows[s][n].status \in {"PENDING", "QUEUED", "FAILED", "CANCELLED", "BLOCKED"}
      /\ NextJob(i, a).status = "QUEUED" /\ NextJob(i, a).stage = s /\ NextJob(i, a).gen = n
  BY QueueTarget, SMTT(40)
<1>2. /\ TypeOK /\ latest \in [Stages -> Generations] /\ run \in [mode : Modes, status : RunStatuses]
      /\ rows \in [Stages -> [Generations -> StageRows]]
  BY DEF PipelineInv, TypeOK, StageRows
<1>3. /\ rows' = [rows EXCEPT ![NextJob(i, a).stage][NextJob(i, a).gen] =
                    IF @.status = "NONE" THEN QueuedRow
                    ELSE [@ EXCEPT !.status = "QUEUED", !.out = "none", !.hasInput = TRUE]]
      /\ latest' = [latest EXCEPT ![NextJob(i, a).stage] =
                      IF NextJob(i, a).gen > @ THEN NextJob(i, a).gen ELSE @]
      /\ GotoWith(i, a, "returned", 0) /\ run' = run
      /\ run.status \in {"QUEUED", "RUNNING"} /\ Pc(i, a) # "none"
  BY DEF queueRunStage, QueuePasses, Goto
<1>4. row \in StageRows /\ row.status = "QUEUED" /\ row.effects = rows[s][n].effects
  BY <1>1 DEF StageRows, StageStatuses
<1>5. rows' = [rows EXCEPT ![s][n] = row]
  <2>1. rows' = [rows EXCEPT ![s][n] =
                   IF rows[s][n].status = "NONE" THEN QueuedRow ELSE row]
    BY <1>1, <1>2, <1>3
  <2> QED BY <1>1, <2>1
<1>6. latest' = latest
  <2>1. latest[s] \in Nat
    BY <1>1, <1>2 DEF Generations
  <2>2. ~(n > latest[s])
    BY <1>1, <2>1
  <2>3. latest' = [latest EXCEPT ![s] = latest[s]]
    BY <1>1, <1>3, <2>2
  <2> QED BY <1>1, <1>2, <2>3
<1>7. RowsSettled
  <2>1. /\ rows' \in [Stages -> [Generations -> StageRows]]
        /\ \A t \in Stages, g \in Generations :
             rows'[t][g] = IF t = s /\ g = n THEN row ELSE rows[t][g]
    <3> HIDE DEF row, s, n
    <3> QED BY <1>1, <1>2, <1>4, <1>5, NestedUpdate
  <2>2. rows[s][n].status = "QUEUED" \/ canTransitionRunStage(rows[s][n].status, "QUEUED")
    BY <1>1 DEF canTransitionRunStage, stageTransitions, StageStatuses
  <2> HIDE DEF row, s, n
  <2>3. ASSUME NEW t \in Stages, NEW g \in Generations PROVE RowKept(t, g)
    BY <1>1, <1>3, <1>4, <2>1, <2>2, SMTT(30) DEF RowKept, EffectsKept, Stopped, StageStatuses
  <2> QED BY <1>2, <1>3, <2>1, <2>3 DEF RowsSettled, RunMoves
<1>8. /\ handler' \in [JobIds -> [AttemptNumbers -> Attempts]]
      /\ \A j \in JobIds, b \in AttemptNumbers :
           handler'[j][b] = IF j = i /\ b = a THEN [pc |-> "returned", arg |-> 0] ELSE handler[j][b]
  <2>1. "returned" \in Pcs /\ 0 \in 0..GenCap
    BY DEF Pcs
  <2> QED BY <1>2, <1>3, <2>1, HandlerMoved
<1>9. /\ jobs' \in [JobIds -> JobRows]
      /\ \A j \in JobIds :
           \/ jobs'[j] = jobs[j]
           \/ jobs[j].status = "NONE" /\ jobs'[j] = NextJob(i, a)
      /\ \A j \in JobIds, b \in AttemptNumbers :
           assertCurrentRunStageJob(j, b)' => assertCurrentRunStageJob(j, b)
  BY QueuedJob
<1>10. n <= latest[s]
  BY <1>1, <1>2 DEF Generations
<1>11. "returned" \notin Queueing
  BY DEF Queueing
<1>12. \A j \in JobIds :
         \/ jobs'[j] = jobs[j]
         \/ /\ jobs[j].status = "NONE" /\ jobs'[j].status # "NONE"
            /\ jobs'[j].gen <= latest[jobs'[j].stage]
  BY <1>1, <1>9, <1>10
<1> HIDE DEF s, n, row
<1>13. \A j \in JobIds, b \in AttemptNumbers :
         /\ handler'[j][b].pc # "none" => handler[j][b].pc # "none" \/ jobs'[j].status # "NONE"
         /\ handler'[j][b].pc \in Queueing => handler'[j][b] = handler[j][b]
         /\ assertCurrentRunStageJob(j, b)' => assertCurrentRunStageJob(j, b)
  BY <1>3, <1>8, <1>9, <1>11 DEF Pc
<1> QED BY <1>6, <1>7, <1>8, <1>9, <1>12, <1>13, QueueStep

\* A stale row gets a successor: the next generation of its stage.
LEMMA NewGenerationStep ==
  ASSUME PipelineInv, NEW i \in JobIds, NEW a \in AttemptNumbers, queueRunStage(i, a),
         rows[jobs[i].stage + 1][handler[i][a].arg].status = "STALE"
  PROVE  PipelineInv' /\ Moves
<1> DEFINE s == jobs[i].stage + 1
           n == handler[i][a].arg
<1>1. /\ s \in Stages /\ n = latest[s] /\ n \in Generations /\ rows[s][n].status = "STALE"
      /\ NextJob(i, a).status = "QUEUED" /\ NextJob(i, a).stage = s
      /\ NextJob(i, a).gen = n + 1 /\ n + 1 \in Generations
  BY QueueTarget
<1>2. /\ TypeOK /\ latest \in [Stages -> Generations] /\ run \in [mode : Modes, status : RunStatuses]
      /\ rows \in [Stages -> [Generations -> StageRows]] /\ GenerationsOK /\ JobsOK /\ RowsInv
      /\ \A j \in JobIds, b \in AttemptNumbers : TargetOK(j, b)
  BY DEF PipelineInv, TypeOK, StageRows
<1>3. /\ rows' = [rows EXCEPT ![NextJob(i, a).stage][NextJob(i, a).gen] =
                    IF @.status = "NONE" THEN QueuedRow
                    ELSE [@ EXCEPT !.status = "QUEUED", !.out = "none", !.hasInput = TRUE]]
      /\ latest' = [latest EXCEPT ![NextJob(i, a).stage] =
                      IF NextJob(i, a).gen > @ THEN NextJob(i, a).gen ELSE @]
      /\ GotoWith(i, a, "returned", 0) /\ run' = run
      /\ run.status \in {"QUEUED", "RUNNING"} /\ Pc(i, a) # "none"
  BY DEF queueRunStage, QueuePasses, Goto
<1>4. QueuedRow \in StageRows /\ QueuedRow.status = "QUEUED" /\ QueuedRow.effects = "none"
  BY QueuedRowType
<1>5. n \in Nat /\ n + 1 > n /\ \A g \in Generations : g \in Nat
  BY <1>1 DEF Generations
<1>6. /\ latest' = [latest EXCEPT ![s] = n + 1]
      /\ rows' = [rows EXCEPT ![s][n + 1] = QueuedRow]
  <2>1. rows[s][n + 1].status = "NONE"
    BY <1>1, <1>2, <1>5 DEF GenerationsOK
  <2>2. rows' = [rows EXCEPT ![s][n + 1] =
                   IF rows[s][n + 1].status = "NONE" THEN QueuedRow
                   ELSE [rows[s][n + 1] EXCEPT !.status = "QUEUED", !.out = "none", !.hasInput = TRUE]]
    BY <1>1, <1>2, <1>3
  <2>3. latest' = [latest EXCEPT ![s] = IF n + 1 > latest[s] THEN n + 1 ELSE latest[s]]
    BY <1>1, <1>2, <1>3
  <2> QED BY <1>1, <1>5, <2>1, <2>2, <2>3
<1> HIDE DEF s, n
<1>7. /\ rows' \in [Stages -> [Generations -> StageRows]] /\ latest' \in [Stages -> Generations]
      /\ \A t \in Stages, g \in Generations :
           rows'[t][g] = IF t = s /\ g = n + 1 THEN QueuedRow ELSE rows[t][g]
      /\ \A t \in Stages : latest'[t] = IF t = s THEN n + 1 ELSE latest[t]
  <2> HIDE DEF QueuedRow
  <2> QED BY <1>1, <1>2, <1>4, <1>6, NestedUpdate
<1>8. rows[s][n + 1].status = "NONE"
  BY <1>1, <1>2, <1>5 DEF GenerationsOK
<1>9. GenerationsOK'
  <2> SUFFICES ASSUME NEW t \in Stages, NEW g \in Generations
               PROVE  rows'[t][g].status = "NONE" <=> g > latest'[t]
    BY DEF GenerationsOK
  <2>1. rows[t][g].status = "NONE" <=> g > latest[t]
    BY <1>2 DEF GenerationsOK
  <2>2. CASE t = s /\ g = n + 1
    BY <1>1, <1>4, <1>5, <1>7, <2>2
  <2>3. CASE t = s /\ g # n + 1
    <3>1. g > n <=> g > n + 1
      BY <1>5, <2>3
    <3> QED BY <1>1, <1>7, <2>1, <2>3, <3>1
  <2>4. CASE t # s
    BY <1>7, <2>1, <2>4
  <2> QED BY <2>2, <2>3, <2>4
<1>10. SucceededPrefix'
  <2> SUFFICES ASSUME NEW t \in Stages, t > 1, Latest(t)'.status = "SUCCEEDED"
               PROVE  Latest(t - 1)'.status = "SUCCEEDED"
    BY DEF SucceededPrefix
  <2>1. t - 1 \in Stages /\ latest[t] \in Generations /\ latest[t - 1] \in Generations
    BY <1>2 DEF Stages
  <2>2. t # s /\ Latest(t).status = "SUCCEEDED"
    BY <1>1, <1>4, <1>7, <2>1 DEF Latest
  <2>3. Latest(t - 1).status = "SUCCEEDED"
    BY <1>2, <2>2 DEF RowsInv, SucceededPrefix
  <2>4. t - 1 # s
    BY <1>1, <2>3 DEF Latest
  <2> QED BY <1>7, <2>1, <2>3, <2>4 DEF Latest
<1>11. EffectsOfLatest' /\ SupersededAtRest' /\ ClosedWhenCancelled'
  <2>1. EffectsOfLatest'
    BY <1>1, <1>2, <1>4, <1>5, <1>7, <1>8 DEF RowsInv, EffectsOfLatest
  <2>2. SupersededAtRest'
    <3> SUFFICES ASSUME NEW t \in Stages, NEW g \in Generations, g < latest'[t]
                 PROVE  rows'[t][g].status \notin OpenStages
      BY DEF SupersededAtRest
    <3>1. g < latest[t] => rows[t][g].status \notin OpenStages
      BY <1>2 DEF RowsInv, SupersededAtRest
    <3>2. CASE t = s
      <4>1. g # n + 1 /\ (g = n \/ g < n)
        BY <1>1, <1>5, <1>7, <3>2
      <4> QED BY <1>1, <1>7, <3>1, <3>2, <4>1 DEF OpenStages
    <3>3. CASE t # s
      BY <1>7, <3>1, <3>3
    <3> QED BY <3>2, <3>3
  <2>3. ClosedWhenCancelled'
    BY <1>3 DEF ClosedWhenCancelled
  <2> QED BY <2>1, <2>2, <2>3
<1>12. Moves
  <2>1. ASSUME NEW t \in Stages, NEW g \in Generations PROVE RowMoves(t, g)
    <3>1. CASE t = s /\ g = n + 1
      <4>1. rows[t][g].status = "NONE" /\ rows'[t][g].status = "QUEUED" /\ run'.status \notin Stopped
        BY <1>3, <1>4, <1>7, <1>8, <3>1, SMTT(30) DEF Stopped
      <4> QED BY <4>1 DEF RowMoves
    <3>2. CASE ~(t = s /\ g = n + 1)
      <4>1. rows'[t][g] = rows[t][g]
        BY <1>7, <3>2
      <4> QED BY <4>1 DEF RowMoves
    <3> QED BY <3>1, <3>2
  <2> QED BY <1>3, <2>1 DEF Moves, RunMoves
<1>13. /\ handler' \in [JobIds -> [AttemptNumbers -> Attempts]]
       /\ \A j \in JobIds, b \in AttemptNumbers :
            handler'[j][b] = IF j = i /\ b = a THEN [pc |-> "returned", arg |-> 0] ELSE handler[j][b]
  <2>1. "returned" \in Pcs /\ 0 \in 0..GenCap
    BY DEF Pcs
  <2> QED BY <1>2, <1>3, <2>1, HandlerMoved
<1>14. /\ jobs' \in [JobIds -> JobRows]
       /\ \A j \in JobIds :
            \/ jobs'[j] = jobs[j]
            \/ jobs[j].status = "NONE" /\ jobs'[j] = NextJob(i, a)
       /\ \A j \in JobIds, b \in AttemptNumbers :
            assertCurrentRunStageJob(j, b)' => assertCurrentRunStageJob(j, b)
  BY QueuedJob
<1>15. TypeOK'
  BY <1>2, <1>3, <1>7, <1>13, <1>14 DEF TypeOK, StageRows, JobRows, Attempts
<1>16. JobsOK'
  <2> SUFFICES ASSUME NEW j \in JobIds
               PROVE  /\ jobs'[j].gen <= latest'[jobs'[j].stage]
                      /\ \A b \in AttemptNumbers : handler'[j][b].pc # "none" => jobs'[j].status # "NONE"
    BY DEF JobsOK, Pc
  <2>1. CASE jobs'[j] = jobs[j]
    <3>1. jobs[j].gen <= latest[jobs[j].stage] /\ jobs[j].stage \in Stages /\ jobs[j].gen \in Nat
      BY <1>2, <1>5 DEF JobsOK, TypeOK
    <3>2. jobs[j].gen <= latest'[jobs[j].stage]
      BY <1>1, <1>5, <1>7, <3>1
    <3> QED BY <1>2, <1>3, <1>13, <2>1, <3>2, SMTT(30) DEF JobsOK, Pc
  <2>2. CASE jobs'[j] = NextJob(i, a)
    BY <1>1, <1>5, <1>7, <2>2
  <2> QED BY <1>14, <2>1, <2>2
<1>17. ASSUME NEW j \in JobIds, NEW b \in AttemptNumbers PROVE TargetOK(j, b)'
  <2> SUFFICES ASSUME handler'[j][b].pc \in Queueing PROVE TargetOK(j, b)'
    BY DEF TargetOK, Pc
  <2> DEFINE t == jobs[j].stage + 1
             m == handler[j][b].arg
  <2>1. handler'[j][b] = handler[j][b] /\ Pc(j, b) \in Queueing
    BY <1>13 DEF Queueing, Pc
  <2>2. jobs'[j] = jobs[j]
    BY <1>2, <1>14, <2>1 DEF JobsOK, Queueing
  <2>3. /\ t \in Stages /\ m \in 1..latest[t]
        /\ assertCurrentRunStageJob(j, b) => m = latest[t] \/ rows[t][m].status = "STALE"
    BY <1>2, <2>1 DEF TargetOK
  <2> HIDE DEF t, m
  <2>4. m \in Generations /\ m \in 1..latest'[t]
    <3>1. latest[t] \in 1..GenCap /\ latest'[t] \in 1..GenCap
      BY <1>2, <1>7, <2>3 DEF Generations
    <3>2. latest[t] <= latest'[t]
      BY <1>1, <1>5, <1>7, <2>3, <3>1
    <3> QED BY <2>3, <3>1, <3>2 DEF Generations
  <2>5. assertCurrentRunStageJob(j, b) => m = latest'[t] \/ rows'[t][m].status = "STALE"
    BY <1>1, <1>5, <1>7, <1>8, <2>3, <2>4
  <2> QED BY <1>14, <2>1, <2>2, <2>3, <2>4, <2>5 DEF TargetOK, Pc, t, m
<1> QED BY <1>9, <1>10, <1>11, <1>12, <1>15, <1>16, <1>17 DEF PipelineInv, RowsInv

\* queueRunStage.
LEMMA QueueStageStep ==
  ASSUME PipelineInv, NEW i \in JobIds, NEW a \in AttemptNumbers, queueRunStage(i, a)
  PROVE  PipelineInv' /\ Moves
BY RequeueStep, NewGenerationStep

-----------------------------------------------------------------------------
(* The run and its rows when a job ends.                                   *)

\* Rows of which some are closed, all of them in a cancelled run.
LEMMA SomeClosed ==
  ASSUME PipelineInv, run' \in [mode : Modes, status : RunStatuses], RunMoves,
         NEW W,
         rows' = [s \in Stages |-> [g \in Generations |->
                    IF <<s, g>> \in W THEN Closed(rows[s][g]) ELSE rows[s][g]]],
         run'.status = "CANCELLED" => \A s \in Stages, g \in Generations : <<s, g>> \in W
  PROVE  RowsSettled
<1>1. rows \in [Stages -> [Generations -> StageRows]]
  BY DEF PipelineInv, TypeOK, StageRows
<1>2. ASSUME NEW r \in StageRows
      PROVE  /\ Closed(r) \in StageRows /\ Closed(r).effects = r.effects
             /\ Closed(r).status = IF r.status \in OpenStages THEN "CANCELLED" ELSE r.status
  BY DEF Closed, StageRows, StageStatuses
<1>3. \A s \in Stages, g \in Generations :
         /\ rows'[s][g] = IF <<s, g>> \in W THEN Closed(rows[s][g]) ELSE rows[s][g]
         /\ rows[s][g] \in StageRows
  BY <1>1
<1>4. rows' \in [Stages -> [Generations -> StageRows]]
  BY <1>1, <1>2
<1>5. ASSUME NEW s \in Stages, NEW g \in Generations PROVE RowKept(s, g)
  <2>1. CASE rows'[s][g].status = rows[s][g].status
    BY <1>2, <1>3, <2>1 DEF RowKept, EffectsKept
  <2>2. CASE rows[s][g].status \in OpenStages /\ rows'[s][g].status = "CANCELLED"
    <3>1. canTransitionRunStage(rows[s][g].status, "CANCELLED")
      BY <2>2 DEF OpenStages, canTransitionRunStage, stageTransitions, StageStatuses
    <3> QED BY <1>2, <1>3, <2>2, <3>1 DEF RowKept, EffectsKept, OpenStages, StageStatuses
  <2> QED BY <1>2, <1>3, <2>1, <2>2
<1>6. ASSUME run'.status = "CANCELLED" PROVE AllClosed
  BY <1>2, <1>3, <1>6 DEF AllClosed, OpenStages
<1> QED BY <1>4, <1>5, <1>6 DEF RowsSettled

\* The same for all rows.
LEMMA AllRowsClosed ==
  ASSUME PipelineInv, run' \in [mode : Modes, status : RunStatuses], RunMoves, rows' = CloseAll
  PROVE  RowsSettled
<1> DEFINE W == Stages \X Generations
<1>1. rows' = [s \in Stages |-> [g \in Generations |->
                 IF <<s, g>> \in W THEN Closed(rows[s][g]) ELSE rows[s][g]]]
  BY DEF CloseAll
<1>2. \A s \in Stages, g \in Generations : <<s, g>> \in W
  OBVIOUS
<1> HIDE DEF W
<1> QED BY <1>1, <1>2, SomeClosed

\* reconcileLinkedJobFailure.
LEMMA FailureRows ==
  ASSUME PipelineInv, NEW i \in JobIds, reconcileLinkedJobFailure(i)
  PROVE  RowsSettled
<1> DEFINE row == [Row(i) EXCEPT !.status = "FAILED"]
<1>1. Row(i) \in StageRows /\ TypeOK /\ run \in [mode : Modes, status : RunStatuses]
  BY RowExists DEF PipelineInv, TypeOK
<1>2. CASE UNCHANGED <<rows, run>>
  BY <1>2, NothingWritten
<1>3. CASE /\ Row(i).status \in {"QUEUED", "RUNNING"} /\ UpdateRow(i, row)
           /\ IF canTransitionResearchRun(run.status, "FAILED") THEN SetRun("FAILED") ELSE UNCHANGED run
  <2>1. row \in StageRows /\ row.status = "FAILED" /\ row.effects = Row(i).effects
    BY <1>1 DEF StageRows, StageStatuses
  <2>2. canTransitionRunStage(Row(i).status, "FAILED")
    BY <1>3 DEF canTransitionRunStage, stageTransitions, StageStatuses
  <2>3. /\ run' \in [mode : Modes, status : RunStatuses] /\ RunMoves
        /\ run'.status \in {"FAILED", run.status}
    BY <1>1, <1>3, RunUpdated DEF RunMoves, RunStatuses
  <2> HIDE DEF row
  <2> QED BY <1>3, <2>1, <2>2, <2>3, OneRow DEF OpenStages
<1> QED BY <1>2, <1>3 DEF reconcileLinkedJobFailure

\* reconcileLinkedJobCancellation, whatever the jobs are after it.
LEMMA CancellationRows ==
  ASSUME PipelineInv, NEW i \in JobIds, NEW js, reconcileLinkedJobCancellation(i, js)
  PROVE  RowsSettled
<1> DEFINE status == IF canTransitionResearchRun(run.status, "CANCELLING")
                     THEN "CANCELLING" ELSE run.status
<1>1. Row(i) \in StageRows /\ TypeOK /\ run \in [mode : Modes, status : RunStatuses]
  BY RowExists DEF PipelineInv, TypeOK
<1>2. status \in RunStatuses /\ (status = run.status \/ canTransitionResearchRun(run.status, status))
  BY <1>1 DEF RunStatuses
<1>3. CASE UNCHANGED <<rows, run>>
  BY <1>3, NothingWritten
<1>4. CASE /\ run.status \notin {"COMPLETED", "FAILED", "CANCELLED"} /\ SetRun(status)
           /\ rows' = rows \/ UpdateRow(i, Closed(Row(i)))
  <2>1. /\ run' \in [mode : Modes, status : RunStatuses] /\ RunMoves
        /\ run'.status = status /\ status # "CANCELLED"
    BY <1>1, <1>2, <1>4, RunUpdated DEF RunMoves
  <2>2. CASE rows' = rows
    BY <2>1, <2>2, SameRows
  <2>3. CASE UpdateRow(i, Closed(Row(i)))
    <3>1. /\ Closed(Row(i)) \in StageRows /\ Closed(Row(i)).effects = Row(i).effects
          /\ \/ Closed(Row(i)).status = Row(i).status
             \/ Row(i).status \in OpenStages /\ Closed(Row(i)).status = "CANCELLED"
      BY <1>1 DEF Closed, StageRows, StageStatuses
    <3>2. Row(i).status \in OpenStages => canTransitionRunStage(Row(i).status, "CANCELLED")
      BY DEF OpenStages, canTransitionRunStage, stageTransitions, StageStatuses
    <3> QED BY <2>1, <2>3, <3>1, <3>2, OneRow DEF OpenStages
  <2> QED BY <1>4, <2>2, <2>3
<1>5. CASE status = "CANCELLING" /\ SetRun("CANCELLED") /\ rows' = CloseAll
  <2>1. run.status = "CANCELLING" \/ canTransitionResearchRun(run.status, "CANCELLING")
    BY <1>5
  <2>2. canTransitionResearchRun(run.status, "CANCELLED")
    BY <1>1, <2>1 DEF canTransitionResearchRun, runTransitions, RunStatuses
  <2>3. run' \in [mode : Modes, status : RunStatuses] /\ run'.status = "CANCELLED"
    BY <1>1, <1>5, RunUpdated DEF RunStatuses
  <2> QED BY <1>5, <2>2, <2>3, AllRowsClosed DEF RunMoves
<1> QED BY <1>3, <1>4, <1>5 DEF reconcileLinkedJobCancellation

-----------------------------------------------------------------------------
(* The calls of the queue.                                                 *)

\* A job gets a status in which no attempt of it runs.
LEMMA JobEnds ==
  ASSUME PipelineInv, RowsSettled, latest' = latest, NEW i \in JobIds,
         NEW status \in JobStatuses \ {"RUNNING"},
         jobs' = [jobs EXCEPT ![i].status = status],
         handler' = handler \/ \E a \in AttemptNumbers : Goto(i, a, "done")
  PROVE  PipelineInv' /\ Moves
<1>1. TypeOK /\ jobs \in [JobIds -> JobRows]
  BY DEF PipelineInv, TypeOK, JobRows
<1> DEFINE job == [jobs[i] EXCEPT !.status = status]
<1>2. job \in JobRows /\ job.stage = jobs[i].stage /\ job.gen = jobs[i].gen /\ job.status = status
  BY <1>1 DEF JobRows
<1>3. jobs' = [jobs EXCEPT ![i] = job]
  BY <1>1
<1> HIDE DEF job
<1>4. jobs' \in [JobIds -> JobRows] /\ \A j \in JobIds : jobs'[j] = IF j = i THEN job ELSE jobs[j]
  BY <1>1, <1>2, <1>3
<1>5. /\ handler' \in [JobIds -> [AttemptNumbers -> Attempts]]
      /\ \A j \in JobIds, b \in AttemptNumbers :
           handler'[j][b] = handler[j][b] \/ (j = i /\ handler'[j][b] = [pc |-> "done", arg |-> 0])
  <2>1. CASE handler' = handler
    BY <1>1, <2>1 DEF TypeOK, Attempts
  <2>2. CASE \E a \in AttemptNumbers : Goto(i, a, "done")
    <3>1. PICK a \in AttemptNumbers : GotoWith(i, a, "done", 0)
      BY <2>2 DEF Goto
    <3>2. "done" \in Pcs /\ 0 \in 0..GenCap
      BY DEF Pcs
    <3> QED BY <1>1, <3>1, <3>2, HandlerMoved
  <2> QED BY <2>1, <2>2
<1>6. \A j \in JobIds, b \in AttemptNumbers :
        assertCurrentRunStageJob(j, b)' => assertCurrentRunStageJob(j, b)
  BY <1>2, <1>4 DEF assertCurrentRunStageJob
<1>7. status # "NONE" /\ "done" \notin Queueing
  BY NoStatus DEF Queueing
<1>8. \A j \in JobIds :
        \/ jobs'[j].stage = jobs[j].stage /\ jobs'[j].gen = jobs[j].gen /\ jobs'[j].status # "NONE"
        \/ jobs'[j] = jobs[j]
  BY <1>2, <1>4, <1>7
<1>9. \A j \in JobIds, b \in AttemptNumbers :
        /\ handler'[j][b].pc # "none" => handler[j][b].pc # "none" \/ jobs'[j].status # "NONE"
        /\ handler'[j][b].pc \in Queueing => handler'[j][b] = handler[j][b]
  BY <1>2, <1>4, <1>5, <1>7
<1> QED BY <1>4, <1>5, <1>6, <1>8, <1>9, QueueStep

\* AttemptLost and failJob: the attempt ends, and with the job its row.
LEMMA EndAttemptStep ==
  ASSUME PipelineInv, NEW i \in JobIds, NEW retryable \in BOOLEAN, EndAttempt(i, retryable),
         latest' = latest,
         handler' = handler \/ \E a \in AttemptNumbers : Goto(i, a, "done")
  PROVE  PipelineInv' /\ Moves
<1> DEFINE target == failureJobStatus(retryable, jobs[i].attempts, MaxAttempts)
<1>1. target \in JobStatuses \ {"RUNNING"}
  BY DEF failureJobStatus, JobStatuses
<1>2. /\ jobs' = [jobs EXCEPT ![i].status = target]
      /\ UNCHANGED <<rows, run>> \/ reconcileLinkedJobFailure(i)
  BY DEF EndAttempt
<1> HIDE DEF target
<1>3. RowsSettled
  BY <1>2, NothingWritten, FailureRows
<1> QED BY <1>1, <1>2, <1>3, JobEnds

\* claimJobs and startJob: the attempt is a new one, so no handler that is
\* about to queue a stage becomes current.
LEMMA ClaimStep ==
  ASSUME PipelineInv, NEW i \in JobIds, claimJob(i)
  PROVE  PipelineInv' /\ Moves
<1> DEFINE a == jobs[i].attempts + 1
           job == [jobs[i] EXCEPT !.status = "RUNNING", !.attempts = a]
<1>1. TypeOK /\ jobs \in [JobIds -> JobRows] /\ jobs[i] \in JobRows /\ jobs[i].attempts \in 0..MaxAttempts
  BY DEF PipelineInv, TypeOK, JobRows
<1>2. /\ a <= MaxAttempts /\ jobs[i].status \in WaitingStatuses
      /\ jobs' = [jobs EXCEPT ![i].status = "RUNNING", ![i].attempts = a]
      /\ GotoWith(i, a, "load", 0) /\ UNCHANGED <<run, rows, latest>>
  BY DEF claimJob, Goto
<1>3. a \in AttemptNumbers /\ a \in 0..MaxAttempts
  BY <1>1, <1>2 DEF AttemptNumbers
<1>4. job \in JobRows /\ job.stage = jobs[i].stage /\ job.gen = jobs[i].gen
      /\ job.status = "RUNNING" /\ job.attempts = a
  BY <1>1, <1>3 DEF JobRows, JobStatuses
<1>5. jobs' = [jobs EXCEPT ![i] = job]
  BY <1>1, <1>2
<1> HIDE DEF job, a
<1>6. jobs' \in [JobIds -> JobRows] /\ \A j \in JobIds : jobs'[j] = IF j = i THEN job ELSE jobs[j]
  BY <1>1, <1>4, <1>5
<1>7. /\ handler' \in [JobIds -> [AttemptNumbers -> Attempts]]
      /\ \A j \in JobIds, b \in AttemptNumbers :
           handler'[j][b] = IF j = i /\ b = a THEN [pc |-> "load", arg |-> 0] ELSE handler[j][b]
  <2>1. "load" \in Pcs /\ 0 \in 0..GenCap
    BY DEF Pcs
  <2> QED BY <1>1, <1>2, <1>3, <2>1, HandlerMoved
<1>8. RowsSettled
  BY <1>2, NothingWritten
<1>9. \A j \in JobIds :
        \/ jobs'[j].stage = jobs[j].stage /\ jobs'[j].gen = jobs[j].gen /\ jobs'[j].status # "NONE"
        \/ jobs'[j] = jobs[j]
  BY <1>4, <1>6
<1>10. ASSUME NEW j \in JobIds, NEW b \in AttemptNumbers
       PROVE  /\ handler'[j][b].pc # "none" => handler[j][b].pc # "none" \/ jobs'[j].status # "NONE"
              /\ handler'[j][b].pc \in Queueing => handler'[j][b] = handler[j][b]
              /\ assertCurrentRunStageJob(j, b)' =>
                   assertCurrentRunStageJob(j, b) \/ handler'[j][b].pc \notin Queueing
  BY <1>4, <1>6, <1>7 DEF assertCurrentRunStageJob, Queueing
<1> QED BY <1>2, <1>6, <1>7, <1>8, <1>9, <1>10, QueueStep

\* completeJob, releaseJobLease and acknowledgeJobCancellation.
LEMMA JobLeftStep ==
  ASSUME PipelineInv, NEW i \in JobIds,
         \/ \E a \in AttemptNumbers : completeJob(i, a)
         \/ releaseJobLease(i) \/ acknowledgeJobCancellation(i)
  PROVE  PipelineInv' /\ Moves
<1>1. {"SUCCEEDED", "RETRY_WAIT", "CANCELLED"} \subseteq JobStatuses \ {"RUNNING"}
  BY DEF JobStatuses
<1>2. CASE \E a \in AttemptNumbers : completeJob(i, a)
  <2>1. /\ jobs' = [jobs EXCEPT ![i].status = "SUCCEEDED"] /\ UNCHANGED <<run, rows, latest>>
        /\ \E a \in AttemptNumbers : Goto(i, a, "done")
    BY <1>2 DEF completeJob
  <2>2. RowsSettled
    BY <2>1, NothingWritten
  <2> QED BY <1>1, <2>1, <2>2, JobEnds
<1>3. CASE releaseJobLease(i)
  <2>1. /\ jobs' = [jobs EXCEPT ![i].status = "RETRY_WAIT"]
        /\ UNCHANGED <<run, rows, latest, handler>>
    BY <1>3 DEF releaseJobLease
  <2>2. RowsSettled
    BY <2>1, NothingWritten
  <2> QED BY <1>1, <2>1, <2>2, JobEnds
<1>4. CASE acknowledgeJobCancellation(i)
  <2>1. /\ jobs' = [jobs EXCEPT ![i].status = "CANCELLED"]
        /\ UNCHANGED <<latest, handler>> /\ reconcileLinkedJobCancellation(i, jobs')
    BY <1>4 DEF acknowledgeJobCancellation
  <2>2. RowsSettled
    BY <2>1, CancellationRows
  <2> QED BY <1>1, <2>1, <2>2, JobEnds
<1> QED BY <1>2, <1>3, <1>4

\* CallRefused, failJob and AttemptLost.
LEMMA AttemptOverStep ==
  ASSUME PipelineInv, NEW i \in JobIds,
         \/ AttemptLost(i)
         \/ \E a \in AttemptNumbers : failJob(i, a) \/ CallRefused(i, a)
  PROVE  PipelineInv' /\ Moves
<1>1. CASE AttemptLost(i)
  <2>1. EndAttempt(i, TRUE) /\ latest' = latest /\ handler' = handler
    BY <1>1 DEF AttemptLost
  <2> QED BY <2>1, EndAttemptStep
<1>2. ASSUME NEW a \in AttemptNumbers, failJob(i, a) PROVE PipelineInv' /\ Moves
  <2> DEFINE retryable == Pc(i, a) = "failRetryable"
  <2>1. EndAttempt(i, retryable) /\ latest' = latest /\ Goto(i, a, "done")
    BY <1>2 DEF failJob
  <2>2. retryable \in BOOLEAN
    OBVIOUS
  <2> HIDE DEF retryable
  <2> QED BY <2>1, <2>2, EndAttemptStep
<1>3. ASSUME NEW a \in AttemptNumbers, CallRefused(i, a) PROVE PipelineInv' /\ Moves
  <2>1. /\ UNCHANGED <<run, rows, latest, jobs>> /\ GotoWith(i, a, "done", 0) /\ Pc(i, a) # "none"
    BY <1>3 DEF CallRefused, Goto
  <2>2. "done" \in Pcs /\ 0 \in 0..GenCap /\ "done" \notin Queueing
    BY DEF Pcs, Queueing
  <2> QED BY <2>1, <2>2, ReadStep
<1> QED BY <1>1, <1>2, <1>3

-----------------------------------------------------------------------------
(* The operator's commands.                                                *)

\* Some jobs are cancelled, or asked to stop.
LEMMA JobsCancelled ==
  ASSUME PipelineInv, RowsSettled, UNCHANGED <<latest, handler>>,
         jobs' \in [JobIds -> JobRows],
         \A j \in JobIds : jobs'[j] = jobs[j] \/ jobs'[j] = CancelledJob(jobs[j])
  PROVE  PipelineInv' /\ Moves
<1>1. /\ jobs \in [JobIds -> JobRows] /\ handler \in [JobIds -> [AttemptNumbers -> Attempts]]
  BY DEF PipelineInv, TypeOK, JobRows, Attempts
<1>2. ASSUME NEW j \in JobIds
      PROVE  \/ jobs'[j] = jobs[j]
             \/ /\ jobs'[j].stage = jobs[j].stage /\ jobs'[j].gen = jobs[j].gen
                /\ jobs'[j].status \in {"CANCELLED", "CANCELLATION_REQUESTED"}
  <2>1. jobs[j] \in JobRows
    BY <1>1
  <2> QED BY <2>1 DEF CancelledJob, JobRows
<1>3. \A j \in JobIds, b \in AttemptNumbers :
        assertCurrentRunStageJob(j, b)' => assertCurrentRunStageJob(j, b)
  BY <1>2 DEF assertCurrentRunStageJob
<1>4. handler' \in [JobIds -> [AttemptNumbers -> Attempts]]
  BY <1>1
<1>5. \A j \in JobIds :
        \/ jobs'[j].stage = jobs[j].stage /\ jobs'[j].gen = jobs[j].gen /\ jobs'[j].status # "NONE"
        \/ jobs'[j] = jobs[j]
  BY <1>2
<1> QED BY <1>3, <1>4, <1>5, QueueStep

\* requestJobCancellation.
LEMMA CancelJobStep ==
  ASSUME PipelineInv, NEW i \in JobIds, requestJobCancellation(i)
  PROVE  PipelineInv' /\ Moves
<1>1. jobs \in [JobIds -> JobRows] /\ jobs[i] \in JobRows
  BY DEF PipelineInv, TypeOK, JobRows
<1>2. /\ jobs' = [jobs EXCEPT ![i] = CancelledJob(@)]
      /\ UNCHANGED <<latest, handler>> /\ reconcileLinkedJobCancellation(i, jobs')
  BY DEF requestJobCancellation
<1>3. CancelledJob(jobs[i]) \in JobRows
  BY <1>1 DEF CancelledJob, JobRows, JobStatuses
<1>4. /\ jobs' \in [JobIds -> JobRows]
      /\ \A j \in JobIds : jobs'[j] = jobs[j] \/ jobs'[j] = CancelledJob(jobs[j])
  BY <1>1, <1>2, <1>3
<1>5. RowsSettled
  BY <1>2, CancellationRows
<1> QED BY <1>2, <1>4, <1>5, JobsCancelled

\* requestResearchRunCancellation.
LEMMA CancelRunStep ==
  ASSUME PipelineInv, requestResearchRunCancellation
  PROVE  PipelineInv' /\ Moves
<1>1. jobs \in [JobIds -> JobRows] /\ run \in [mode : Modes, status : RunStatuses] /\ TypeOK
  BY DEF PipelineInv, TypeOK, JobRows
<1> DEFINE waits == \E i \in JobIds : jobs'[i].status = "CANCELLATION_REQUESTED"
           target == IF waits THEN "CANCELLING" ELSE "CANCELLED"
           gone == {<<jobs[i].stage, jobs[i].gen>> : i \in {k \in JobIds : jobs'[k].status = "CANCELLED"}}
           W == {p \in Stages \X Generations : p \in gone /\ rows[p[1]][p[2]].status # "RUNNING"}
<1>2. /\ jobs' = [i \in JobIds |-> CancelledJob(jobs[i])] /\ UNCHANGED <<latest, handler>>
      /\ canTransitionResearchRun(run.status, target) /\ SetRun(target)
      /\ rows' = IF ~waits THEN CloseAll
                 ELSE [s \in Stages |-> [g \in Generations |->
                         IF <<s, g>> \in gone /\ rows[s][g].status # "RUNNING"
                           THEN Closed(rows[s][g]) ELSE rows[s][g]]]
  BY DEF requestResearchRunCancellation
<1>3. \A r \in JobRows : CancelledJob(r) \in JobRows
  BY DEF CancelledJob, JobRows, JobStatuses
<1>4. /\ jobs' \in [JobIds -> JobRows]
      /\ \A j \in JobIds : jobs'[j] = jobs[j] \/ jobs'[j] = CancelledJob(jobs[j])
  BY <1>1, <1>2, <1>3
<1>5. target \in RunStatuses
  BY DEF RunStatuses
<1>6. run' \in [mode : Modes, status : RunStatuses] /\ run'.status = target /\ RunMoves
  <2> HIDE DEF target
  <2> QED BY <1>1, <1>2, <1>5, RunUpdated DEF RunMoves
<1>7. RowsSettled
  <2>1. CASE ~waits
    BY <1>2, <1>6, <2>1, AllRowsClosed
  <2>2. CASE waits
    <3>1. rows' = [s \in Stages |-> [g \in Generations |->
                     IF <<s, g>> \in W THEN Closed(rows[s][g]) ELSE rows[s][g]]]
      <4>1. \A s \in Stages, g \in Generations :
              <<s, g>> \in W <=> <<s, g>> \in gone /\ rows[s][g].status # "RUNNING"
        OBVIOUS
      <4> HIDE DEF W, gone
      <4> QED BY <1>2, <2>2, <4>1
    <3>2. run'.status # "CANCELLED"
      BY <1>6, <2>2
    <3> HIDE DEF W
    <3> QED BY <1>6, <3>1, <3>2, SomeClosed
  <2> QED BY <2>1, <2>2
<1> QED BY <1>2, <1>4, <1>7, JobsCancelled

\* approveRun.
LEMMA ApproveStep ==
  ASSUME PipelineInv, approveRun
  PROVE  PipelineInv' /\ Moves
<1>1. /\ TypeOK /\ run.status = "APPROVAL_REQUIRED" /\ SetRun("COMPLETED")
      /\ UNCHANGED <<rows, latest, jobs, handler>>
  BY DEF approveRun, PipelineInv
<1>2. run' \in [mode : Modes, status : RunStatuses] /\ run'.status = "COMPLETED"
  BY <1>1, RunUpdated DEF RunStatuses
<1>3. RunMoves
  BY <1>1, <1>2 DEF RunMoves, canTransitionResearchRun, runTransitions, RunStatuses
<1>4. RowsSettled
  BY <1>1, <1>2, <1>3, SameRows
<1>5. jobs' \in [JobIds -> JobRows]
  BY <1>1 DEF TypeOK, JobRows
<1> QED BY <1>1, <1>4, <1>5, JobsCancelled

\* resumeResearchRun queues a latest row again and submits a job for it.
LEMMA ResumeStep ==
  ASSUME PipelineInv, resumeResearchRun
  PROVE  PipelineInv' /\ Moves
<1>1. /\ TypeOK /\ GenerationsOK /\ latest \in [Stages -> Generations]
      /\ rows \in [Stages -> [Generations -> StageRows]]
      /\ run \in [mode : Modes, status : RunStatuses]
      /\ handler \in [JobIds -> [AttemptNumbers -> Attempts]]
  BY DEF PipelineInv, TypeOK, StageRows, Attempts
<1>2. PICK s \in Stages :
        /\ Latest(s).status # "SUCCEEDED"
        /\ Latest(s).status = "QUEUED" \/ canTransitionRunStage(Latest(s).status, "QUEUED")
        /\ rows' = [rows EXCEPT ![s][latest[s]].status = "QUEUED", ![s][latest[s]].hasInput = TRUE]
        /\ \E k \in JobIds : Fresh(k) /\ jobs' = [jobs EXCEPT ![k] = JobFor(s, latest[s], 0, 0, 0)]
  BY DEF resumeResearchRun
<1>3. /\ run.status \in {"CANCELLED", "FAILED", "PAUSED", "BLOCKED"} /\ SetRun("QUEUED")
      /\ UNCHANGED <<latest, handler>>
  BY DEF resumeResearchRun
<1> DEFINE n == latest[s]
           row == [rows[s][n] EXCEPT !.status = "QUEUED", !.hasInput = TRUE]
           job == JobFor(s, n, 0, 0, 0)
<1>4. n \in Generations /\ n <= latest[s] /\ rows[s][n] \in StageRows /\ rows[s][n].status \in StageStatuses
  <2>1. n \in Generations /\ n <= latest[s]
    BY <1>1 DEF Generations
  <2>2. rows[s][n].status # "NONE"
    BY <1>1, <2>1 DEF GenerationsOK, Generations
  <2> QED BY <1>1, <2>1, <2>2 DEF StageRows
<1>5. row \in StageRows /\ row.status = "QUEUED" /\ row.effects = rows[s][n].effects
  BY <1>4 DEF StageRows, StageStatuses
<1>6. rows' = [rows EXCEPT ![s][n] = row]
  BY <1>1, <1>2, <1>4
<1>7. /\ rows[s][n].status # "SUCCEEDED"
      /\ rows[s][n].status = "QUEUED" \/ canTransitionRunStage(rows[s][n].status, "QUEUED")
  BY <1>2 DEF Latest
<1>8. job \in JobRows /\ job.status = "QUEUED" /\ job.stage = s /\ job.gen = n
  <2>1. 0 \in 0..GenCap /\ 0 \in 0..(GenCap + 1)
    OBVIOUS
  <2> QED BY <1>4, <2>1, JobForType
<1>9. PICK k \in JobIds : Fresh(k) /\ jobs' = [jobs EXCEPT ![k] = job]
  BY <1>2
<1> HIDE DEF job, row, n
<1>10. /\ rows' \in [Stages -> [Generations -> StageRows]]
       /\ \A t \in Stages, g \in Generations :
            rows'[t][g] = IF t = s /\ g = n THEN row ELSE rows[t][g]
  BY <1>1, <1>4, <1>5, <1>6, NestedUpdate
<1>11. run' \in [mode : Modes, status : RunStatuses] /\ run'.status = "QUEUED"
  BY <1>1, <1>3, RunUpdated DEF RunStatuses
<1>12. RunMoves
  BY <1>3, <1>11 DEF RunMoves, canTransitionResearchRun, runTransitions, RunStatuses
<1>13. ASSUME NEW t \in Stages, NEW g \in Generations PROVE RowKept(t, g)
  BY <1>4, <1>5, <1>7, <1>10, <1>11 DEF RowKept, EffectsKept, Stopped, n
<1>14. RowsSettled
  BY <1>10, <1>11, <1>12, <1>13 DEF RowsSettled
<1>15. /\ jobs' \in [JobIds -> JobRows] /\ jobs[k].status = "NONE" /\ jobs'[k] = job
       /\ \A j \in JobIds : j # k => jobs'[j] = jobs[j]
       /\ \A j \in JobIds, b \in AttemptNumbers :
            assertCurrentRunStageJob(j, b)' => assertCurrentRunStageJob(j, b)
  BY <1>1, <1>8, <1>9, Submitted
<1>16. \A j \in JobIds :
         \/ jobs'[j] = jobs[j]
         \/ /\ jobs[j].status = "NONE" /\ jobs'[j].status # "NONE"
            /\ jobs'[j].gen <= latest[jobs'[j].stage]
  BY <1>4, <1>8, <1>15
<1>17. handler' = handler /\ latest' = latest
  BY <1>3
<1> QED BY <1>1, <1>14, <1>15, <1>16, <1>17, QueueStep

\* What restartRunStage does to the rows.
RestartedRow(s, t, h) ==
  IF t = s /\ h = latest[s] + 1 THEN QueuedRow
  ELSE IF t = s /\ h = latest[s] THEN Superseded(rows[t][h])
  ELSE IF t > s /\ h = latest[t] /\ rows[t][h].status = "SUCCEEDED" THEN MadeStale(rows[t][h])
  ELSE rows[t][h]

\* The statuses and effects of the rows after a restart, row by row.
LEMMA RestartedRowIs ==
  ASSUME PipelineInv, NEW s \in Stages, latest[s] + 1 <= GenCap, RestartPasses(s),
         NEW t \in Stages, NEW h \in Generations, NEW r, r = RestartedRow(s, t, h)
  PROVE  /\ r \in StageRows
         /\ t = s /\ h = latest[s] + 1 =>
              rows[t][h].status = "NONE" /\ r.status = "QUEUED" /\ r.effects = "none"
         /\ t = s /\ h = latest[s] =>
              r.status = rows[t][h].status /\ r.effects # "current" /\ r.status \notin OpenStages
         /\ t > s /\ h = latest[t] =>
              /\ r.status # "SUCCEEDED" /\ r.effects # "current"
              /\ r.status = rows[t][h].status \/ (rows[t][h].status = "SUCCEEDED" /\ r.status = "STALE")
         /\ t # s /\ h # latest[t] => r = rows[t][h]
         /\ t = s /\ h # latest[s] /\ h # latest[s] + 1 => r = rows[t][h]
         /\ t < s => r = rows[t][h]
<1>1. /\ latest \in [Stages -> Generations] /\ rows[t][h] \in StageRows /\ GenerationsOK /\ EffectsOfLatest
      /\ latest[s] \in Nat /\ t \in Nat /\ s \in Nat /\ h \in Nat /\ latest[t] \in Nat
  <2>1. /\ latest \in [Stages -> Generations] /\ rows \in [Stages -> [Generations -> StageRows]]
        /\ GenerationsOK /\ EffectsOfLatest
    BY DEF PipelineInv, RowsInv, TypeOK, StageRows
  <2>2. \A g \in Generations : g \in Nat
    BY DEF Generations
  <2>3. \A u \in Stages : u \in Nat
    BY DEF Stages
  <2> QED BY <2>1, <2>2, <2>3
<1> DEFINE row == rows[t][h]
<1>2. /\ Superseded(row) \in StageRows /\ Superseded(row).status = row.status
      /\ Superseded(row).effects # "current"
  <2> HIDE DEF row
  <2>1. row \in StageRows
    BY <1>1 DEF row
  <2> QED BY <2>1 DEF Superseded, StageRows
<1>3. /\ MadeStale(row) \in StageRows /\ MadeStale(row).status = "STALE"
      /\ MadeStale(row).effects # "current"
  <2>1. "STALE" \in StageStatuses
    BY DEF StageStatuses
  <2> DEFINE sup == Superseded(row)
  <2>2. MadeStale(row) = [sup EXCEPT !.status = "STALE"] /\ sup \in StageRows /\ sup.effects # "current"
    BY <1>2 DEF MadeStale
  <2> HIDE DEF sup
  <2> QED BY <2>1, <2>2 DEF StageRows
<1> HIDE DEF row
<1>4. CASE t = s /\ h = latest[s] + 1
  <2>1. row.status = "NONE" /\ r = QueuedRow
    BY <1>1, <1>4 DEF GenerationsOK, RestartedRow, row
  <2> QED BY <1>1, <1>4, <2>1, QueuedRowType DEF row
<1>5. CASE t = s /\ h = latest[s]
  <2>1. r = Superseded(row) /\ row.status \notin OpenStages
    <3>1. r = Superseded(row)
      BY <1>1, <1>5 DEF RestartedRow, row
    <3>2. row.status \in {"SUCCEEDED", "FAILED", "BLOCKED", "STALE", "CANCELLED"}
      BY <1>5 DEF RestartPasses, Latest, row
    <3> QED BY <3>1, <3>2 DEF OpenStages
  <2> QED BY <1>1, <1>2, <1>5, <2>1 DEF row
<1>6. CASE t > s /\ h = latest[t] /\ row.status = "SUCCEEDED"
  <2>1. r = MadeStale(row)
    BY <1>1, <1>6 DEF RestartedRow, row
  <2> QED BY <1>1, <1>3, <1>6, <2>1 DEF row
<1>7. CASE t > s /\ h = latest[t] /\ row.status # "SUCCEEDED"
  <2>1. r = row
    BY <1>1, <1>7 DEF RestartedRow, row
  <2>2. row.effects # "current"
    BY <1>1, <1>7 DEF EffectsOfLatest, row
  <2> QED BY <1>1, <1>7, <2>1, <2>2 DEF row
<1>8. CASE t < s \/ (t # s /\ h # latest[t]) \/ (t = s /\ h # latest[s] /\ h # latest[s] + 1)
  <2>1. r = row
    BY <1>1, <1>8 DEF RestartedRow, row
  <2> QED BY <1>1, <1>8, <2>1 DEF row
<1> QED BY <1>1, <1>4, <1>5, <1>6, <1>7, <1>8 DEF row

\* restartRunStage keeps the invariants about rows: what follows the restarted
\* stage is no longer done.
LEMMA RestartRows ==
  ASSUME PipelineInv, NEW s \in Stages, restartRunStage(s)
  PROVE  /\ run' \in [mode : Modes, status : RunStatuses]
         /\ rows' \in [Stages -> [Generations -> StageRows]]
         /\ latest' \in [Stages -> Generations] /\ latest[s] + 1 \in Generations
         /\ \A t \in Stages : latest'[t] = IF t = s THEN latest[s] + 1 ELSE latest[t]
         /\ GenerationsOK' /\ RowsInv' /\ Moves
<1>1. /\ TypeOK /\ GenerationsOK /\ latest \in [Stages -> Generations]
      /\ SucceededPrefix /\ EffectsOfLatest /\ SupersededAtRest
      /\ run \in [mode : Modes, status : RunStatuses]
  BY DEF PipelineInv, RowsInv, TypeOK
<1>2. /\ latest[s] + 1 <= GenCap /\ RestartPasses(s) /\ SetRun("QUEUED")
      /\ latest' = [latest EXCEPT ![s] = latest[s] + 1]
      /\ rows' = [t \in Stages |-> [h \in Generations |-> RestartedRow(s, t, h)]]
  BY DEF restartRunStage, RestartedRow
<1>3. ASSUME NEW t \in Stages, NEW h \in Generations
      PROVE  /\ rows'[t][h] \in StageRows
             /\ t = s /\ h = latest[s] + 1 =>
                  rows[t][h].status = "NONE" /\ rows'[t][h].status = "QUEUED" /\ rows'[t][h].effects = "none"
             /\ t = s /\ h = latest[s] =>
                  /\ rows'[t][h].status = rows[t][h].status /\ rows'[t][h].effects # "current"
                  /\ rows'[t][h].status \notin OpenStages
             /\ t > s /\ h = latest[t] =>
                  /\ rows'[t][h].status # "SUCCEEDED" /\ rows'[t][h].effects # "current"
                  /\ \/ rows'[t][h].status = rows[t][h].status
                     \/ rows[t][h].status = "SUCCEEDED" /\ rows'[t][h].status = "STALE"
             /\ t # s /\ h # latest[t] => rows'[t][h] = rows[t][h]
             /\ t = s /\ h # latest[s] /\ h # latest[s] + 1 => rows'[t][h] = rows[t][h]
             /\ t < s => rows'[t][h] = rows[t][h]
  <2>1. rows'[t][h] = RestartedRow(s, t, h)
    BY <1>2
  <2> QED BY <1>2, <2>1, RestartedRowIs
<1>4. rows' \in [Stages -> [Generations -> StageRows]]
  <2>1. \A t \in Stages, h \in Generations : RestartedRow(s, t, h) \in StageRows
    BY <1>2, RestartedRowIs
  <2> HIDE DEF RestartedRow
  <2> QED BY <1>2, <2>1
<1>5. run' \in [mode : Modes, status : RunStatuses] /\ run'.status = "QUEUED"
  BY <1>1, <1>2, RunUpdated DEF RunStatuses
<1>6. RunMoves
  BY <1>2, <1>5 DEF RestartPasses, RunMoves
<1>7. /\ latest[s] + 1 \in Generations /\ latest' \in [Stages -> Generations]
      /\ \A t \in Stages : latest'[t] = IF t = s THEN latest[s] + 1 ELSE latest[t]
  <2>1. latest[s] + 1 \in Generations
    BY <1>1, <1>2 DEF Generations
  <2> QED BY <1>1, <1>2, <2>1
<1>8. /\ \A t \in Stages : latest[t] \in Nat /\ t \in Nat
      /\ \A h \in Generations : h \in Nat
  BY <1>1 DEF Generations, Stages
<1>9. GenerationsOK'
  <2> SUFFICES ASSUME NEW t \in Stages, NEW h \in Generations
               PROVE  rows'[t][h].status = "NONE" <=> h > latest'[t]
    BY DEF GenerationsOK
  <2>1. rows[t][h].status = "NONE" <=> h > latest[t]
    BY <1>1 DEF GenerationsOK
  <2>2. CASE t = s /\ h = latest[s] + 1
    BY <1>3, <1>7, <1>8, <2>2
  <2>3. CASE t = s /\ h # latest[s] + 1
    <3>1. rows'[t][h].status = rows[t][h].status
      BY <1>3, <2>3
    <3>2. h > latest[s] <=> h > latest[s] + 1
      BY <1>8, <2>3
    <3> QED BY <1>7, <2>1, <2>3, <3>1, <3>2
  <2>4. CASE t # s
    <3>1. rows'[t][h].status = rows[t][h].status
          \/ (rows[t][h].status = "SUCCEEDED" /\ rows'[t][h].status = "STALE")
      <4>1. t > s \/ t < s
        BY <1>8, <2>4
      <4> QED BY <1>3, <2>4, <4>1
    <3> QED BY <1>7, <2>1, <2>4, <3>1
  <2> QED BY <2>2, <2>3, <2>4
<1>10. SucceededPrefix'
  <2> SUFFICES ASSUME NEW t \in Stages, t > 1, Latest(t)'.status = "SUCCEEDED"
               PROVE  Latest(t - 1)'.status = "SUCCEEDED"
    BY DEF SucceededPrefix
  <2>1. t - 1 \in Stages /\ latest[t] \in Generations /\ latest[t - 1] \in Generations
    BY <1>1 DEF Stages
  <2>2. t # s
    BY <1>3, <1>7 DEF Latest
  <2>3. ~(t > s)
    BY <1>3, <1>7, <1>8, <2>1 DEF Latest
  <2>4. t < s /\ t - 1 < s
    BY <1>8, <2>2, <2>3
  <2>5. Latest(t).status = "SUCCEEDED"
    BY <1>3, <1>7, <1>8, <2>1, <2>4 DEF Latest
  <2>6. Latest(t - 1).status = "SUCCEEDED"
    BY <1>1, <2>5 DEF SucceededPrefix
  <2>7. t - 1 # s
    BY <1>8, <2>4
  <2> QED BY <1>3, <1>7, <2>1, <2>4, <2>6, <2>7 DEF Latest
<1>11. EffectsOfLatest'
  <2> SUFFICES ASSUME NEW t \in Stages, NEW h \in Generations
               PROVE  /\ rows'[t][h].effects = "current" =>
                           h = latest'[t] /\ rows'[t][h].status = "SUCCEEDED"
                      /\ h = latest'[t] /\ rows'[t][h].status = "SUCCEEDED" =>
                           rows'[t][h].effects \in {"current", "displaced"}
    BY DEF EffectsOfLatest
  <2>1. /\ rows[t][h].effects = "current" => h = latest[t] /\ rows[t][h].status = "SUCCEEDED"
        /\ h = latest[t] /\ rows[t][h].status = "SUCCEEDED" =>
             rows[t][h].effects \in {"current", "displaced"}
    BY <1>1 DEF EffectsOfLatest
  <2>2. CASE t = s
    BY <1>3, <1>7, <1>8, <2>1, <2>2
  <2>3. CASE t # s
    <3>1. t > s \/ t < s
      BY <1>8, <2>3
    <3> QED BY <1>3, <1>7, <2>1, <2>3, <3>1
  <2> QED BY <2>2, <2>3
<1>12. SupersededAtRest'
  <2> SUFFICES ASSUME NEW t \in Stages, NEW h \in Generations, h < latest'[t]
               PROVE  rows'[t][h].status \notin OpenStages
    BY DEF SupersededAtRest
  <2>1. h < latest[t] => rows[t][h].status \notin OpenStages
    BY <1>1 DEF SupersededAtRest
  <2>2. CASE t = s
    <3>1. h = latest[s] \/ (h < latest[s] /\ h # latest[s] + 1)
      BY <1>7, <1>8, <2>2
    <3>2. h < latest[s] => h # latest[s]
      BY <1>8
    <3> QED BY <1>3, <2>1, <2>2, <3>1, <3>2
  <2>3. CASE t # s
    <3>1. h < latest[t] /\ h # latest[t]
      BY <1>7, <1>8, <2>3
    <3> QED BY <1>3, <2>1, <2>3, <3>1
  <2> QED BY <2>2, <2>3
<1>13. ClosedWhenCancelled'
  BY <1>5 DEF ClosedWhenCancelled
<1>14. ASSUME NEW t \in Stages, NEW h \in Generations PROVE RowMoves(t, h)
  <2>1. \/ rows'[t][h].status = rows[t][h].status
        \/ rows[t][h].status = "NONE" /\ rows'[t][h].status = "QUEUED"
        \/ rows[t][h].status = "SUCCEEDED" /\ rows'[t][h].status = "STALE"
    <3>1. t = s \/ t > s \/ t < s
      BY <1>8
    <3> QED BY <1>3, <3>1
  <2>2. canTransitionRunStage("SUCCEEDED", "STALE")
    BY DEF canTransitionRunStage, stageTransitions, StageStatuses
  <2>3. run'.status \notin Stopped
    BY <1>5 DEF Stopped
  <2> QED BY <2>1, <2>2, <2>3 DEF RowMoves
<1> QED BY <1>4, <1>5, <1>6, <1>7, <1>9, <1>10, <1>11, <1>12, <1>13, <1>14 DEF RowsInv, Moves

\* restartRunStage submits the job of the new generation.  No other job runs,
\* so no handler is about to queue a stage.
LEMMA RestartStep ==
  ASSUME PipelineInv, NEW s \in Stages, restartRunStage(s)
  PROVE  PipelineInv' /\ Moves
<1> DEFINE n == latest[s] + 1
           job == JobFor(s, n, 0, 0, 0)
<1>1. /\ TypeOK /\ JobsOK /\ latest \in [Stages -> Generations] /\ jobs \in [JobIds -> JobRows]
      /\ handler \in [JobIds -> [AttemptNumbers -> Attempts]]
      /\ \A i \in JobIds, a \in AttemptNumbers : TargetOK(i, a)
  BY DEF PipelineInv, TypeOK, JobRows, Attempts
<1>2. PICK k \in JobIds : Fresh(k) /\ jobs' = [jobs EXCEPT ![k] = job]
  BY DEF restartRunStage
<1>3. handler' = handler /\ ActiveJobs(jobs) = {}
  BY DEF restartRunStage, RestartPasses
<1>4. /\ run' \in [mode : Modes, status : RunStatuses]
      /\ rows' \in [Stages -> [Generations -> StageRows]]
      /\ latest' \in [Stages -> Generations] /\ n \in Generations
      /\ \A t \in Stages : latest'[t] = IF t = s THEN n ELSE latest[t]
      /\ GenerationsOK' /\ RowsInv' /\ Moves
  BY RestartRows
<1>5. job \in JobRows /\ job.status = "QUEUED" /\ job.stage = s /\ job.gen = n
  <2>1. 0 \in 0..GenCap /\ 0 \in 0..(GenCap + 1)
    OBVIOUS
  <2> HIDE DEF n
  <2> QED BY <1>4, <2>1, JobForType
<1>6. \A g \in Generations : g \in Nat
  BY DEF Generations
<1>7. \A t \in Stages : latest[t] <= latest'[t] /\ latest[t] \in Nat /\ latest'[t] \in Nat
  BY <1>1, <1>4, <1>6
<1> HIDE DEF job, n
<1>8. /\ jobs' \in [JobIds -> JobRows] /\ jobs[k].status = "NONE" /\ jobs'[k] = job
      /\ \A j \in JobIds : j # k => jobs'[j] = jobs[j]
      /\ \A j \in JobIds, b \in AttemptNumbers :
           assertCurrentRunStageJob(j, b)' => assertCurrentRunStageJob(j, b)
  BY <1>1, <1>2, <1>5, Submitted
<1>9. TypeOK'
  BY <1>1, <1>3, <1>4, <1>8 DEF TypeOK, StageRows, JobRows, Attempts
<1>10. JobsOK'
  <2> SUFFICES ASSUME NEW j \in JobIds
               PROVE  /\ jobs'[j].gen <= latest'[jobs'[j].stage]
                      /\ \A b \in AttemptNumbers : handler'[j][b].pc # "none" => jobs'[j].status # "NONE"
    BY DEF JobsOK, Pc
  <2>1. CASE j = k
    BY <1>4, <1>5, <1>6, <1>8, <2>1
  <2>2. CASE j # k
    <3>1. /\ jobs[j].gen <= latest[jobs[j].stage] /\ jobs[j].stage \in Stages /\ jobs[j].gen \in Nat
      BY <1>1, <1>6 DEF JobsOK, JobRows
    <3>2. jobs[j].gen <= latest'[jobs[j].stage]
      BY <1>7, <3>1
    <3>3. jobs'[j] = jobs[j]
      BY <1>8, <2>2
    <3> QED BY <1>1, <1>3, <3>2, <3>3 DEF JobsOK, Pc
  <2> QED BY <2>1, <2>2
<1>11. \A j \in JobIds, b \in AttemptNumbers : ~ assertCurrentRunStageJob(j, b)'
  <2>1. \A j \in JobIds, b \in AttemptNumbers : ~ assertCurrentRunStageJob(j, b)
    BY <1>3 DEF ActiveJobs, assertCurrentRunStageJob, LeasedStatuses
  <2> QED BY <1>8, <2>1
<1>12. ASSUME NEW j \in JobIds, NEW b \in AttemptNumbers PROVE TargetOK(j, b)'
  <2> SUFFICES ASSUME handler'[j][b].pc \in Queueing
               PROVE  jobs'[j].stage + 1 \in Stages /\ handler'[j][b].arg \in 1..latest'[jobs'[j].stage + 1]
    BY <1>11 DEF TargetOK, Pc
  <2>1. handler'[j][b] = handler[j][b] /\ Pc(j, b) \in Queueing
    BY <1>3 DEF Pc
  <2>2. jobs'[j] = jobs[j]
    BY <1>1, <1>8, <2>1 DEF JobsOK, Queueing
  <2> DEFINE t == jobs[j].stage + 1
             m == handler[j][b].arg
  <2>3. t \in Stages /\ m \in 1..latest[t]
    BY <1>1, <2>1 DEF TargetOK
  <2> HIDE DEF t, m
  <2>4. m \in 1..latest'[t]
    BY <1>7, <2>3
  <2> QED BY <2>1, <2>2, <2>3, <2>4 DEF t, m
<1> QED BY <1>4, <1>9, <1>10, <1>12 DEF PipelineInv

\* Another run's commit leaves the statuses of the rows alone.
LEMMA OtherRunStep ==
  ASSUME PipelineInv, NEW s \in Stages, OtherRunCommits(s)
  PROVE  PipelineInv' /\ Moves
<1>1. /\ UNCHANGED <<run, latest, jobs, handler>>
      /\ rows' = [rows EXCEPT ![s] = [g \in Generations |-> Displaced(rows[s][g])]]
  BY DEF OtherRunCommits
<1>2. /\ run \in [mode : Modes, status : RunStatuses] /\ ClosedWhenCancelled
      /\ rows \in [Stages -> [Generations -> StageRows]]
      /\ jobs \in [JobIds -> JobRows] /\ handler \in [JobIds -> [AttemptNumbers -> Attempts]]
  BY DEF PipelineInv, TypeOK, RowsInv, StageRows, JobRows, Attempts
<1>3. ASSUME NEW r \in StageRows
      PROVE  /\ Displaced(r) \in StageRows /\ Displaced(r).status = r.status
             /\ \/ Displaced(r).effects = r.effects
                \/ r.effects = "current" /\ Displaced(r).effects = "displaced"
  BY DEF Displaced, StageRows
<1>4. ASSUME NEW t \in Stages, NEW g \in Generations
      PROVE  rows'[t][g] = IF t = s THEN Displaced(rows[t][g]) ELSE rows[t][g]
  BY <1>1, <1>2
<1>5. rows' \in [Stages -> [Generations -> StageRows]]
  <2>1. [g \in Generations |-> Displaced(rows[s][g])] \in [Generations -> StageRows]
    BY <1>2, <1>3
  <2> QED BY <1>1, <1>2, <2>1
<1>6. ASSUME NEW t \in Stages, NEW g \in Generations
      PROVE  RowKept(t, g) /\ rows'[t][g].status = rows[t][g].status
  <2>1. rows[t][g] \in StageRows
    BY <1>2
  <2> QED BY <1>3, <1>4, <2>1 DEF RowKept, EffectsKept
<1>7. RowsSettled
  BY <1>1, <1>2, <1>5, <1>6 DEF RowsSettled, RunMoves, AllClosed, ClosedWhenCancelled
<1> QED BY <1>1, <1>2, <1>7, QueueStep DEF assertCurrentRunStageJob

-----------------------------------------------------------------------------
(* Every step.                                                             *)

\* The state createResearchRun leaves.
LEMMA InitialRun == Init => PipelineInv
<1> SUFFICES ASSUME Init PROVE PipelineInv
  OBVIOUS
<1>1. 1 \in Stages /\ 1 \in Generations /\ 1 \in JobIds
  BY DEF Stages, Generations, JobIds
<1>2. QueuedRow \in StageRows /\ QueuedRow.status = "QUEUED" /\ QueuedRow.effects = "none"
  BY QueuedRowType
<1>3. /\ NoRow \in StageRows /\ NoRow.status = "NONE" /\ NoRow.effects = "none"
      /\ PendingRow \in StageRows /\ PendingRow.status = "PENDING" /\ PendingRow.effects = "none"
  <2>1. NoRow \in StageRows /\ NoRow.status = "NONE" /\ NoRow.effects = "none"
    BY DEF NoRow, StageRows
  <2>2. PendingRow = [NoRow EXCEPT !.status = "PENDING"]
    BY DEF PendingRow
  <2> HIDE DEF NoRow
  <2> QED BY <2>1, <2>2 DEF StageRows, StageStatuses
<1> DEFINE first == JobFor(1, 1, 1, 0, 0)
<1>4. first \in JobRows /\ first.status = "QUEUED" /\ first.gen = 1 /\ first.stage = 1
  <2>1. 1 \in 0..(GenCap + 1) /\ 0 \in 0..GenCap
    OBVIOUS
  <2> QED BY <1>1, <2>1, JobForType
<1>5. NoJob \in JobRows /\ NoJob.stage = 1 /\ NoJob.gen = 1
  BY <1>1 DEF NoJob, JobRows
<1>6. /\ run \in [mode : Modes, status : RunStatuses] /\ run.status = "QUEUED"
      /\ latest = [s \in Stages |-> 1]
      /\ jobs = [i \in JobIds |-> IF i = 1 THEN first ELSE NoJob]
      /\ handler = [i \in JobIds |-> [a \in AttemptNumbers |-> [pc |-> "none", arg |-> 0]]]
  BY DEF Init, RunStatuses
<1> HIDE DEF first
<1>7. \A s \in Stages, g \in Generations :
        /\ rows[s][g] = IF g > 1 THEN NoRow ELSE IF s = 1 THEN QueuedRow ELSE PendingRow
        /\ latest[s] = 1 /\ g \in Nat /\ g >= 1
  BY <1>6 DEF Init, Generations
<1>8. rows \in [Stages -> [Generations -> StageRows]]
  <2> HIDE DEF NoRow, QueuedRow, PendingRow
  <2> QED BY <1>2, <1>3 DEF Init
<1>9. handler \in [JobIds -> [AttemptNumbers -> Attempts]] /\ \A i \in JobIds, a \in AttemptNumbers : Pc(i, a) = "none"
  <2>1. [pc |-> "none", arg |-> 0] \in Attempts
    BY DEF Attempts, Pcs
  <2> QED BY <1>6, <2>1 DEF Pc
<1>10. latest \in [Stages -> Generations] /\ jobs \in [JobIds -> JobRows]
  BY <1>1, <1>4, <1>5, <1>6
<1>11. TypeOK
  BY <1>6, <1>8, <1>9, <1>10 DEF TypeOK, StageRows, JobRows, Attempts
<1>12. GenerationsOK /\ EffectsOfLatest /\ SupersededAtRest
  BY <1>2, <1>3, <1>7 DEF GenerationsOK, EffectsOfLatest, SupersededAtRest
<1>13. SucceededPrefix
  <2> SUFFICES ASSUME NEW s \in Stages PROVE Latest(s).status # "SUCCEEDED"
    BY DEF SucceededPrefix
  <2> QED BY <1>1, <1>2, <1>3, <1>7 DEF Latest
<1>14. ClosedWhenCancelled
  BY <1>6 DEF ClosedWhenCancelled
<1>15. JobsOK
  BY <1>1, <1>4, <1>5, <1>6, <1>9 DEF JobsOK
<1>16. \A i \in JobIds, a \in AttemptNumbers : TargetOK(i, a)
  BY <1>9 DEF TargetOK, Queueing
<1> QED BY <1>11, <1>12, <1>13, <1>14, <1>15, <1>16 DEF PipelineInv, RowsInv

\* A step of a handler.
LEMMA HandlerSteps ==
  ASSUME PipelineInv, NEW i \in JobIds, NEW a \in AttemptNumbers, Handler(i, a)
  PROVE  PipelineInv' /\ Moves
BY StartStep, ReadOnlyStep, ProviderStep, CommitStep, BlockStep, RouteStep, BoundaryStep, QueueStageStep
   DEF Handler

\* Every step of the system keeps the invariant and moves along the tables.
LEMMA PipelineStep ==
  ASSUME PipelineInv, Next
  PROVE  PipelineInv' /\ Moves
<1>1. ASSUME NEW i \in JobIds,
             claimJob(i) \/ AttemptLost(i) \/ releaseJobLease(i)
               \/ acknowledgeJobCancellation(i) \/ requestJobCancellation(i)
      PROVE  PipelineInv' /\ Moves
  BY <1>1, ClaimStep, AttemptOverStep, JobLeftStep, CancelJobStep
<1>2. ASSUME NEW i \in JobIds, NEW a \in AttemptNumbers, Handler(i, a) PROVE PipelineInv' /\ Moves
  BY <1>2, HandlerSteps
<1>3. ASSUME NEW i \in JobIds, NEW a \in AttemptNumbers, QueueCall(i, a) PROVE PipelineInv' /\ Moves
  BY <1>3, AttemptOverStep, JobLeftStep DEF QueueCall
<1>4. CASE requestResearchRunCancellation \/ resumeResearchRun \/ approveRun
  BY <1>4, CancelRunStep, ResumeStep, ApproveStep
<1>5. ASSUME NEW s \in Stages, restartRunStage(s) PROVE PipelineInv' /\ Moves
  BY <1>5, RestartStep
<1>6. ASSUME NEW s \in Stages, OtherRunCommits(s) PROVE PipelineInv' /\ Moves
  BY <1>6, OtherRunStep
<1> QED BY <1>1, <1>2, <1>3, <1>4, <1>5, <1>6 DEF Next

\* A step that leaves the variables alone.
LEMMA PipelineStutter ==
  ASSUME PipelineInv, UNCHANGED vars
  PROVE  PipelineInv'
<1>1. UNCHANGED <<run, rows, latest, jobs, handler>>
  BY DEF vars
<1>2. TypeOK' /\ GenerationsOK'
  BY <1>1 DEF PipelineInv, TypeOK, GenerationsOK
<1>3. JobsOK'
  BY <1>1 DEF PipelineInv, JobsOK, Pc
<1>4. RowsInv'
  BY <1>1 DEF PipelineInv, RowsInv, SucceededPrefix, EffectsOfLatest, SupersededAtRest,
              ClosedWhenCancelled, Latest
<1>5. \A i \in JobIds, a \in AttemptNumbers : TargetOK(i, a)'
  BY <1>1 DEF PipelineInv, TargetOK, Pc, assertCurrentRunStageJob
<1> QED BY <1>2, <1>3, <1>4, <1>5 DEF PipelineInv

-----------------------------------------------------------------------------
(* The theorems.                                                           *)

\* The invariant of a run, its jobs and their handlers.
THEOREM PipelineInvariant == Spec => []PipelineInv
<1>1. PipelineInv /\ [Next]_vars => PipelineInv'
  BY PipelineStep, PipelineStutter
<1> QED BY InitialRun, <1>1, PTL DEF Spec

\* No stage counts as done over a predecessor that is being redone.
THEOREM SucceededPrefixHolds == Spec => []SucceededPrefix
<1>1. PipelineInv => SucceededPrefix
  BY DEF PipelineInv, RowsInv
<1> QED BY <1>1, PipelineInvariant, PTL

\* The current domain effects of a stage are those of its latest generation when
\* it has succeeded, and it has them unless another run has committed the stage.
THEOREM EffectsOfLatestHolds == Spec => []EffectsOfLatest
<1>1. PipelineInv => EffectsOfLatest
  BY DEF PipelineInv, RowsInv
<1> QED BY <1>1, PipelineInvariant, PTL

\* A superseded generation is never queued or executed again.
THEOREM SupersededAtRestHolds == Spec => []SupersededAtRest
<1>1. PipelineInv => SupersededAtRest
  BY DEF PipelineInv, RowsInv
<1> QED BY <1>1, PipelineInvariant, PTL

\* A cancelled run has no open stage row.
THEOREM ClosedWhenCancelledHolds == Spec => []ClosedWhenCancelled
<1>1. PipelineInv => ClosedWhenCancelled
  BY DEF PipelineInv, RowsInv
<1> QED BY <1>1, PipelineInvariant, PTL

\* No stage of a cancelled, failed or completed run is queued, started or
\* committed while the run stays so.
THEOREM StoppedRunFrozenHolds == Spec => StoppedRunFrozen
<1>1. PipelineInv /\ [Next]_vars =>
        [ run.status \in {"CANCELLED", "COMPLETED", "FAILED"} /\ run'.status = run.status =>
            \A s \in Stages, g \in Generations :
              rows'[s][g].status \in {"QUEUED", "RUNNING", "SUCCEEDED"} =>
                rows'[s][g].status = rows[s][g].status ]_vars
  <2> SUFFICES ASSUME PipelineInv, Next, run.status \in Stopped, run'.status = run.status,
                      NEW s \in Stages, NEW g \in Generations,
                      rows'[s][g].status \in {"QUEUED", "RUNNING", "SUCCEEDED"}
               PROVE  rows'[s][g].status = rows[s][g].status
    BY DEF Stopped
  <2>1. RowMoves(s, g)
    BY PipelineStep DEF Moves
  <2> QED BY <2>1 DEF RowMoves
<1> QED BY <1>1, PipelineInvariant, PTL DEF Spec, StoppedRunFrozen

\* Runs and stage rows change along their transition tables only.
THEOREM TransitionsFollowTablesHolds == Spec => TransitionsFollowTables
<1>1. PipelineInv /\ [Next]_vars =>
        [ /\ run'.status = run.status \/ canTransitionResearchRun(run.status, run'.status)
          /\ \A s \in Stages, g \in Generations :
               IF rows[s][g].status = "NONE"
                 THEN rows'[s][g].status \in {"NONE", "QUEUED"}
                 ELSE \/ rows'[s][g].status = rows[s][g].status
                      \/ canTransitionRunStage(rows[s][g].status, rows'[s][g].status) ]_vars
  <2> SUFFICES ASSUME PipelineInv, Next
               PROVE  /\ run'.status = run.status \/ canTransitionResearchRun(run.status, run'.status)
                      /\ \A s \in Stages, g \in Generations :
                           IF rows[s][g].status = "NONE"
                             THEN rows'[s][g].status \in {"NONE", "QUEUED"}
                             ELSE \/ rows'[s][g].status = rows[s][g].status
                                  \/ canTransitionRunStage(rows[s][g].status, rows'[s][g].status)
    OBVIOUS
  <2>1. RunMoves /\ \A s \in Stages, g \in Generations : RowMoves(s, g)
    BY PipelineStep DEF Moves
  <2> QED BY <2>1 DEF RunMoves, RowMoves
<1> QED BY <1>1, PipelineInvariant, PTL DEF Spec, TransitionsFollowTables
=============================================================================

-------------------------- MODULE StageCallsProofs --------------------------
(***************************************************************************)
(* Proofs about StageCalls, for any finite set of jobs, any number of      *)
(* attempts and every budget.  The invariant says of each attempt what its *)
(* permit, its execution and the answer it carries may be at each place of *)
(* its handler; the totals of the run are bounded together with the jobs   *)
(* that still have a call to record.                                       *)
(***************************************************************************)
EXTENDS StageCalls, FiniteSetTheorems, TLAPS

USE WorkerJobsAssumption DEF WorkerJobsAssumption
USE ProviderAccessAssumption DEF ProviderAccessAssumption
USE StageCallsAssumption DEF StageCallsAssumption

-----------------------------------------------------------------------------
(* The inductive invariant.                                                *)

JobRows == [ status : JobQueueStatuses, attempts : 0..AttemptCap, max : 0..AttemptCap,
             input : {NoInput} ]
Places == Outcomes \cup { "none", "start", "reload", "permit", "fence", "execute", "call",
                          "release", "finish", "record", "block", "commit", "done" }
Permits == {"none", "held", "released", "expired"}
Responses == ResponseIds \cup {NoResponse}
Executions == [ status : {"NONE", "STARTED", "SUCCEEDED", "REJECTED", "FAILED"},
                response : Responses ]
Returned == {"output", "invalid", "failed", "thrown"}
Answers == [ kind : Returned \cup {"none", "duplicate"}, usage : Usages \cup {"none"},
             response : Responses ]
Carried == [ before : [requests : Nat, tokens : Nat], answer : Answers ]
Handlers == [ pc : Places, outcome : Outcomes \cup {"none", "finish"},
              data : {{}} \cup Carried ]
Costs == {"KNOWN", "UNKNOWN"}

Runs == [ status : RunStatuses, requests : Nat, tokens : Nat, cost : Costs ]
Stages == [ status : StageStatuses, output : Responses, last : {NoOwner} \cup Owners ]

TypeOK ==
  /\ jobs \in [JobIds -> JobRows]
  /\ permits \in [Owners -> Permits] /\ window \in Nat
  /\ executions \in [Owners -> Executions]
  /\ handler \in [Owners -> Handlers]
  /\ run \in Runs /\ stage \in Stages
  /\ costs \in SUBSET Costs

\* A handler past its preflight that has not recorded its call yet.
Pending(h) ==
  \/ h.pc \in {"permit", "fence", "execute", "call", "finish", "record"}
  \/ h.pc = "release" /\ h.outcome = "finish"

\* A handler whose execution has started and is not finished.
Unfinished(h) ==
  \/ h.pc \in {"call", "finish"}
  \/ h.pc = "release" /\ h.outcome = "finish"

\* A job that was never submitted has no attempt.
JobsOK == \A j \in JobIds : jobs[j].status = "NONE" => jobs[j].attempts = 0

\* What the handler h, the permit p and the execution e of attempt a may be
\* when the job row is job.
AttemptFits(job, a, h, p, e) ==
  /\ a > job.attempts => h.pc = "none"
  /\ Pending(h) => h.data \in Carried
  /\ h.pc = "release" => h.outcome \in {"finish", "failFatal", "failRetryable"}
  /\ h.pc \in {"none", "start", "reload", "permit"} => p = "none"
  /\ h.pc \in {"fence", "execute", "call"} => p \in {"held", "expired"}
  /\ h.pc \in Outcomes \cup {"block", "commit"} => p # "held"
  /\ h.pc \in {"finish", "record"} /\ h.data.answer.kind # "thrown" => p # "held"
  /\ h.pc \in {"none", "start", "reload", "permit", "fence", "execute"} =>
       e.status = "NONE" /\ e.response = NoResponse
  /\ Unfinished(h) => e.status = "STARTED" /\ e.response = NoResponse
  /\ h.pc = "release" /\ h.outcome = "finish" =>
       h.data.answer.kind \in Returned \ {"thrown"} /\ h.data.answer.response \in ResponseIds
  /\ h.pc = "finish" => /\ h.data.answer.kind \in Returned
                        /\ h.data.answer.kind # "thrown" => h.data.answer.response \in ResponseIds
  /\ h.pc = "record" => h.data.answer.kind # "none"
  /\ h.pc = "record" /\ h.data.answer.kind = "output" =>
       /\ h.data.answer.response \in ResponseIds
       /\ e.status = "SUCCEEDED" /\ e.response = h.data.answer.response

AttemptsOK ==
  \A o \in Owners : AttemptFits(jobs[o[1]], o[2], handler[o], permits[o], executions[o])

\* An attempt that is about to succeed has committed its stage.
CommittedOK == \A o \in Owners : Pc(o) = "returned" => stage.status = "SUCCEEDED"

PermitsOK == IsFiniteSet(InFlight) /\ Cardinality(InFlight) <= ConcurrencyLimit

\* The jobs whose present attempt has a call to record.
PendingJobs ==
  {j \in JobIds : \E a \in AttemptNumbers : jobs[j].attempts = a /\ Pending(handler[<<j, a>>])}

\* The totals leave room for every call that is still to be recorded.
TotalsOK ==
  /\ run.requests + Cardinality(PendingJobs) < MaxProviderRequests + Cardinality(JobIds)
  /\ run.tokens + Cardinality(PendingJobs) <= MaxTokens + Cardinality(JobIds)

CostsOK ==
  /\ run.requests = 0 => costs = {}
  /\ "UNKNOWN" \in costs => run.cost = "UNKNOWN"

\* A stage that waits or runs is one of a run that does, or is being cancelled.
RunOK == stage.status \in {"QUEUED", "RUNNING"} => run.status \in {"QUEUED", "RUNNING", "CANCELLING"}

\* A job that could record a call after the output was stored is not the only
\* one that is active.
StoredOK ==
  stage.output # NoResponse /\ stage.status \in {"QUEUED", "RUNNING"} =>
    \A j \in PendingJobs :
      jobs[j].status = "RUNNING" => \E k \in JobIds \ {j} : Active(k)

CallsInv ==
  /\ TypeOK /\ JobsOK /\ AttemptsOK /\ PermitsOK /\ TotalsOK /\ CostsOK /\ RunOK
  /\ CommittedOK /\ ResponseUsedOnce /\ StoredOK

-----------------------------------------------------------------------------
(* Handlers.                                                               *)

\* An owner is a job and the number of an attempt of it.
LEMMA OwnerIs ==
  /\ \A o \in Owners : o[1] \in JobIds /\ o[2] \in AttemptNumbers /\ o = <<o[1], o[2]>>
  /\ \A j \in JobIds, a \in AttemptNumbers :
       /\ <<j, a>> \in Owners /\ <<j, a>>[1] = j /\ <<j, a>>[2] = a
       /\ a \in Nat /\ a > 0
  BY DEF Owners, AttemptNumbers

\* Leave moves one handler and forgets what it carried.
LEMMA LeaveIs ==
  ASSUME TypeOK, NEW o \in Owners, NEW pc \in Places, NEW outcome \in Outcomes, Leave(o, pc, outcome)
  PROVE  /\ handler' \in [Owners -> Handlers]
         /\ handler'[o].pc = pc /\ handler'[o].outcome = outcome
         /\ \A q \in Owners \ {o} : handler'[q] = handler[q]
<1> DEFINE h == [NoHandler EXCEPT !.pc = pc, !.outcome = outcome]
<1>1. h \in Handlers /\ h.pc = pc /\ h.outcome = outcome
  BY DEF NoHandler, Handlers, Places
<1>2. handler' = [handler EXCEPT ![o] = h] /\ handler \in [Owners -> Handlers]
  BY DEF Leave, TypeOK
<1> HIDE DEF h
<1> QED BY <1>1, <1>2

\* Goto keeps the outcome and what the handler carries.
LEMMA GotoIs ==
  ASSUME TypeOK, NEW o \in Owners, NEW pc \in Places, Goto(o, pc)
  PROVE  /\ handler' \in [Owners -> Handlers] /\ handler'[o].pc = pc
         /\ handler'[o].outcome = handler[o].outcome /\ handler'[o].data = handler[o].data
         /\ \A q \in Owners \ {o} : handler'[q] = handler[q]
<1> DEFINE h == [handler[o] EXCEPT !.pc = pc]
<1>1. handler \in [Owners -> Handlers] /\ handler[o] \in Handlers
  BY DEF TypeOK
<1>2. /\ h \in Handlers /\ h.pc = pc /\ h.outcome = handler[o].outcome
      /\ h.data = handler[o].data
  BY <1>1 DEF Handlers
<1>3. handler' = [handler EXCEPT ![o] = h]
  BY <1>1 DEF Goto
<1> HIDE DEF h
<1> QED BY <1>1, <1>2, <1>3

\* GotoWith keeps the outcome.
LEMMA GotoWithIs ==
  ASSUME TypeOK, NEW o \in Owners, NEW pc \in Places, NEW data \in Carried, GotoWith(o, pc, data)
  PROVE  /\ handler' \in [Owners -> Handlers] /\ handler'[o].pc = pc
         /\ handler'[o].outcome = handler[o].outcome /\ handler'[o].data = data
         /\ \A q \in Owners \ {o} : handler'[q] = handler[q]
<1> DEFINE h == [handler[o] EXCEPT !.pc = pc, !.data = data]
<1>1. handler \in [Owners -> Handlers] /\ handler[o] \in Handlers
  BY DEF TypeOK
<1>2. h \in Handlers /\ h.pc = pc /\ h.outcome = handler[o].outcome /\ h.data = data
  BY <1>1 DEF Handlers
<1>3. handler' = [handler EXCEPT ![o] = h]
  BY <1>1 DEF GotoWith
<1> HIDE DEF h
<1> QED BY <1>1, <1>2, <1>3

\* Answered gives a handler that carries something a new answer.
LEMMA AnsweredIs ==
  ASSUME TypeOK, NEW o \in Owners, handler[o].data \in Carried, NEW pc \in Places,
         NEW outcome \in Outcomes \cup {"none", "finish"}, NEW answer \in Answers,
         Answered(o, pc, outcome, answer)
  PROVE  /\ handler' \in [Owners -> Handlers] /\ handler'[o].pc = pc
         /\ handler'[o].outcome = outcome
         /\ handler'[o].data \in Carried /\ handler'[o].data.answer = answer
         /\ \A q \in Owners \ {o} : handler'[q] = handler[q]
<1> DEFINE data == Carry(handler[o].data.before, answer)
           h == [pc |-> pc, outcome |-> outcome, data |-> data]
<1>1. data \in Carried /\ data.answer = answer
  BY DEF Carry, Carried
<1>2. handler' = [handler EXCEPT ![o] = [pc |-> pc, outcome |-> outcome, data |-> data]]
  BY DEF Answered, TypeOK
<1> HIDE DEF data
<1>3. h \in Handlers /\ h.pc = pc /\ h.outcome = outcome /\ h.data = data
  BY <1>1 DEF Handlers
<1>4. handler \in [Owners -> Handlers] /\ handler' = [handler EXCEPT ![o] = h]
  BY <1>2 DEF TypeOK
<1> HIDE DEF h
<1> QED BY <1>1, <1>3, <1>4

\* EndHandler and CrashHandler leave a handler that is done.
LEMMA EndIs ==
  ASSUME TypeOK, NEW o \in Owners, EndHandler(o)
  PROVE  /\ handler' \in [Owners -> Handlers] /\ handler'[o].pc = "done"
         /\ \A q \in Owners \ {o} : handler'[q] = handler[q]
<1> DEFINE h == [NoHandler EXCEPT !.pc = "done"]
<1>1. h \in Handlers /\ h.pc = "done"
  BY DEF NoHandler, Handlers, Places
<1>2. handler' = [handler EXCEPT ![o] = h] /\ handler \in [Owners -> Handlers]
  BY DEF EndHandler, TypeOK
<1> HIDE DEF h
<1> QED BY <1>1, <1>2

-----------------------------------------------------------------------------
(* Permits and totals.                                                     *)

\* A permit is given out below the limit only.
LEMMA PermitTaken ==
  ASSUME TypeOK, PermitsOK, NEW o \in Owners, permits' = [permits EXCEPT ![o] = "held"],
         Cardinality(InFlight) < ConcurrencyLimit
  PROVE  PermitsOK'
<1>1. InFlight' = InFlight \cup {o}
  BY DEF TypeOK, InFlight
<1>2. IsFiniteSet(InFlight) /\ Cardinality(InFlight) \in Nat
  BY FS_CardinalityType DEF PermitsOK
<1>3. /\ IsFiniteSet(InFlight \cup {o})
      /\ Cardinality(InFlight \cup {o}) \in {Cardinality(InFlight), Cardinality(InFlight) + 1}
  BY <1>2, FS_AddElement
<1> QED BY <1>1, <1>2, <1>3 DEF PermitsOK

\* Permits that are given back, expire or stay.
LEMMA PermitsLeft ==
  ASSUME PermitsOK, \A o \in Owners : permits'[o] = "held" => permits[o] = "held"
  PROVE  PermitsOK'
<1>1. InFlight' \subseteq InFlight
  BY DEF InFlight
<1>2. /\ IsFiniteSet(InFlight') /\ Cardinality(InFlight') <= Cardinality(InFlight)
      /\ Cardinality(InFlight') \in Nat /\ Cardinality(InFlight) \in Nat
  BY <1>1, FS_Subset, FS_CardinalityType DEF PermitsOK
<1> QED BY <1>2 DEF PermitsOK

\* As many jobs as there are may have a call to record.
LEMMA SomePending ==
  /\ IsFiniteSet(PendingJobs) /\ PendingJobs \subseteq JobIds
  /\ Cardinality(PendingJobs) \in Nat /\ Cardinality(JobIds) \in Nat
  /\ Cardinality(PendingJobs) <= Cardinality(JobIds)
<1>1. PendingJobs \subseteq JobIds
  BY DEF PendingJobs
<1> QED BY <1>1, FS_Subset, FS_CardinalityType

\* The same after a step.
LEMMA SomePendingNext ==
  /\ IsFiniteSet(PendingJobs') /\ PendingJobs' \subseteq JobIds
  /\ Cardinality(PendingJobs') \in Nat /\ Cardinality(PendingJobs') <= Cardinality(JobIds)
<1>1. PendingJobs' \subseteq JobIds
  BY DEF PendingJobs
<1> QED BY <1>1, FS_Subset, FS_CardinalityType

\* Which jobs those are.
LEMMA PendingNext ==
  PendingJobs' = {j \in JobIds : \E a \in AttemptNumbers :
                    jobs'[j].attempts = a /\ Pending(handler'[<<j, a>>])}
  BY DEF PendingJobs, Pending

\* Totals stay bounded while no job starts on a call.
LEMMA TotalsKept ==
  ASSUME TypeOK, TotalsOK, PendingJobs' \subseteq PendingJobs,
         run'.requests = run.requests /\ run'.tokens = run.tokens
  PROVE  TotalsOK'
<1>1. /\ Cardinality(PendingJobs') <= Cardinality(PendingJobs)
      /\ Cardinality(PendingJobs') \in Nat /\ Cardinality(PendingJobs) \in Nat
      /\ Cardinality(JobIds) \in Nat
  BY SomePending, SomePendingNext, FS_Subset
<1>2. run.requests \in Nat /\ run.tokens \in Nat
  BY DEF TypeOK, Runs
<1> QED BY <1>1, <1>2 DEF TotalsOK

\* A stored output stays out of the reach of other jobs while none of them
\* starts on a call and the stage is not queued again.
LEMMA StoredKept ==
  ASSUME StoredOK, PendingJobs' \subseteq PendingJobs, stage'.output = stage.output,
         stage'.status \in {"QUEUED", "RUNNING"} =>
           /\ stage.status \in {"QUEUED", "RUNNING"}
           /\ \A j \in JobIds : /\ jobs'[j].status = "RUNNING" => jobs[j].status = "RUNNING" \/ j \notin PendingJobs'
                                /\ Active(j) => Active(j)'
  PROVE  StoredOK'
<1>1. PendingJobs' \subseteq JobIds
  BY SomePendingNext
<1> QED BY <1>1 DEF StoredOK

-----------------------------------------------------------------------------
(* The steps of a handler.                                                 *)

\* What a step of attempt o must show to keep the invariant, when the queue
\* and the other attempts are left alone.
LEMMA OwnStep ==
  ASSUME CallsInv, NEW o \in Owners, jobs' = jobs, TypeOK', PermitsOK', TotalsOK', CostsOK',
         RunOK', ResponseUsedOnce', StoredOK',
         \A q \in Owners \ {o} : /\ handler'[q] = handler[q] /\ permits'[q] = permits[q]
                                 /\ executions'[q] = executions[q],
         AttemptFits(jobs[o[1]], o[2], handler'[o], permits'[o], executions'[o]),
         stage.status = "SUCCEEDED" => stage'.status = "SUCCEEDED",
         handler'[o].pc = "returned" => stage'.status = "SUCCEEDED"
  PROVE  CallsInv'
<1>1. JobsOK'
  BY DEF CallsInv, JobsOK
<1>2. \A q \in Owners : AttemptFits(jobs[q[1]], q[2], handler[q], permits[q], executions[q])
  BY DEF CallsInv, AttemptsOK
<1>3. ASSUME NEW q \in Owners
      PROVE  AttemptFits(jobs'[q[1]], q[2], handler'[q], permits'[q], executions'[q])
  <2>1. CASE q = o
    BY <2>1
  <2>2. CASE q # o
    <3>1. /\ handler'[q] = handler[q] /\ permits'[q] = permits[q] /\ executions'[q] = executions[q]
      BY <2>2
    <3>2. AttemptFits(jobs[q[1]], q[2], handler[q], permits[q], executions[q])
      BY <1>2
    <3> QED BY <3>1, <3>2
  <2> QED BY <2>1, <2>2
<1>4. AttemptsOK'
  BY <1>3 DEF AttemptsOK
<1>5. CommittedOK'
  BY DEF CallsInv, CommittedOK, Pc
<1> QED BY <1>1, <1>4, <1>5 DEF CallsInv

\* A job whose attempt does not start on a call is not a new pending one.
LEMMA PendingLeft ==
  ASSUME NEW o \in Owners, jobs' = jobs, \A q \in Owners \ {o} : handler'[q] = handler[q],
         Pending(handler'[o]) => Pending(handler[o])
  PROVE  PendingJobs' \subseteq PendingJobs
  BY OwnerIs, ZenonT(60) DEF PendingJobs, Pending

\* What the invariant says of one attempt.
LEMMA OwnerFits ==
  ASSUME CallsInv, NEW o \in Owners
  PROVE  /\ TypeOK /\ PermitsOK /\ TotalsOK /\ CostsOK /\ RunOK /\ ResponseUsedOnce /\ StoredOK
         /\ handler[o] \in Handlers /\ executions[o] \in Executions /\ permits[o] \in Permits
         /\ AttemptFits(jobs[o[1]], o[2], handler[o], permits[o], executions[o])
  BY DEF CallsInv, TypeOK, AttemptsOK

\* Steps of an attempt that change its handler and its permit only.
LEMMA PermitStep ==
  ASSUME CallsInv, NEW o \in Owners, UNCHANGED <<jobs, executions, domain>>,
         handler' \in [Owners -> Handlers], permits' \in [Owners -> Permits], window' \in Nat,
         PermitsOK',
         \A q \in Owners \ {o} : handler'[q] = handler[q] /\ permits'[q] = permits[q],
         AttemptFits(jobs[o[1]], o[2], handler'[o], permits'[o], executions[o]),
         Pending(handler'[o]) => Pending(handler[o]),
         handler'[o].pc = "returned" => stage.status = "SUCCEEDED"
  PROVE  CallsInv'
<1>1. /\ run' = run /\ stage' = stage /\ costs' = costs /\ jobs' = jobs
      /\ executions' = executions
  BY DEF domain
<1>2. /\ TypeOK /\ TotalsOK /\ CostsOK /\ RunOK /\ ResponseUsedOnce /\ StoredOK
  BY DEF CallsInv
<1>3. PendingJobs' \subseteq PendingJobs
  BY PendingLeft
<1>4. TypeOK'
  BY <1>1, <1>2 DEF TypeOK
<1>5. TotalsOK'
  BY <1>1, <1>2, <1>3, TotalsKept
<1>6. StoredOK'
  BY <1>1, <1>2, <1>3, StoredKept DEF Active
<1>7. CostsOK' /\ RunOK' /\ ResponseUsedOnce'
  BY <1>1, <1>2 DEF CostsOK, RunOK, ResponseUsedOnce
<1> QED BY <1>1, <1>4, <1>5, <1>6, <1>7, OwnStep

\* Steps of an attempt that change its handler only.
LEMMA QuietStep ==
  ASSUME CallsInv, NEW o \in Owners, UNCHANGED <<jobs, access, domain>>,
         handler' \in [Owners -> Handlers], \A q \in Owners \ {o} : handler'[q] = handler[q],
         AttemptFits(jobs[o[1]], o[2], handler'[o], permits[o], executions[o]),
         Pending(handler'[o]) => Pending(handler[o]),
         handler'[o].pc = "returned" => stage.status = "SUCCEEDED"
  PROVE  CallsInv'
<1>1. permits' = permits /\ window' = window /\ executions' = executions
  BY DEF access
<1>2. TypeOK /\ PermitsOK
  BY DEF CallsInv
<1>3. PermitsOK'
  BY <1>1, <1>2, PermitsLeft
<1> QED BY <1>1, <1>2, <1>3, PermitStep DEF TypeOK

\* AssertFence, CallReturns, CallThrows, RecordRefused and CrashHandler move a
\* handler and nothing else.
LEMMA HandlerMoves ==
  ASSUME CallsInv, NEW o \in Owners,
         \/ AssertFence(o) \/ CallReturns(o) \/ CallThrows(o) \/ RecordRefused(o)
         \/ CrashHandler(o) /\ UNCHANGED domain
  PROVE  CallsInv'
<1>1. /\ TypeOK /\ handler[o] \in Handlers
      /\ AttemptFits(jobs[o[1]], o[2], handler[o], permits[o], executions[o])
  BY OwnerFits
<1>2. CASE AssertFence(o)
  <2>1. UNCHANGED <<jobs, access, domain>> /\ Pc(o) = "fence"
    BY <1>2 DEF AssertFence
  <2>2. CASE Goto(o, "execute")
    <3>1. /\ handler' \in [Owners -> Handlers] /\ handler'[o].pc = "execute"
          /\ handler'[o].data = handler[o].data
          /\ \A q \in Owners \ {o} : handler'[q] = handler[q]
      BY <1>1, <2>2, GotoIs DEF Places
    <3>2. AttemptFits(jobs[o[1]], o[2], handler'[o], permits[o], executions[o])
      BY <1>1, <2>1, <3>1 DEF AttemptFits, Pending, Unfinished, Pc, Outcomes
    <3> QED BY <2>1, <3>1, <3>2, QuietStep DEF Pending, Pc
  <2>3. CASE Leave(o, "release", "failRetryable")
    <3>1. /\ handler' \in [Owners -> Handlers] /\ handler'[o].pc = "release"
          /\ handler'[o].outcome = "failRetryable"
          /\ \A q \in Owners \ {o} : handler'[q] = handler[q]
      BY <1>1, <2>3, LeaveIs DEF Places, Outcomes
    <3>2. AttemptFits(jobs[o[1]], o[2], handler'[o], permits[o], executions[o])
      BY <1>1, <2>1, <3>1 DEF AttemptFits, Pending, Unfinished, Pc, Outcomes
    <3> QED BY <2>1, <3>1, <3>2, QuietStep DEF Pending, Pc
  <2> QED BY <1>2, <2>2, <2>3 DEF AssertFence
<1>3. CASE CallReturns(o)
  <2>1. UNCHANGED <<jobs, access, domain>> /\ Pc(o) = "call"
    BY <1>3 DEF CallReturns
  <2>2. PICK kind \in Returned \ {"thrown"}, usage \in Usages, response \in ResponseIds :
          Answered(o, "release", "finish", [kind |-> kind, usage |-> usage, response |-> response])
    BY <1>3 DEF CallReturns, Returned
  <2> DEFINE answer == [kind |-> kind, usage |-> usage, response |-> response]
  <2>3. /\ answer \in Answers /\ answer.kind = kind /\ answer.response = response
        /\ Answered(o, "release", "finish", answer)
    BY <2>2 DEF Answers, Responses
  <2> HIDE DEF answer
  <2>4. handler[o].data \in Carried
    BY <1>1, <2>1 DEF AttemptFits, Pending, Pc
  <2>5. /\ handler' \in [Owners -> Handlers] /\ handler'[o].pc = "release"
        /\ handler'[o].outcome = "finish" /\ handler'[o].data \in Carried
        /\ handler'[o].data.answer = answer
        /\ \A q \in Owners \ {o} : handler'[q] = handler[q]
    BY <1>1, <2>3, <2>4, AnsweredIs DEF Places
  <2>6. AttemptFits(jobs[o[1]], o[2], handler'[o], permits[o], executions[o])
    BY <1>1, <2>1, <2>3, <2>5 DEF AttemptFits, Pending, Unfinished, Pc, Outcomes
  <2> QED BY <2>1, <2>5, <2>6, QuietStep DEF Pending, Pc
<1>4. CASE CallThrows(o)
  <2> DEFINE answer == [kind |-> "thrown", usage |-> "unreported", response |-> NoResponse]
  <2>1. /\ UNCHANGED <<jobs, access, domain>> /\ Pc(o) = "call"
        /\ Answered(o, "finish", "none", answer)
    BY <1>4 DEF CallThrows
  <2>2. answer \in Answers /\ answer.kind = "thrown"
    BY DEF Answers, Responses, Returned, Usages
  <2>3. handler[o].data \in Carried
    BY <1>1, <2>1 DEF AttemptFits, Pending, Pc
  <2> HIDE DEF answer
  <2>4. /\ handler' \in [Owners -> Handlers] /\ handler'[o].pc = "finish"
        /\ handler'[o].data \in Carried /\ handler'[o].data.answer = answer
        /\ \A q \in Owners \ {o} : handler'[q] = handler[q]
    BY <1>1, <2>1, <2>2, <2>3, AnsweredIs DEF Places
  <2>5. AttemptFits(jobs[o[1]], o[2], handler'[o], permits[o], executions[o])
    BY <1>1, <2>1, <2>2, <2>4 DEF AttemptFits, Pending, Unfinished, Pc, Outcomes, Returned
  <2> QED BY <2>1, <2>4, <2>5, QuietStep DEF Pending, Pc
<1>5. CASE RecordRefused(o)
  <2>1. /\ UNCHANGED <<jobs, access, domain>> /\ Pc(o) = "record"
        /\ Leave(o, "release", "failRetryable")
    BY <1>5 DEF RecordRefused
  <2>2. /\ handler' \in [Owners -> Handlers] /\ handler'[o].pc = "release"
        /\ handler'[o].outcome = "failRetryable"
        /\ \A q \in Owners \ {o} : handler'[q] = handler[q]
    BY <1>1, <2>1, LeaveIs DEF Places, Outcomes
  <2>3. AttemptFits(jobs[o[1]], o[2], handler'[o], permits[o], executions[o])
    BY <1>1, <2>1, <2>2 DEF AttemptFits, Pending, Unfinished, Pc, Outcomes
  <2> QED BY <2>1, <2>2, <2>3, QuietStep DEF Pending, Pc
<1>6. CASE CrashHandler(o) /\ UNCHANGED domain
  <2>1. UNCHANGED <<jobs, access, domain>> /\ Pc(o) # "none" /\ EndHandler(o)
    BY <1>6 DEF CrashHandler, EndHandler, access
  <2>2. /\ handler' \in [Owners -> Handlers] /\ handler'[o].pc = "done"
        /\ \A q \in Owners \ {o} : handler'[q] = handler[q]
    BY <1>1, <2>1, EndIs
  <2>3. AttemptFits(jobs[o[1]], o[2], handler'[o], permits[o], executions[o])
    BY <1>1, <2>1, <2>2 DEF AttemptFits, Pending, Unfinished, Pc, Outcomes
  <2> QED BY <2>1, <2>2, <2>3, QuietStep DEF Pending, Pc
<1> QED BY <1>2, <1>3, <1>4, <1>5, <1>6

\* A job that starts on a call does so below the budget, and only while the
\* stage has no output.
LEMMA PreflightStep ==
  ASSUME CallsInv, NEW o \in Owners, Preflight(o)
  PROVE  CallsInv'
<1>1. /\ TypeOK /\ handler[o] \in Handlers /\ PermitsOK /\ CostsOK /\ RunOK /\ ResponseUsedOnce
      /\ AttemptFits(jobs[o[1]], o[2], handler[o], permits[o], executions[o])
  BY OwnerFits
<1>2. UNCHANGED <<jobs, access, domain>> /\ Pc(o) = "reload"
  BY DEF Preflight
<1>3. ASSUME NEW pc \in {"commit", "block"}, Goto(o, pc)
      PROVE  CallsInv'
  <2>1. /\ handler' \in [Owners -> Handlers] /\ handler'[o].pc = pc
        /\ \A q \in Owners \ {o} : handler'[q] = handler[q]
    BY <1>1, <1>3, GotoIs DEF Places
  <2>2. AttemptFits(jobs[o[1]], o[2], handler'[o], permits[o], executions[o])
    BY <1>1, <1>2, <2>1 DEF AttemptFits, Pending, Unfinished, Pc, Outcomes
  <2> QED BY <1>2, <2>1, <2>2, QuietStep DEF Pending
<1>4. ASSUME ~StoredOutput, checkRunBudget(run, 0, estimateProviderCost("none")),
             GotoWith(o, "permit",
                      Carry([requests |-> run.requests, tokens |-> run.tokens], NoAnswer))
      PROVE  CallsInv'
  <2> DEFINE data == Carry([requests |-> run.requests, tokens |-> run.tokens], NoAnswer)
  <2>1. data \in Carried /\ GotoWith(o, "permit", data)
    BY <1>1, <1>4 DEF TypeOK, Carry, Carried, NoAnswer, Answers, Responses, Runs
  <2> HIDE DEF data
  <2>2. /\ handler' \in [Owners -> Handlers] /\ handler'[o].pc = "permit"
        /\ handler'[o].data = data
        /\ \A q \in Owners \ {o} : handler'[q] = handler[q]
    BY <1>1, <2>1, GotoWithIs DEF Places
  <2>3. /\ run' = run /\ stage' = stage /\ costs' = costs /\ executions' = executions
        /\ permits' = permits /\ window' = window
    BY <1>2 DEF access, domain
  <2>4. AttemptFits(jobs[o[1]], o[2], handler'[o], permits'[o], executions'[o])
    BY <1>1, <1>2, <2>1, <2>2, <2>3 DEF AttemptFits, Pending, Unfinished, Pc, Outcomes
  <2>5. TypeOK'
    BY <1>1, <1>2, <2>2, <2>3 DEF TypeOK
  <2>6. TotalsOK'
    <3>1. run.requests + 1 <= MaxProviderRequests /\ run.tokens <= MaxTokens
          /\ run.requests \in Nat /\ run.tokens \in Nat
      BY <1>1, <1>4 DEF checkRunBudget, TypeOK, Runs
    <3> QED BY <2>3, <3>1, SomePendingNext, SomePending DEF TotalsOK
  <2>7. StoredOK'
    BY <1>4, <2>3 DEF StoredOK, StoredOutput
  <2>8. PermitsOK' /\ CostsOK' /\ RunOK' /\ ResponseUsedOnce'
    BY <1>1, <2>3, PermitsLeft DEF CostsOK, RunOK, ResponseUsedOnce
  <2> QED BY <1>2, <2>2, <2>3, <2>4, <2>5, <2>6, <2>7, <2>8, OwnStep
<1> QED BY <1>3, <1>4 DEF Preflight

\* acquireProviderPermit, releaseProviderPermit and the expiry of a permit.
LEMMA PermitSteps ==
  ASSUME CallsInv, NEW o \in Owners,
         AcquirePermit(o) \/ ReleasePermit(o) \/ (PermitExpires(o) /\ UNCHANGED domain)
  PROVE  CallsInv'
<1>1. /\ TypeOK /\ handler[o] \in Handlers /\ permits \in [Owners -> Permits] /\ PermitsOK
      /\ handler \in [Owners -> Handlers] /\ CommittedOK
      /\ AttemptFits(jobs[o[1]], o[2], handler[o], permits[o], executions[o])
  BY OwnerFits DEF CallsInv, TypeOK
<1>2. UNCHANGED <<jobs, executions, domain>> /\ window' \in Nat
  BY <1>1 DEF AcquirePermit, acquireProviderPermit, ReleasePermit, releaseProviderPermit,
              PermitExpires, TypeOK
<1>3. CASE Pc(o) = "permit" /\ PermitAllowed /\ permits' = [permits EXCEPT ![o] = "held"] /\ Goto(o, "fence")
  <2>1. /\ handler' \in [Owners -> Handlers] /\ handler'[o].pc = "fence"
        /\ handler'[o].data = handler[o].data
        /\ \A q \in Owners \ {o} : handler'[q] = handler[q]
    BY <1>1, <1>3, GotoIs DEF Places
  <2>2. PermitsOK'
    BY <1>1, <1>3, PermitTaken DEF PermitAllowed
  <2>3. AttemptFits(jobs[o[1]], o[2], handler'[o], permits'[o], executions[o])
    BY <1>1, <1>3, <2>1 DEF AttemptFits, Pending, Unfinished, Pc, Outcomes
  <2> QED BY <1>1, <1>2, <1>3, <2>1, <2>2, <2>3, PermitStep DEF Permits, Pending, Pc
<1>4. CASE Pc(o) = "permit" /\ UNCHANGED <<permits, window>> /\ Ends(o, "failRetryable")
  <2>1. /\ handler' \in [Owners -> Handlers] /\ handler'[o].pc = "failRetryable"
        /\ \A q \in Owners \ {o} : handler'[q] = handler[q]
    BY <1>1, <1>4, LeaveIs DEF Places, Ends, Outcomes
  <2>2. AttemptFits(jobs[o[1]], o[2], handler'[o], permits[o], executions[o])
    BY <1>1, <1>4, <2>1 DEF AttemptFits, Pending, Unfinished, Pc, Outcomes
  <2> QED BY <1>2, <1>4, <2>1, <2>2, QuietStep DEF Pending, access
<1>5. CASE ReleasePermit(o)
  <2>1. /\ Pc(o) = "release" /\ permits' = [permits EXCEPT ![o] = Released(o)]
        /\ Goto(o, handler[o].outcome)
    BY <1>5 DEF ReleasePermit, releaseProviderPermit
  <2>2. handler[o].outcome \in {"finish", "failFatal", "failRetryable"}
    BY <1>1, <2>1 DEF AttemptFits, Pc, Handlers
  <2>3. /\ handler' \in [Owners -> Handlers] /\ handler'[o].pc = handler[o].outcome
        /\ handler'[o].outcome = handler[o].outcome /\ handler'[o].data = handler[o].data
        /\ \A q \in Owners \ {o} : handler'[q] = handler[q]
    BY <1>1, <2>1, <2>2, GotoIs DEF Places, Outcomes
  <2>4. Released(o) \in Permits \ {"held"}
    BY <1>1 DEF Released, Permits
  <2>5. PermitsOK'
    BY <1>1, <2>1, <2>4, PermitsLeft
  <2>6. AttemptFits(jobs[o[1]], o[2], handler'[o], permits'[o], executions[o])
    BY <1>1, <2>1, <2>2, <2>3, <2>4 DEF AttemptFits, Pending, Unfinished, Pc, Outcomes
  <2>7. Pending(handler'[o]) => Pending(handler[o])
    BY <2>1, <2>2, <2>3 DEF Pending, Pc, Outcomes
  <2> QED BY <1>1, <1>2, <2>1, <2>2, <2>3, <2>4, <2>5, <2>6, <2>7, PermitStep
<1>6. CASE PermitExpires(o)
  <2>1. permits' = [permits EXCEPT ![o] = "expired"] /\ handler' = handler /\ permits[o] = "held"
    BY <1>6 DEF PermitExpires
  <2>2. PermitsOK'
    BY <1>1, <2>1, PermitsLeft
  <2>3. AttemptFits(jobs[o[1]], o[2], handler'[o], permits'[o], executions[o])
    BY <1>1, <2>1 DEF AttemptFits, Outcomes
  <2>4. handler'[o].pc = "returned" => stage.status = "SUCCEEDED"
    BY <1>1, <2>1 DEF CommittedOK, Pc
  <2> QED BY <1>1, <1>2, <2>1, <2>2, <2>3, <2>4, PermitStep DEF Permits
<1> QED BY <1>3, <1>4, <1>5, <1>6 DEF AcquirePermit, acquireProviderPermit

\* A step that changes the handler and the execution of one attempt and keeps
\* the response ids of the others apart.
LEMMA ExecutionStep ==
  ASSUME CallsInv, NEW o \in Owners, UNCHANGED <<jobs, permits, window, domain>>,
         handler' \in [Owners -> Handlers], executions' \in [Owners -> Executions],
         \A q \in Owners \ {o} : handler'[q] = handler[q] /\ executions'[q] = executions[q],
         executions[o].status # "SUCCEEDED",
         \/ executions'[o].response = NoResponse
         \/ \A q \in Owners \ {o} : executions[q].response # executions'[o].response,
         AttemptFits(jobs[o[1]], o[2], handler'[o], permits[o], executions'[o]),
         Pending(handler[o]), handler'[o].pc # "returned"
  PROVE  CallsInv'
<1>1. /\ run' = run /\ stage' = stage /\ costs' = costs /\ jobs' = jobs
      /\ permits' = permits /\ window' = window
  BY DEF domain
<1>2. /\ TypeOK /\ TotalsOK /\ CostsOK /\ RunOK /\ ResponseUsedOnce /\ StoredOK /\ PermitsOK
  BY DEF CallsInv
<1>3. PendingJobs' \subseteq PendingJobs
  BY PendingLeft
<1>4. TypeOK'
  BY <1>1, <1>2 DEF TypeOK
<1>5. TotalsOK'
  BY <1>1, <1>2, <1>3, TotalsKept
<1>6. StoredOK'
  BY <1>1, <1>2, <1>3, StoredKept DEF Active
<1>7. CostsOK' /\ RunOK' /\ PermitsOK'
  BY <1>1, <1>2, PermitsLeft DEF CostsOK, RunOK
<1>8. ResponseUsedOnce'
  <2>1. ASSUME NEW p \in Owners, NEW q \in Owners, p # q, executions'[p].response # NoResponse
        PROVE  executions'[p].response # executions'[q].response
    <3>1. executions[p].response # NoResponse => executions[p].response # executions[q].response
      BY <1>2, <2>1 DEF ResponseUsedOnce
    <3>2. CASE p = o
      BY <2>1, <3>2
    <3>3. CASE q = o
      BY <2>1, <3>3
    <3>4. CASE p # o /\ q # o
      BY <2>1, <3>1, <3>4
    <3> QED BY <3>2, <3>3, <3>4
  <2>2. stage'.output # NoResponse =>
          \E q \in Owners : executions'[q] = [status |-> "SUCCEEDED", response |-> stage'.output]
    <3>1. SUFFICES ASSUME stage.output # NoResponse
                   PROVE  \E q \in Owners :
                            executions'[q] = [status |-> "SUCCEEDED", response |-> stage.output]
      BY <1>1
    <3>2. PICK q \in Owners : executions[q] = [status |-> "SUCCEEDED", response |-> stage.output]
      BY <1>2, <3>1 DEF ResponseUsedOnce
    <3>3. q # o
      BY <3>2
    <3> QED BY <3>2, <3>3
  <2> QED BY <2>1, <2>2 DEF ResponseUsedOnce
<1> QED BY <1>1, <1>4, <1>5, <1>6, <1>7, <1>8, OwnStep

\* startProviderExecution: the call begins.
LEMMA ExecutionStarts ==
  ASSUME CallsInv, NEW o \in Owners, StartExecution(o)
  PROVE  CallsInv'
<1>1. /\ TypeOK /\ handler[o] \in Handlers /\ executions[o] \in Executions
      /\ executions \in [Owners -> Executions]
      /\ AttemptFits(jobs[o[1]], o[2], handler[o], permits[o], executions[o])
  BY OwnerFits DEF TypeOK
<1>2. UNCHANGED <<jobs, permits, window, domain>> /\ Pc(o) = "execute" /\ Goto(o, "call")
  BY DEF StartExecution
<1>3. /\ handler' \in [Owners -> Handlers] /\ handler'[o].pc = "call"
      /\ handler'[o].data = handler[o].data
      /\ \A q \in Owners \ {o} : handler'[q] = handler[q]
  BY <1>1, <1>2, GotoIs DEF Places
<1> DEFINE e == [executions[o] EXCEPT !.status = "STARTED"]
<1>4. e \in Executions /\ e.status = "STARTED" /\ e.response = executions[o].response
  BY <1>1 DEF Executions
<1>5. executions' = [executions EXCEPT ![o] = e]
  BY <1>1 DEF StartExecution, startProviderExecution
<1> HIDE DEF e
<1>6. executions[o].response = NoResponse /\ executions[o].status = "NONE" /\ handler[o].data \in Carried
  BY <1>1, <1>2 DEF AttemptFits, Pc, Pending
<1>7. /\ executions' \in [Owners -> Executions] /\ executions'[o] = e
      /\ \A q \in Owners \ {o} : executions'[q] = executions[q]
  BY <1>1, <1>4, <1>5
<1>8. AttemptFits(jobs[o[1]], o[2], handler'[o], permits[o], executions'[o])
  BY <1>1, <1>2, <1>3, <1>4, <1>6, <1>7 DEF AttemptFits, Pending, Unfinished, Pc, Outcomes
<1> QED BY <1>2, <1>3, <1>4, <1>6, <1>7, <1>8, ExecutionStep DEF Pending, Pc

\* finishProviderExecution: a response id another execution has is not taken.
LEMMA ExecutionFinishes ==
  ASSUME CallsInv, NEW o \in Owners, FinishExecution(o)
  PROVE  CallsInv'
<1>1. /\ TypeOK /\ handler[o] \in Handlers /\ executions[o] \in Executions
      /\ executions \in [Owners -> Executions]
      /\ AttemptFits(jobs[o[1]], o[2], handler[o], permits[o], executions[o])
  BY OwnerFits DEF TypeOK
<1>2. PICK was : was = handler[o].data.answer
  OBVIOUS
<1>3. UNCHANGED <<jobs, permits, window, domain>> /\ Pc(o) = "finish"
  BY DEF FinishExecution
<1>4. /\ handler[o].data \in Carried /\ was \in Answers
      /\ was.kind \in Returned /\ was.response \in Responses
      /\ was.kind # "thrown" => was.response \in ResponseIds /\ permits[o] # "held"
      /\ executions[o].status = "STARTED" /\ executions[o].response = NoResponse
  BY <1>1, <1>2, <1>3 DEF AttemptFits, Pc, Pending, Unfinished, Carried, Answers
<1> DEFINE status == StatusOf(was.kind)
           answer == [was EXCEPT !.kind = IF @ = "output" /\ DuplicateResponse(o, was.response)
                                          THEN "duplicate" ELSE @]
           e == IF DuplicateResponse(o, was.response)
                THEN [executions[o] EXCEPT !.status = "REJECTED"]
                ELSE [status |-> status, response |-> was.response]
<1>5. /\ executions' = [executions EXCEPT ![o] = e]
      /\ Answered(o, "record", "none", answer)
  BY <1>1, <1>2 DEF FinishExecution, finishProviderExecution
<1>6. /\ answer \in Answers /\ answer.kind # "none" /\ answer.response = was.response
      /\ answer.kind = "thrown" <=> was.kind = "thrown"
      /\ answer.kind = "output" => was.kind = "output" /\ ~DuplicateResponse(o, was.response)
  BY <1>4 DEF Answers, Returned
<1>7. /\ status \in {"SUCCEEDED", "REJECTED", "FAILED"}
      /\ was.kind = "output" => status = "SUCCEEDED"
  BY <1>4 DEF StatusOf, Returned
<1>8. /\ e \in Executions
      /\ DuplicateResponse(o, was.response) => e.response = NoResponse
      /\ ~DuplicateResponse(o, was.response) => e.response = was.response /\ e.status = status
  <2> HIDE DEF status
  <2>1. CASE DuplicateResponse(o, was.response)
    BY <1>1, <1>4, <2>1 DEF Executions
  <2>2. CASE ~DuplicateResponse(o, was.response)
    BY <1>1, <1>4, <1>7, <2>2 DEF Executions
  <2> QED BY <2>1, <2>2
<1> HIDE DEF e, answer, status
<1>9. /\ handler' \in [Owners -> Handlers] /\ handler'[o].pc = "record"
      /\ handler'[o].data \in Carried /\ handler'[o].data.answer = answer
      /\ \A q \in Owners \ {o} : handler'[q] = handler[q]
  <2>1. TypeOK /\ handler[o].data \in Carried /\ answer \in Answers /\ "record" \in Places
    BY <1>1, <1>4, <1>6 DEF Places
  <2>2. Answered(o, "record", "none", answer)
    BY <1>5
  <2> QED BY <2>1, <2>2, AnsweredIs
<1>10. /\ executions' \in [Owners -> Executions] /\ executions'[o] = e
       /\ \A q \in Owners \ {o} : executions'[q] = executions[q]
  BY <1>1, <1>5, <1>8
<1>11. AttemptFits(jobs[o[1]], o[2], handler'[o], permits[o], executions'[o])
  BY <1>1, <1>3, <1>4, <1>6, <1>7, <1>8, <1>9, <1>10
     DEF AttemptFits, Pending, Unfinished, Pc, Outcomes, Returned
<1>12. \/ e.response = NoResponse
       \/ \A q \in Owners \ {o} : executions[q].response # e.response
  BY <1>8 DEF DuplicateResponse
<1> QED BY <1>3, <1>4, <1>9, <1>10, <1>11, <1>12, ExecutionStep DEF Pending, Pc

\* Where the tables let a stage and a run go.
LEMMA StageMoves ==
  ASSUME NEW s \in StageStatuses
  PROVE  /\ canTransitionRunStage(s, "RUNNING") => s = "QUEUED"
         /\ canTransitionRunStage(s, "BLOCKED") => s \in {"PENDING", "QUEUED", "RUNNING"}
         /\ canTransitionRunStage(s, "QUEUED") => s # "SUCCEEDED"
  BY DEF canTransitionRunStage, stageTransitions, StageStatuses

\* A cancellation or a failure is open to every run that waits or runs.
LEMMA RunMoves ==
  ASSUME NEW s \in {"QUEUED", "RUNNING", "CANCELLING"}
  PROVE  canTransitionResearchRun(s, "FAILED")
  BY DEF canTransitionResearchRun, runTransitions, RunStatuses

\* The row of the run or of the stage with another status.
LEMMA RunRow ==
  ASSUME TypeOK, NEW s \in RunStatuses, run' = [run EXCEPT !.status = s]
  PROVE  /\ run' \in Runs /\ run'.status = s /\ run'.requests = run.requests
         /\ run'.tokens = run.tokens /\ run'.cost = run.cost
  BY DEF TypeOK, Runs

\* The same of the stage.
LEMMA StageRow ==
  ASSUME TypeOK, NEW s \in StageStatuses, stage' = [stage EXCEPT !.status = s]
  PROVE  /\ stage' \in Stages /\ stage'.status = s /\ stage'.output = stage.output
         /\ stage'.last = stage.last
  BY DEF TypeOK, Stages

\* Steps of an attempt that change the status of the run and of the stage.
LEMMA StatusStep ==
  ASSUME CallsInv, NEW o \in Owners, UNCHANGED <<jobs, access, costs>>,
         handler' \in [Owners -> Handlers], \A q \in Owners \ {o} : handler'[q] = handler[q],
         AttemptFits(jobs[o[1]], o[2], handler'[o], permits[o], executions[o]),
         ~Pending(handler'[o]), run' \in Runs, stage' \in Stages,
         run'.requests = run.requests /\ run'.tokens = run.tokens /\ run'.cost = run.cost,
         stage'.output = stage.output, RunOK',
         stage'.status \in {"QUEUED", "RUNNING"} => stage.status \in {"QUEUED", "RUNNING"},
         stage.status = "SUCCEEDED" => stage'.status = "SUCCEEDED",
         handler'[o].pc = "returned" => stage'.status = "SUCCEEDED"
  PROVE  CallsInv'
<1>1. /\ permits' = permits /\ window' = window /\ executions' = executions /\ costs' = costs
      /\ jobs' = jobs
  BY DEF access
<1>2. /\ TypeOK /\ TotalsOK /\ CostsOK /\ ResponseUsedOnce /\ StoredOK /\ PermitsOK
  BY DEF CallsInv
<1>3. PendingJobs' \subseteq PendingJobs
  BY PendingLeft
<1>4. TypeOK'
  BY <1>1, <1>2 DEF TypeOK
<1>5. TotalsOK'
  BY <1>2, <1>3, TotalsKept
<1>6. StoredOK'
  BY <1>1, <1>2, <1>3, StoredKept DEF Active
<1>7. CostsOK' /\ PermitsOK'
  BY <1>1, <1>2, PermitsLeft DEF CostsOK
<1>8. ResponseUsedOnce'
  BY <1>1, <1>2 DEF ResponseUsedOnce
<1> QED BY <1>1, <1>4, <1>5, <1>6, <1>7, <1>8, OwnStep

\* startRunStage, blockRunStage and commitRunStage.
LEMMA StatusSteps ==
  ASSUME CallsInv, NEW o \in Owners, startRunStage(o) \/ blockRunStage(o) \/ commitRunStage(o)
  PROVE  CallsInv'
<1>1. /\ TypeOK /\ handler[o] \in Handlers /\ RunOK
      /\ AttemptFits(jobs[o[1]], o[2], handler[o], permits[o], executions[o])
      /\ run \in Runs /\ stage \in Stages /\ run.status \in RunStatuses
      /\ stage.status \in StageStatuses
  BY OwnerFits DEF TypeOK, Runs, Stages
<1>2. UNCHANGED <<jobs, access, costs>> /\ Pc(o) \in {"start", "block", "commit"}
  BY DEF startRunStage, blockRunStage, commitRunStage
<1>3. permits[o] # "held"
  BY <1>1, <1>2 DEF AttemptFits, Pc
<1>4. ASSUME NEW outcome \in {"failRetryable", "failFatal", "returned"}, Ends(o, outcome)
      PROVE  /\ handler' \in [Owners -> Handlers] /\ handler'[o].pc = outcome
             /\ \A q \in Owners \ {o} : handler'[q] = handler[q]
             /\ AttemptFits(jobs[o[1]], o[2], handler'[o], permits[o], executions[o])
             /\ ~Pending(handler'[o])
  <2>1. /\ handler' \in [Owners -> Handlers] /\ handler'[o].pc = outcome
        /\ \A q \in Owners \ {o} : handler'[q] = handler[q]
    BY <1>1, <1>4, LeaveIs DEF Places, Ends, Outcomes
  <2>2. AttemptFits(jobs[o[1]], o[2], handler'[o], permits[o], executions[o])
    BY <1>1, <1>2, <1>3, <2>1 DEF AttemptFits, Pending, Unfinished, Pc, Outcomes
  <2> QED BY <2>1, <2>2 DEF Pending
<1>5. CASE Ends(o, "failRetryable") /\ UNCHANGED <<run, stage>>
  <2>1. RunOK'
    BY <1>1, <1>5 DEF RunOK
  <2> QED BY <1>1, <1>2, <1>4, <1>5, <2>1, StatusStep
<1>6. CASE /\ stage.status = "RUNNING" \/ canTransitionRunStage(stage.status, "RUNNING")
           /\ stage' = [stage EXCEPT !.status = "RUNNING"]
           /\ run' = [run EXCEPT !.status = "RUNNING"]
           /\ Goto(o, "reload") /\ Pc(o) = "start"
  <2>1. /\ handler' \in [Owners -> Handlers] /\ handler'[o].pc = "reload"
        /\ \A q \in Owners \ {o} : handler'[q] = handler[q]
    BY <1>1, <1>6, GotoIs DEF Places
  <2>2. AttemptFits(jobs[o[1]], o[2], handler'[o], permits[o], executions[o])
    BY <1>1, <1>6, <2>1 DEF AttemptFits, Pending, Unfinished, Pc, Outcomes
  <2>3. /\ run' \in Runs /\ run'.status = "RUNNING" /\ run'.requests = run.requests
        /\ run'.tokens = run.tokens /\ run'.cost = run.cost
    BY <1>1, <1>6, RunRow DEF RunStatuses
  <2>4. stage' \in Stages /\ stage'.status = "RUNNING" /\ stage'.output = stage.output
    BY <1>1, <1>6, StageRow DEF StageStatuses
  <2>5. stage.status \in {"QUEUED", "RUNNING"}
    BY <1>1, <1>6, StageMoves
  <2>6. RunOK'
    BY <2>3 DEF RunOK
  <2> QED BY <1>2, <2>1, <2>2, <2>3, <2>4, <2>5, <2>6, StatusStep DEF Pending
<1>7. CASE /\ stage.status = "BLOCKED" \/ canTransitionRunStage(stage.status, "BLOCKED")
           /\ stage' = [stage EXCEPT !.status = "BLOCKED"]
           /\ run' = [run EXCEPT !.status = "BLOCKED"]
           /\ Ends(o, "failFatal")
  <2>1. /\ run' \in Runs /\ run'.status = "BLOCKED" /\ run'.requests = run.requests
        /\ run'.tokens = run.tokens /\ run'.cost = run.cost
    BY <1>1, <1>7, RunRow DEF RunStatuses
  <2>2. stage' \in Stages /\ stage'.status = "BLOCKED" /\ stage'.output = stage.output
    BY <1>1, <1>7, StageRow DEF StageStatuses
  <2>3. stage.status # "SUCCEEDED"
    BY <1>1, <1>7, StageMoves
  <2>4. RunOK'
    BY <2>2 DEF RunOK
  <2> QED BY <1>2, <1>4, <1>7, <2>1, <2>2, <2>3, <2>4, StatusStep
<1>8. CASE /\ stage' = [stage EXCEPT !.status = "SUCCEEDED"] /\ run' = run
           /\ Ends(o, "returned")
  <2>1. stage' \in Stages /\ stage'.status = "SUCCEEDED" /\ stage'.output = stage.output
    BY <1>1, <1>8, StageRow DEF StageStatuses
  <2>2. RunOK'
    BY <2>1 DEF RunOK
  <2> QED BY <1>1, <1>2, <1>4, <1>8, <2>1, <2>2, StatusStep
<1>9. CASE startRunStage(o)
  BY <1>5, <1>6, <1>9 DEF startRunStage
<1>10. CASE blockRunStage(o)
  BY <1>5, <1>7, <1>10 DEF blockRunStage
<1>11. CASE commitRunStage(o)
  BY <1>5, <1>8, <1>11 DEF commitRunStage
<1> QED BY <1>9, <1>10, <1>11

\* Wherever a handler goes with a recorded answer, it has no call to record.
LEMMA AfterRecordIs ==
  ASSUME CallsInv, NEW o \in Owners, Pc(o) = "record", AfterRecord(o)
  PROVE  /\ handler' \in [Owners -> Handlers]
         /\ \A q \in Owners \ {o} : handler'[q] = handler[q]
         /\ AttemptFits(jobs[o[1]], o[2], handler'[o], permits[o], executions[o])
         /\ ~Pending(handler'[o]) /\ handler'[o].pc # "returned"
<1>1. /\ TypeOK /\ handler[o] \in Handlers
      /\ AttemptFits(jobs[o[1]], o[2], handler[o], permits[o], executions[o])
  BY OwnerFits
<1>2. PICK answer : answer = handler[o].data.answer
  OBVIOUS
<1>3. /\ answer \in Answers /\ answer.kind \in Returned \cup {"duplicate"}
      /\ answer.kind # "thrown" => permits[o] # "held"
      /\ o[2] <= jobs[o[1]].attempts \/ ~(o[2] > jobs[o[1]].attempts)
  BY <1>1, <1>2 DEF AttemptFits, Pc, Pending, Carried, Answers
<1>4. ASSUME NEW pc \in {"commit", "block"}, Goto(o, pc), answer.kind # "thrown"
      PROVE  /\ handler' \in [Owners -> Handlers]
             /\ \A q \in Owners \ {o} : handler'[q] = handler[q]
             /\ AttemptFits(jobs[o[1]], o[2], handler'[o], permits[o], executions[o])
             /\ ~Pending(handler'[o]) /\ handler'[o].pc # "returned"
  <2>1. /\ handler' \in [Owners -> Handlers] /\ handler'[o].pc = pc
        /\ \A q \in Owners \ {o} : handler'[q] = handler[q]
    BY <1>1, <1>4, GotoIs DEF Places
  <2>2. AttemptFits(jobs[o[1]], o[2], handler'[o], permits[o], executions[o])
    BY <1>1, <1>3, <1>4, <2>1 DEF AttemptFits, Pending, Unfinished, Pc, Outcomes
  <2> QED BY <2>1, <2>2 DEF Pending
<1>5. ASSUME NEW outcome \in {"failFatal", "failRetryable"}, NEW pc \in {"release", outcome},
             Leave(o, pc, outcome), pc = outcome => answer.kind # "thrown"
      PROVE  /\ handler' \in [Owners -> Handlers]
             /\ \A q \in Owners \ {o} : handler'[q] = handler[q]
             /\ AttemptFits(jobs[o[1]], o[2], handler'[o], permits[o], executions[o])
             /\ ~Pending(handler'[o]) /\ handler'[o].pc # "returned"
  <2>1. /\ handler' \in [Owners -> Handlers] /\ handler'[o].pc = pc
        /\ handler'[o].outcome = outcome
        /\ \A q \in Owners \ {o} : handler'[q] = handler[q]
    BY <1>1, <1>5, LeaveIs DEF Places, Outcomes
  <2>2. AttemptFits(jobs[o[1]], o[2], handler'[o], permits[o], executions[o])
    BY <1>1, <1>3, <1>5, <2>1 DEF AttemptFits, Pending, Unfinished, Pc, Outcomes
  <2> QED BY <1>5, <2>1, <2>2 DEF Pending
<1>6. CASE answer.kind = "output"
  BY <1>2, <1>4, <1>6 DEF AfterRecord
<1>7. CASE answer.kind \in {"invalid", "duplicate"}
  BY <1>2, <1>5, <1>7 DEF AfterRecord, Ends
<1>8. CASE answer.kind = "failed"
  BY <1>2, <1>4, <1>5, <1>8 DEF AfterRecord, Ends
<1>9. CASE answer.kind = "thrown"
  BY <1>2, <1>5, <1>9 DEF AfterRecord
<1> QED BY <1>3, <1>6, <1>7, <1>8, <1>9 DEF Returned

\* recordRunStageProviderAttempt: the job's room in the totals is used up.
LEMMA RecordStep ==
  ASSUME CallsInv, NEW o \in Owners, recordRunStageProviderAttempt(o)
  PROVE  CallsInv'
<1>1. /\ TypeOK /\ TotalsOK /\ CostsOK /\ RunOK /\ ResponseUsedOnce /\ StoredOK /\ PermitsOK
      /\ handler[o] \in Handlers /\ executions[o] \in Executions
      /\ AttemptFits(jobs[o[1]], o[2], handler[o], permits[o], executions[o])
      /\ run \in Runs /\ stage \in Stages /\ run.requests \in Nat /\ run.tokens \in Nat
      /\ run.cost \in Costs /\ costs \in SUBSET Costs
  BY OwnerFits DEF TypeOK, Runs, Stages
<1>2. /\ Pc(o) = "record" /\ FencedOwner(o) /\ stage.status = "RUNNING"
      /\ AfterRecord(o) /\ UNCHANGED <<jobs, access>>
  BY DEF recordRunStageProviderAttempt
<1>3. /\ permits' = permits /\ window' = window /\ executions' = executions /\ jobs' = jobs
  BY <1>2 DEF access
<1>4. /\ handler' \in [Owners -> Handlers]
      /\ \A q \in Owners \ {o} : handler'[q] = handler[q]
      /\ AttemptFits(jobs[o[1]], o[2], handler'[o], permits[o], executions[o])
      /\ ~Pending(handler'[o]) /\ handler'[o].pc # "returned"
  BY <1>2, AfterRecordIs
<1>5. /\ PendingJobs' \subseteq PendingJobs /\ o[1] \in PendingJobs /\ o[1] \notin PendingJobs'
      /\ o[1] \in JobIds /\ jobs[o[1]].status = "RUNNING"
  <2>1. PendingJobs' \subseteq PendingJobs
    BY <1>3, <1>4, PendingLeft
  <2>2. /\ o[1] \in JobIds /\ o[2] \in AttemptNumbers /\ <<o[1], o[2]>> = o
        /\ jobs[o[1]].attempts = o[2] /\ jobs[o[1]].status = "RUNNING"
    BY <1>2, OwnerIs DEF FencedOwner, Fenced
  <2>3. o[1] \in PendingJobs
    BY <1>2, <2>2 DEF PendingJobs, Pending, Pc
  <2>4. o[1] \notin PendingJobs'
    BY <1>3, <1>4, <2>2 DEF PendingJobs, Pending
  <2> QED BY <2>1, <2>2, <2>3, <2>4
<1>6. PermitsOK'
  BY <1>1, <1>3, PermitsLeft
<1>7. CASE UNCHANGED domain
  <2>1. run' = run /\ stage' = stage /\ costs' = costs
    BY <1>7 DEF domain
  <2>2. TypeOK' /\ CostsOK' /\ RunOK' /\ ResponseUsedOnce'
    BY <1>1, <1>3, <1>4, <2>1 DEF TypeOK, CostsOK, RunOK, ResponseUsedOnce
  <2>3. TotalsOK' /\ StoredOK'
    BY <1>1, <1>3, <1>5, <2>1, TotalsKept, StoredKept DEF Active
  <2> QED BY <1>2, <1>3, <1>4, <1>6, <2>1, <2>2, <2>3, OwnStep
<1>8. PICK answer : answer = handler[o].data.answer
  OBVIOUS
<1>9. answer \in Answers
  BY <1>1, <1>2, <1>8 DEF AttemptFits, Pc, Pending, Carried
<1>10. PICK cost : cost = IF answer.kind = "thrown" THEN "UNKNOWN"
                          ELSE estimateProviderCost(answer.usage)
  OBVIOUS
<1>11. PICK output : output = IF answer.kind = "output" THEN answer.response ELSE stage.output
  OBVIOUS
<1>12. CASE /\ run' = [run EXCEPT !.requests = @ + 1, !.tokens = @ + Tokens(answer.usage),
                                  !.cost = CostStatus(cost)]
            /\ stage' = [stage EXCEPT !.last = o, !.output = output]
            /\ costs' = costs \cup {cost}
  <2>1. cost \in Costs /\ CostStatus(cost) \in Costs /\ Tokens(answer.usage) \in {0, 1}
    BY <1>10 DEF estimateProviderCost, Costs, CostStatus, Tokens
  <2>2. output \in Responses
    BY <1>1, <1>9, <1>11 DEF Answers, Stages
  <2>3. /\ run' \in Runs /\ run'.requests = run.requests + 1
        /\ run'.tokens = run.tokens + Tokens(answer.usage) /\ run'.cost = CostStatus(cost)
        /\ run'.status = run.status
    <3>1. PICK t, c : t = Tokens(answer.usage) /\ c = CostStatus(cost)
      OBVIOUS
    <3>2. run' = [run EXCEPT !.requests = run.requests + 1, !.tokens = run.tokens + t, !.cost = c]
      BY <1>12, <3>1
    <3>3. t \in {0, 1} /\ c \in Costs /\ run.requests + 1 \in Nat /\ run.tokens + t \in Nat
      BY <1>1, <2>1, <3>1
    <3> QED BY <1>1, <3>1, <3>2, <3>3 DEF Runs
  <2>4. stage' \in Stages /\ stage'.status = "RUNNING" /\ stage'.output = output
    BY <1>1, <1>2, <1>12, <2>2 DEF Stages
  <2>5. TypeOK'
    BY <1>1, <1>3, <1>4, <1>12, <2>1, <2>3, <2>4 DEF TypeOK
  <2>6. TotalsOK'
    <3>1. PendingJobs' \subseteq PendingJobs \ {o[1]}
      BY <1>5
    <3>2. Cardinality(PendingJobs \ {o[1]}) = Cardinality(PendingJobs) - 1
          /\ IsFiniteSet(PendingJobs \ {o[1]})
      BY <1>5, SomePending, FS_RemoveElement
    <3>3. Cardinality(PendingJobs') <= Cardinality(PendingJobs) - 1
      BY <3>1, <3>2, FS_Subset
    <3> QED BY <1>1, <2>1, <2>3, <3>3, SomePending, SomePendingNext DEF TotalsOK
  <2>7. CostsOK'
    <3>1. run'.requests # 0
      BY <1>1, <2>3
    <3>2. "UNKNOWN" \in costs' => run'.cost = "UNKNOWN"
      BY <1>1, <1>12, <2>3 DEF CostsOK, CostStatus
    <3> QED BY <3>1, <3>2 DEF CostsOK
  <2>8. RunOK'
    BY <1>1, <1>2, <2>3 DEF RunOK
  <2>9. ResponseUsedOnce'
    <3>1. stage'.output # NoResponse =>
            \E q \in Owners : executions[q] = [status |-> "SUCCEEDED", response |-> stage'.output]
      <4>1. CASE answer.kind = "output"
        <5>1. executions[o].status = "SUCCEEDED" /\ executions[o].response = answer.response
          BY <1>1, <1>2, <1>8, <4>1 DEF AttemptFits, Pc
        <5>2. executions[o] = [status |-> "SUCCEEDED", response |-> answer.response]
          BY <1>1, <5>1 DEF Executions
        <5> QED BY <1>11, <2>4, <4>1, <5>2
      <4>2. CASE answer.kind # "output"
        BY <1>1, <1>11, <2>4, <4>2 DEF ResponseUsedOnce
      <4> QED BY <4>1, <4>2
    <3> QED BY <1>1, <1>3, <3>1 DEF ResponseUsedOnce
  <2>10. StoredOK'
    <3>1. Active(o[1])'
      BY <1>3, <1>5 DEF Active
    <3> QED BY <1>5, <3>1 DEF StoredOK
  <2> QED BY <1>2, <1>3, <1>4, <1>6, <2>4, <2>5, <2>6, <2>7, <2>8, <2>9, <2>10, OwnStep
<1> QED BY <1>7, <1>8, <1>10, <1>11, <1>12 DEF recordRunStageProviderAttempt

-----------------------------------------------------------------------------
(* The steps of the queue.                                                 *)

\* reconcileLinkedJobFailure and reconcileLinkedJobCancellation: a stage that
\* waits or runs does not stay so when a job of it fails or is cancelled.
LEMMA ReconciledIs ==
  ASSUME TypeOK, RunOK, NEW j \in JobIds, Reconciled(j)
  PROVE  /\ run' \in Runs /\ run'.requests = run.requests /\ run'.tokens = run.tokens
         /\ run'.cost = run.cost
         /\ stage' \in Stages /\ stage'.output = stage.output
         /\ stage.status = "SUCCEEDED" => stage'.status = "SUCCEEDED"
         /\ stage'.status \in {"QUEUED", "RUNNING"} => stage.status \in {"QUEUED", "RUNNING"}
         /\ jobs'[j].status \in {"FAILED", "CANCELLED"} /\ jobs'[j].status # jobs[j].status =>
              stage'.status \notin {"QUEUED", "RUNNING"}
         /\ RunOK'
<1>1. /\ run \in Runs /\ stage \in Stages /\ run.status \in RunStatuses
      /\ stage.status \in StageStatuses
  BY DEF TypeOK, Runs, Stages
<1>2. PICK s : s = jobs'[j].status
  OBVIOUS
<1>3. CASE s = jobs[j].status
  <2>1. run' = run /\ stage' = stage
    BY <1>2, <1>3 DEF Reconciled
  <2> QED BY <1>1, <1>2, <1>3, <2>1 DEF RunOK
<1>4. CASE s # jobs[j].status /\ s = "FAILED" /\ stage.status \in {"QUEUED", "RUNNING"}
  <2>1. canTransitionResearchRun(run.status, "FAILED")
    BY <1>4, RunMoves DEF RunOK
  <2>2. stage' = [stage EXCEPT !.status = "FAILED"] /\ run' = [run EXCEPT !.status = "FAILED"]
    BY <1>2, <1>4, <2>1 DEF Reconciled
  <2>3. /\ run' \in Runs /\ run'.requests = run.requests /\ run'.tokens = run.tokens
        /\ run'.cost = run.cost
    BY <2>2, RunRow DEF RunStatuses
  <2>4. stage' \in Stages /\ stage'.output = stage.output /\ stage'.status = "FAILED"
    BY <2>2, StageRow DEF StageStatuses
  <2> QED BY <1>4, <2>3, <2>4 DEF RunOK
<1>5. CASE /\ s # jobs[j].status /\ s = "CANCELLATION_REQUESTED"
           /\ canTransitionResearchRun(run.status, "CANCELLING")
  <2>1. run' = [run EXCEPT !.status = "CANCELLING"] /\ stage' = stage
    BY <1>2, <1>5 DEF Reconciled
  <2>2. /\ run' \in Runs /\ run'.requests = run.requests /\ run'.tokens = run.tokens
        /\ run'.cost = run.cost /\ run'.status = "CANCELLING"
    BY <2>1, RunRow DEF RunStatuses
  <2> QED BY <1>1, <1>2, <1>5, <2>1, <2>2 DEF RunOK
<1>6. CASE /\ s # jobs[j].status /\ s = "CANCELLED"
           /\ run.status \notin {"COMPLETED", "FAILED", "CANCELLED"}
  <2>1. PICK t : t = IF stage.status \in {"PENDING", "QUEUED", "RUNNING"} THEN "CANCELLED" ELSE stage.status
    OBVIOUS
  <2>2. stage' = [stage EXCEPT !.status = t] /\ run' = [run EXCEPT !.status = "CANCELLED"]
    BY <1>2, <1>6, <2>1 DEF Reconciled
  <2>3. /\ run' \in Runs /\ run'.requests = run.requests /\ run'.tokens = run.tokens
        /\ run'.cost = run.cost
    BY <2>2, RunRow DEF RunStatuses
  <2>4. t \in StageStatuses /\ t \notin {"QUEUED", "RUNNING"} /\ (stage.status = "SUCCEEDED" => t = "SUCCEEDED")
    BY <1>1, <2>1 DEF StageStatuses
  <2>5. stage' \in Stages /\ stage'.output = stage.output /\ stage'.status = t
    BY <2>2, <2>4, StageRow
  <2> QED BY <2>3, <2>4, <2>5 DEF RunOK
<1>7. CASE /\ s # jobs[j].status
           /\ ~(s = "FAILED" /\ stage.status \in {"QUEUED", "RUNNING"})
           /\ ~(s = "CANCELLATION_REQUESTED" /\ canTransitionResearchRun(run.status, "CANCELLING"))
           /\ ~(s = "CANCELLED" /\ run.status \notin {"COMPLETED", "FAILED", "CANCELLED"})
  <2>1. run' = run /\ stage' = stage
    BY <1>2, <1>7 DEF Reconciled
  <2> QED BY <1>1, <1>2, <1>7, <2>1 DEF RunOK
<1> QED BY <1>3, <1>4, <1>5, <1>6, <1>7

\* A step of the queue keeps what is said of every attempt when the attempts
\* of the jobs stay and a handler changes only by ending.
LEMMA AttemptsKept ==
  ASSUME CallsInv, UNCHANGED <<permits, executions>>,
         \A j \in JobIds : jobs'[j].attempts = jobs[j].attempts,
         \A q \in Owners : \/ handler'[q] = handler[q]
                           \/ /\ handler'[q].pc = "done" /\ handler[q].pc \in Outcomes
  PROVE  AttemptsOK' /\ PendingJobs' \subseteq PendingJobs
<1>1. ASSUME NEW q \in Owners
      PROVE  AttemptFits(jobs'[q[1]], q[2], handler'[q], permits'[q], executions'[q])
  <2>1. AttemptFits(jobs[q[1]], q[2], handler[q], permits[q], executions[q])
    BY DEF CallsInv, AttemptsOK
  <2>2. jobs'[q[1]].attempts = jobs[q[1]].attempts
    BY OwnerIs
  <2>3. CASE handler'[q] = handler[q]
    BY <2>1, <2>2, <2>3 DEF AttemptFits
  <2>4. CASE handler'[q].pc = "done" /\ handler[q].pc \in Outcomes
    BY <2>1, <2>2, <2>4 DEF AttemptFits, Pending, Unfinished, Outcomes
  <2> QED BY <2>3, <2>4
<1>2. \A q \in Owners : Pending(handler'[q]) => Pending(handler[q])
  BY DEF Pending
<1>3. PendingJobs' \subseteq PendingJobs
  <2>1. ASSUME NEW j \in JobIds, NEW a \in AttemptNumbers, jobs'[j].attempts = a,
               Pending(handler'[<<j, a>>])
        PROVE  jobs[j].attempts = a /\ Pending(handler[<<j, a>>])
    BY <1>2, <2>1, OwnerIs
  <2> QED BY <2>1, PendingNext DEF PendingJobs
<1> QED BY <1>1, <1>3 DEF AttemptsOK

\* A job moves to status s and the run follows.
LEMMA JobMoves ==
  ASSUME CallsInv, NEW j \in JobIds, NEW s \in JobQueueStatuses \ {"NONE"}, Reconciled(j),
         jobs' = [jobs EXCEPT ![j].status = s],
         UNCHANGED <<access, costs>>, handler' \in [Owners -> Handlers],
         \A q \in Owners : \/ handler'[q] = handler[q]
                           \/ /\ handler'[q].pc = "done" /\ handler[q].pc \in Outcomes,
         jobs[j].status # "NONE", s = "RUNNING" => jobs[j].status = "RUNNING",
         s = "SUCCEEDED" => stage.status = "SUCCEEDED" \/ ~Active(j)
  PROVE  CallsInv'
<1>1. /\ TypeOK /\ TotalsOK /\ CostsOK /\ RunOK /\ ResponseUsedOnce /\ StoredOK /\ PermitsOK
      /\ JobsOK /\ CommittedOK /\ jobs \in [JobIds -> JobRows] /\ jobs[j] \in JobRows
  BY DEF CallsInv, TypeOK
<1>2. permits' = permits /\ window' = window /\ executions' = executions /\ costs' = costs
  BY DEF access
<1> DEFINE row == [jobs[j] EXCEPT !.status = s]
<1>3. row \in JobRows /\ row.status = s /\ row.attempts = jobs[j].attempts
  BY <1>1 DEF JobRows
<1>4. jobs' = [jobs EXCEPT ![j] = row]
  BY <1>1
<1> HIDE DEF row
<1>5. /\ jobs' \in [JobIds -> JobRows] /\ jobs'[j].status = s
      /\ \A k \in JobIds : jobs'[k].attempts = jobs[k].attempts
      /\ \A k \in JobIds \ {j} : jobs'[k] = jobs[k]
  BY <1>1, <1>3, <1>4
<1>6. /\ run' \in Runs /\ run'.requests = run.requests /\ run'.tokens = run.tokens
      /\ run'.cost = run.cost
      /\ stage' \in Stages /\ stage'.output = stage.output
      /\ stage.status = "SUCCEEDED" => stage'.status = "SUCCEEDED"
      /\ stage'.status \in {"QUEUED", "RUNNING"} => stage.status \in {"QUEUED", "RUNNING"}
      /\ s \in {"FAILED", "CANCELLED"} /\ s # jobs[j].status =>
           stage'.status \notin {"QUEUED", "RUNNING"}
      /\ RunOK'
  BY <1>1, <1>5, ReconciledIs
<1>7. AttemptsOK' /\ PendingJobs' \subseteq PendingJobs
  BY <1>2, <1>5, AttemptsKept
<1>8. TypeOK'
  BY <1>1, <1>2, <1>5, <1>6 DEF TypeOK
<1>9. JobsOK'
  BY <1>1, <1>5 DEF JobsOK
<1>10. PermitsOK' /\ TotalsOK' /\ CostsOK' /\ ResponseUsedOnce'
  BY <1>1, <1>2, <1>6, <1>7, PermitsLeft, TotalsKept DEF CostsOK, ResponseUsedOnce
<1>11. CommittedOK'
  <2>1. \A q \in Owners : handler'[q].pc = "returned" => handler[q].pc = "returned"
    OBVIOUS
  <2> QED BY <1>1, <1>6, <2>1 DEF CommittedOK, Pc
<1>12. StoredOK'
  <2>1. ASSUME stage'.status \in {"QUEUED", "RUNNING"}, NEW k \in JobIds
        PROVE  /\ jobs'[k].status = "RUNNING" => jobs[k].status = "RUNNING"
               /\ Active(k) => Active(k)'
    <3>1. CASE k # j
      BY <1>5, <3>1 DEF Active
    <3>2. CASE k = j
      <4>1. s \in {"FAILED", "CANCELLED"} => s = jobs[j].status
        BY <1>6, <2>1
      <4>2. s = "SUCCEEDED" => ~Active(j)
        BY <1>6, <2>1
      <4> QED BY <1>5, <3>2, <4>1, <4>2 DEF Active, JobQueueStatuses
    <3> QED BY <3>1, <3>2
  <2> QED BY <1>1, <1>6, <1>7, <2>1, StoredKept
<1> QED BY <1>6, <1>7, <1>8, <1>9, <1>10, <1>11, <1>12 DEF CallsInv

\* A job's row stays, or it moves as JobMoves allows: JobInterrupted.
LEMMA InterruptStep ==
  ASSUME CallsInv, NEW j \in JobIds, JobInterrupted(j)
  PROVE  CallsInv'
<1>1. /\ Reconciled(j) /\ UNCHANGED <<access, costs>> /\ handler' = handler
      /\ handler \in [Owners -> Handlers]
  BY DEF JobInterrupted, CallsInv, TypeOK
<1>2. PICK s \in {"FAILED", "QUEUED", "CANCELLED", "CANCELLATION_REQUESTED"} :
        jobs' = [jobs EXCEPT ![j].status = s]
  BY DEF JobInterrupted, LeaseExpires, releaseJobLease, requestJobCancellation, AttemptOver,
         Cancelled
<1>3. jobs[j].status # "NONE"
  BY DEF JobInterrupted, LeaseExpires, releaseJobLease, requestJobCancellation
<1>4. s \in JobQueueStatuses \ {"NONE"}
  BY DEF JobQueueStatuses
<1> QED BY <1>1, <1>2, <1>3, <1>4, JobMoves

\* SettleHandler: only an attempt that has committed the stage succeeds.
LEMMA SettleStep ==
  ASSUME CallsInv, NEW o \in Owners, SettleHandler(o)
  PROVE  CallsInv'
<1>1. /\ TypeOK /\ CommittedOK /\ JobsOK /\ jobs \in [JobIds -> JobRows] /\ RunOK
      /\ handler[o] \in Handlers
      /\ AttemptFits(jobs[o[1]], o[2], handler[o], permits[o], executions[o])
  BY OwnerFits DEF CallsInv, TypeOK
<1>2. o[1] \in JobIds /\ o[2] \in AttemptNumbers /\ jobs[o[1]] \in JobRows
  BY <1>1, OwnerIs
<1>3. /\ Reconciled(o[1]) /\ UNCHANGED <<access, costs>> /\ EndHandler(o)
      /\ Settle(o[1], o[2], Pc(o)) /\ Pc(o) \in Outcomes
  BY DEF SettleHandler
<1>4. /\ handler' \in [Owners -> Handlers] /\ handler'[o].pc = "done"
      /\ \A q \in Owners \ {o} : handler'[q] = handler[q]
  BY <1>1, <1>3, EndIs
<1>5. \A q \in Owners : \/ handler'[q] = handler[q]
                        \/ /\ handler'[q].pc = "done" /\ handler[q].pc \in Outcomes
  BY <1>3, <1>4 DEF Pc
<1>6. ASSUME jobs' = jobs
      PROVE  CallsInv'
  <2>1. CASE jobs[o[1]].status # "NONE"
    <3> DEFINE s == jobs[o[1]].status
    <3>1. s \in JobQueueStatuses
      BY <1>2 DEF JobRows
    <3>2. jobs' = [jobs EXCEPT ![o[1]].status = s]
      BY <1>1, <1>2, <1>6 DEF JobRows
    <3>3. s = "SUCCEEDED" => ~Active(o[1])
      BY DEF Active
    <3> HIDE DEF s
    <3> QED BY <1>2, <1>3, <1>4, <1>5, <2>1, <3>1, <3>2, <3>3, JobMoves DEF s
  <2>2. CASE jobs[o[1]].status = "NONE"
    <3>1. jobs[o[1]].attempts = 0 /\ o[2] > 0
      BY <1>1, <1>2, <2>2 DEF JobsOK, AttemptNumbers
    <3> QED BY <1>1, <1>3, <3>1 DEF AttemptFits, Pc, Outcomes
  <2> QED BY <2>1, <2>2
<1>7. ASSUME NEW s \in {"CANCELLED", "SUCCEEDED", "FAILED", "QUEUED"},
             jobs' = [jobs EXCEPT ![o[1]].status = s], jobs[o[1]].status # "NONE",
             s = "SUCCEEDED" => Pc(o) = "returned"
      PROVE  CallsInv'
  <2>1. s = "SUCCEEDED" => stage.status = "SUCCEEDED"
    BY <1>1, <1>7 DEF CommittedOK
  <2>2. s \in JobQueueStatuses \ {"NONE"}
    BY DEF JobQueueStatuses
  <2> QED BY <1>2, <1>3, <1>4, <1>5, <1>7, <2>1, <2>2, JobMoves
<1>8. CASE jobs[o[1]].attempts # o[2]
  BY <1>3, <1>6, <1>8 DEF Settle
<1>9. CASE jobs[o[1]].attempts = o[2] /\ jobs[o[1]].status = "CANCELLATION_REQUESTED"
  BY <1>3, <1>7, <1>9 DEF Settle
<1>10. CASE jobs[o[1]].attempts = o[2] /\ jobs[o[1]].status \notin {"CANCELLATION_REQUESTED", "RUNNING"}
  BY <1>3, <1>6, <1>10 DEF Settle
<1>11. CASE jobs[o[1]].attempts = o[2] /\ jobs[o[1]].status = "RUNNING"
  <2>1. PICK s : s = CASE Pc(o) = "returned" -> "SUCCEEDED"
                       [] Pc(o) = "failFatal" -> "FAILED"
                       [] Pc(o) = "failRetryable" -> AttemptOver(o[1])
    OBVIOUS
  <2>2. jobs' = [jobs EXCEPT ![o[1]].status = s]
    BY <1>3, <1>11, <2>1 DEF Settle
  <2>3. s \in {"SUCCEEDED", "FAILED", "QUEUED"} /\ (s = "SUCCEEDED" => Pc(o) = "returned")
    BY <1>3, <2>1 DEF Outcomes, AttemptOver
  <2> QED BY <1>7, <1>11, <2>2, <2>3
<1> QED BY <1>8, <1>9, <1>10, <1>11

\* StartCall: the next attempt of a job has nothing yet.
LEMMA StartStep ==
  ASSUME CallsInv, NEW j \in JobIds, StartCall(j)
  PROVE  CallsInv'
<1>1. /\ TypeOK /\ TotalsOK /\ CostsOK /\ RunOK /\ ResponseUsedOnce /\ StoredOK /\ PermitsOK
      /\ JobsOK /\ CommittedOK /\ AttemptsOK /\ jobs \in [JobIds -> JobRows] /\ jobs[j] \in JobRows
      /\ handler \in [Owners -> Handlers]
  BY DEF CallsInv, TypeOK
<1>2. /\ run' = run /\ stage' = stage /\ costs' = costs
      /\ permits' = permits /\ window' = window /\ executions' = executions
      /\ jobs[j].status = "QUEUED" /\ jobs[j].attempts < jobs[j].max
      /\ jobs' = [jobs EXCEPT ![j].status = "RUNNING", ![j].attempts = @ + 1]
      /\ handler' = [handler EXCEPT ![<<j, jobs[j].attempts + 1>>].pc = "start"]
  BY DEF StartCall, StartHandler, StartAttempt, domain
<1>3. PICK a : a = jobs[j].attempts + 1
  OBVIOUS
<1>4. a \in AttemptNumbers /\ a \in Nat /\ a > jobs[j].attempts /\ jobs[j].attempts \in Nat
  BY <1>1, <1>2, <1>3 DEF JobRows, AttemptNumbers
<1>5. PICK o \in Owners : o = <<j, a>> /\ o[1] = j /\ o[2] = a
  BY <1>4, OwnerIs
<1> DEFINE row == [jobs[j] EXCEPT !.status = "RUNNING", !.attempts = a]
           h == [handler[o] EXCEPT !.pc = "start"]
<1>6. row \in JobRows /\ row.status = "RUNNING" /\ row.attempts = a
  <2>1. a \in 0..AttemptCap /\ "RUNNING" \in JobQueueStatuses
    BY <1>4 DEF AttemptNumbers, JobQueueStatuses
  <2> QED BY <1>1, <2>1 DEF JobRows
<1>7. jobs' = [jobs EXCEPT ![j] = row]
  BY <1>1, <1>2, <1>3
<1>8. h \in Handlers /\ h.pc = "start"
  BY <1>1 DEF Handlers, Places
<1>9. handler' = [handler EXCEPT ![o] = h]
  BY <1>1, <1>2, <1>3, <1>5
<1> HIDE DEF row, h
<1>10. /\ jobs' \in [JobIds -> JobRows] /\ jobs'[j] = row
       /\ \A k \in JobIds \ {j} : jobs'[k] = jobs[k]
       /\ handler' \in [Owners -> Handlers] /\ handler'[o] = h
       /\ \A q \in Owners \ {o} : handler'[q] = handler[q]
  BY <1>1, <1>6, <1>7, <1>8, <1>9
<1>11. AttemptsOK'
  <2>1. ASSUME NEW q \in Owners
        PROVE  AttemptFits(jobs'[q[1]], q[2], handler'[q], permits'[q], executions'[q])
    <3>1. AttemptFits(jobs[q[1]], q[2], handler[q], permits[q], executions[q])
      BY <1>1 DEF AttemptsOK
    <3>2. CASE q = o
      <4>1. handler[q].pc = "none"
        BY <1>4, <1>5, <3>1, <3>2 DEF AttemptFits
      <4> QED BY <1>2, <1>4, <1>5, <1>6, <1>8, <1>10, <3>1, <3>2, <4>1, SMTT(30)
              DEF AttemptFits, Pending, Unfinished, Outcomes
    <3>3. CASE q # o
      <4>1. handler'[q] = handler[q] /\ permits'[q] = permits[q] /\ executions'[q] = executions[q]
        BY <1>2, <1>10, <3>3
      <4>2. q[2] > jobs'[q[1]].attempts => q[2] > jobs[q[1]].attempts
        <5>1. CASE q[1] = j
          <6>1. q[2] \in Nat
            BY OwnerIs
          <6> QED BY <1>3, <1>4, <1>6, <1>10, <5>1, <6>1
        <5>2. CASE q[1] # j
          BY <1>10, <5>2, OwnerIs
        <5> QED BY <5>1, <5>2
      <4> QED BY <3>1, <4>1, <4>2 DEF AttemptFits
    <3> QED BY <3>2, <3>3
  <2> QED BY <2>1 DEF AttemptsOK
<1>12. PendingJobs' \subseteq PendingJobs /\ j \notin PendingJobs'
  <2>1. ASSUME NEW k \in JobIds, NEW b \in AttemptNumbers, jobs'[k].attempts = b,
               Pending(handler'[<<k, b>>])
        PROVE  jobs[k].attempts = b /\ Pending(handler[<<k, b>>]) /\ k # j
    <3>1. k # j
      <4>1. SUFFICES ASSUME k = j PROVE FALSE
        OBVIOUS
      <4>2. <<k, b>> = o
        BY <1>5, <1>6, <1>10, <2>1, <4>1
      <4> QED BY <1>8, <1>10, <2>1, <4>2 DEF Pending
    <3>2. <<k, b>> \in Owners \ {o}
      BY <1>5, <3>1, OwnerIs
    <3> QED BY <1>10, <2>1, <3>1, <3>2
  <2> QED BY <2>1, PendingNext DEF PendingJobs
<1>13. TypeOK'
  BY <1>1, <1>2, <1>10 DEF TypeOK
<1>14. JobsOK'
  BY <1>1, <1>6, <1>10 DEF JobsOK
<1>15. CommittedOK'
  <2>1. \A q \in Owners : handler'[q].pc = "returned" => handler[q].pc = "returned"
    BY <1>8, <1>10
  <2> QED BY <1>1, <1>2, <2>1 DEF CommittedOK, Pc
<1>16. StoredOK'
  <2>1. ASSUME NEW k \in JobIds
        PROVE  /\ jobs'[k].status = "RUNNING" => jobs[k].status = "RUNNING" \/ k \notin PendingJobs'
               /\ Active(k) => Active(k)'
    BY <1>6, <1>10, <1>12 DEF Active
  <2> QED BY <1>1, <1>2, <1>12, <2>1, StoredKept
<1>17. PermitsOK' /\ TotalsOK' /\ CostsOK' /\ ResponseUsedOnce' /\ RunOK'
  BY <1>1, <1>2, <1>12, PermitsLeft, TotalsKept DEF CostsOK, ResponseUsedOnce, RunOK
<1> QED BY <1>11, <1>13, <1>14, <1>15, <1>16, <1>17 DEF CallsInv

\* resumeResearchRun: another job of the stage, beside those still at work.
LEMMA ResumeStep ==
  ASSUME CallsInv, NEW j \in JobIds, resumeResearchRun(j)
  PROVE  CallsInv'
<1>1. /\ TypeOK /\ TotalsOK /\ CostsOK /\ RunOK /\ ResponseUsedOnce /\ StoredOK /\ PermitsOK
      /\ JobsOK /\ CommittedOK /\ AttemptsOK /\ jobs \in [JobIds -> JobRows] /\ jobs[j] \in JobRows
      /\ handler \in [Owners -> Handlers] /\ stage.status \in StageStatuses
  BY DEF CallsInv, TypeOK, Stages
<1>2. /\ UNCHANGED <<access, handler, costs>> /\ jobs[j].status = "NONE"
      /\ canTransitionRunStage(stage.status, "QUEUED")
      /\ jobs' = [jobs EXCEPT ![j] = QueuedJob(NoInput)]
      /\ run' = [run EXCEPT !.status = "QUEUED"]
      /\ stage' = [stage EXCEPT !.status = "QUEUED"]
  BY DEF resumeResearchRun
<1>3. permits' = permits /\ window' = window /\ executions' = executions
      /\ handler' = handler /\ costs' = costs
  BY <1>2 DEF access
<1>4. /\ QueuedJob(NoInput) \in JobRows /\ QueuedJob(NoInput).status = "QUEUED"
      /\ QueuedJob(NoInput).attempts = 0 /\ jobs[j].attempts = 0
  BY <1>1, <1>2 DEF QueuedJob, JobRows, JobQueueStatuses, JobsOK
<1>5. /\ jobs' \in [JobIds -> JobRows] /\ jobs'[j].status = "QUEUED"
      /\ \A k \in JobIds : jobs'[k].attempts = jobs[k].attempts
      /\ \A k \in JobIds \ {j} : jobs'[k] = jobs[k]
  BY <1>1, <1>2, <1>4
<1>6. /\ run' \in Runs /\ run'.status = "QUEUED" /\ run'.requests = run.requests
      /\ run'.tokens = run.tokens /\ run'.cost = run.cost
  BY <1>1, <1>2, RunRow DEF RunStatuses
<1>7. stage' \in Stages /\ stage'.status = "QUEUED" /\ stage'.output = stage.output
  BY <1>1, <1>2, StageRow DEF StageStatuses
<1>8. AttemptsOK' /\ PendingJobs' \subseteq PendingJobs
  BY <1>3, <1>5, AttemptsKept
<1>9. TypeOK'
  BY <1>1, <1>3, <1>5, <1>6, <1>7 DEF TypeOK
<1>10. JobsOK'
  BY <1>1, <1>5 DEF JobsOK
<1>11. CommittedOK'
  <2>1. stage.status # "SUCCEEDED"
    BY <1>1, <1>2, StageMoves
  <2> QED BY <1>1, <1>3, <2>1 DEF CommittedOK, Pc
<1>12. StoredOK'
  <2>1. Active(j)'
    BY <1>5 DEF Active
  <2>2. \A k \in PendingJobs' : jobs'[k].status = "RUNNING" => k # j
    BY <1>5
  <2> QED BY <2>1, <2>2 DEF StoredOK
<1>13. PermitsOK' /\ TotalsOK' /\ CostsOK' /\ ResponseUsedOnce' /\ RunOK'
  BY <1>1, <1>3, <1>6, <1>7, <1>8, PermitsLeft, TotalsKept DEF CostsOK, ResponseUsedOnce, RunOK
<1> QED BY <1>8, <1>9, <1>10, <1>11, <1>12, <1>13 DEF CallsInv

-----------------------------------------------------------------------------
(* The invariant.                                                          *)

\* The first job waits and nothing has been called.
LEMMA InitInv == Init => CallsInv
<1> SUFFICES ASSUME Init PROVE CallsInv
  OBVIOUS
<1>1. PICK first \in JobIds :
        jobs = [j \in JobIds |-> IF j = first THEN QueuedJob(NoInput) ELSE NoJob]
  BY DEF Init
<1>2. /\ permits = [o \in Owners |-> "none"] /\ window = 0
      /\ executions = [o \in Owners |-> NoExecution] /\ handler = [o \in Owners |-> NoHandler]
      /\ run = [status |-> "QUEUED", requests |-> 0, tokens |-> 0, cost |-> "KNOWN"]
      /\ stage = [status |-> "QUEUED", output |-> NoResponse, last |-> NoOwner]
      /\ costs = {}
  BY DEF Init, AccessInit
<1>3. QueuedJob(NoInput) \in JobRows /\ NoJob \in JobRows /\ NoJob.attempts = 0
      /\ QueuedJob(NoInput).status = "QUEUED" /\ QueuedJob(NoInput).attempts = 0
  BY DEF QueuedJob, NoJob, JobRows, JobQueueStatuses
<1>4. /\ NoHandler \in Handlers /\ NoHandler.pc = "none" /\ NoHandler.outcome = "none"
      /\ NoExecution \in Executions /\ NoExecution.status = "NONE"
      /\ NoExecution.response = NoResponse
  BY DEF NoHandler, Handlers, Places, NoExecution, Executions, Responses
<1>5. run \in Runs /\ stage \in Stages
  BY <1>2 DEF Runs, Stages, RunStatuses, StageStatuses, Responses, Costs
<1>6. TypeOK
  BY <1>1, <1>2, <1>3, <1>4, <1>5 DEF TypeOK, Permits
<1>7. JobsOK
  BY <1>1, <1>3 DEF JobsOK
<1>8. AttemptsOK
  <2>1. ASSUME NEW o \in Owners
        PROVE  AttemptFits(jobs[o[1]], o[2], handler[o], permits[o], executions[o])
    <3>1. handler[o] = NoHandler /\ permits[o] = "none" /\ executions[o] = NoExecution
      BY <1>2
    <3> QED BY <1>4, <3>1 DEF AttemptFits, Pending, Unfinished, Outcomes
  <2> QED BY <2>1 DEF AttemptsOK
<1>9. PermitsOK
  <2>1. InFlight = {}
    BY <1>2 DEF InFlight
  <2> QED BY <2>1, FS_EmptySet DEF PermitsOK
<1>10. TotalsOK
  <2>1. PendingJobs = {}
    <3>1. \A o \in Owners : ~Pending(handler[o])
      BY <1>2, <1>4 DEF Pending
    <3> QED BY <3>1, OwnerIs DEF PendingJobs
  <2>2. Cardinality(JobIds) \in Nat /\ Cardinality(JobIds) > 0
    BY <1>1, FS_CardinalityType, FS_EmptySet
  <2>3. Cardinality(PendingJobs) = 0
    BY <2>1, FS_EmptySet
  <2> QED BY <1>2, <2>2, <2>3 DEF TotalsOK
<1>11. CostsOK /\ RunOK
  BY <1>2 DEF CostsOK, RunOK
<1>12. CommittedOK
  BY <1>2, <1>4 DEF CommittedOK, Pc
<1>13. ResponseUsedOnce
  BY <1>2, <1>4 DEF ResponseUsedOnce
<1>14. StoredOK
  BY <1>2 DEF StoredOK
<1> QED BY <1>6, <1>7, <1>8, <1>9, <1>10, <1>11, <1>12, <1>13, <1>14 DEF CallsInv

\* Steps that leave all but the request window and the fault counter alone.
LEMMA IdleStep ==
  ASSUME CallsInv, UNCHANGED <<jobs, permits, executions, handler, domain>>, window' \in Nat
  PROVE  CallsInv'
<1>1. /\ run' = run /\ stage' = stage /\ costs' = costs
      /\ jobs' = jobs /\ permits' = permits /\ executions' = executions /\ handler' = handler
  BY DEF domain
<1>2. TypeOK'
  BY <1>1 DEF CallsInv, TypeOK
<1>3. JobsOK' /\ AttemptsOK' /\ CostsOK' /\ RunOK' /\ ResponseUsedOnce' /\ CommittedOK'
  BY <1>1 DEF CallsInv, JobsOK, AttemptsOK, CostsOK, RunOK, ResponseUsedOnce, CommittedOK, Pc
<1>4. PendingJobs' = PendingJobs
  BY <1>1, PendingNext DEF PendingJobs
<1>5. TotalsOK' /\ PermitsOK'
  BY <1>1, <1>4, PermitsLeft DEF CallsInv, TotalsOK
<1>6. StoredOK'
  BY <1>1, <1>4 DEF CallsInv, StoredOK, Active
<1> QED BY <1>2, <1>3, <1>5, <1>6 DEF CallsInv

\* Every step keeps it.
LEMMA NextInv == CallsInv /\ [Next]_vars => CallsInv'
<1> SUFFICES ASSUME CallsInv, [Next]_vars PROVE CallsInv'
  OBVIOUS
<1>1. CASE UNCHANGED vars
  <2>1. UNCHANGED <<jobs, permits, executions, handler, domain>> /\ window' \in Nat
    BY <1>1 DEF vars, domain, CallsInv, TypeOK
  <2> QED BY <2>1, IdleStep
<1>2. CASE Step
  <2>1. ASSUME NEW j \in JobIds, StartCall(j) \/ resumeResearchRun(j)
        PROVE  CallsInv'
    BY <2>1, StartStep, ResumeStep
  <2>2. ASSUME NEW o \in Owners,
               \/ startRunStage(o) \/ Preflight(o) \/ AcquirePermit(o) \/ AssertFence(o)
               \/ StartExecution(o) \/ CallReturns(o) \/ FinishExecution(o)
               \/ recordRunStageProviderAttempt(o) \/ RecordRefused(o) \/ ReleasePermit(o)
               \/ blockRunStage(o) \/ commitRunStage(o) \/ SettleHandler(o)
        PROVE  CallsInv'
    <3>1. CASE startRunStage(o) \/ blockRunStage(o) \/ commitRunStage(o)
      BY <3>1, StatusSteps
    <3>2. CASE AcquirePermit(o) \/ ReleasePermit(o)
      BY <3>2, PermitSteps
    <3>3. CASE AssertFence(o) \/ CallReturns(o) \/ RecordRefused(o)
      BY <3>3, HandlerMoves
    <3>4. CASE Preflight(o) \/ StartExecution(o) \/ FinishExecution(o)
               \/ recordRunStageProviderAttempt(o) \/ SettleHandler(o)
      BY <3>4, PreflightStep, ExecutionStarts, ExecutionFinishes, RecordStep, SettleStep
    <3> QED BY <2>2, <3>1, <3>2, <3>3, <3>4
  <2> QED BY <1>2, <2>1, <2>2 DEF Step
<1>3. CASE Fault
  <2>1. ASSUME NEW j \in JobIds, JobInterrupted(j)
        PROVE  CallsInv'
    BY <2>1, InterruptStep
  <2>2. ASSUME NEW o \in Owners,
               \/ CallThrows(o)
               \/ PermitExpires(o) /\ UNCHANGED domain
               \/ CrashHandler(o) /\ UNCHANGED domain
        PROVE  CallsInv'
    BY <2>2, HandlerMoves, PermitSteps
  <2>3. CASE WindowExpires /\ UNCHANGED domain
    <3>1. UNCHANGED <<jobs, permits, executions, handler, domain>> /\ window' \in Nat
      BY <2>3 DEF WindowExpires
    <3> QED BY <3>1, IdleStep
  <2> QED BY <1>3, <2>1, <2>2, <2>3 DEF Fault
<1> QED BY <1>1, <1>2, <1>3 DEF Next

\* The invariant of the provider calls of a stage, in every behaviour of the
\* handler, of the queue and of the provider (research-pipeline-handler.ts).
THEOREM CallsInvariant == Spec => []CallsInv
  BY InitInv, NextInv, PTL DEF Spec

\* The ledger of a run: known costs are known, and the frozen budget is exceeded
\* by at most one call of every other job of the stage (checkRunBudget,
\* recordRunStageProviderAttempt).
THEOREM UsageLedgerHolds == Spec => []UsageLedger
<1>1. CallsInv => UsageLedger
  <2> SUFFICES ASSUME CallsInv PROVE UsageLedger
    OBVIOUS
  <2>1. run.requests \in Nat /\ run.tokens \in Nat
    BY DEF CallsInv, TypeOK, Runs
  <2> QED BY <2>1, SomePending DEF CallsInv, TotalsOK, CostsOK, UsageLedger
<1> QED BY <1>1, CallsInvariant, PTL

\* A response of the provider is used once (finishProviderExecution).
THEOREM ResponseUsedOnceHolds == Spec => []ResponseUsedOnce
<1>1. CallsInv => ResponseUsedOnce
  BY DEF CallsInv
<1> QED BY <1>1, CallsInvariant, PTL

\* The calls of a stage keep to the permits too, whether they return, throw or
\* lose their fence (acquireProviderPermit, releaseProviderPermit).
THEOREM StagePermitDiscipline == Spec => []PermitDiscipline
<1>1. CallsInv => PermitDiscipline
  <2> SUFFICES ASSUME CallsInv PROVE PermitDiscipline
    OBVIOUS
  <2> DEFINE Calling == {o \in Owners : Pc(o) = "call" /\ permits[o] # "expired"}
  <2>1. ASSUME NEW o \in Owners
        PROVE  /\ Pc(o) = "call" => permits[o] \in {"held", "expired"}
               /\ Pc(o) \in Outcomes => permits[o] # "held"
    BY OwnerFits DEF AttemptFits, Pc
  <2>2. Calling \subseteq InFlight
    BY <2>1 DEF InFlight
  <2>3. IsFiniteSet(InFlight) /\ Cardinality(InFlight) <= ConcurrencyLimit
    BY DEF CallsInv, PermitsOK
  <2>4. Cardinality(Calling) <= ConcurrencyLimit
    <3>1. /\ Cardinality(Calling) <= Cardinality(InFlight) /\ IsFiniteSet(Calling)
      BY <2>2, <2>3, FS_Subset
    <3>2. Cardinality(Calling) \in Nat /\ Cardinality(InFlight) \in Nat
      BY <2>3, <3>1, FS_CardinalityType
    <3> QED BY <2>3, <3>1, <3>2
  <2> QED BY <2>1, <2>4 DEF PermitDiscipline
<1> QED BY <1>1, CallsInvariant, PTL

-----------------------------------------------------------------------------
(* What a step may not do.                                                 *)

Kept == stage'.output = stage.output /\ run'.requests = run.requests

\* Only the record of a call touches the output and the number of requests.
LEMMA OthersKeep ==
  ASSUME CallsInv, [Next]_vars,
         \A o \in Owners : ~recordRunStageProviderAttempt(o)
  PROVE  Kept
<1>1. /\ TypeOK /\ RunOK /\ run \in Runs /\ stage \in Stages
  BY DEF CallsInv, TypeOK
<1>2. CASE UNCHANGED <<run, stage>>
  BY <1>2 DEF Kept
<1>3. ASSUME NEW j \in JobIds, Reconciled(j)
      PROVE  Kept
  BY <1>1, <1>3, ReconciledIs DEF Kept
<1>4. ASSUME NEW j \in JobIds, StartCall(j) \/ resumeResearchRun(j)
      PROVE  Kept
  BY <1>1, <1>2, <1>4 DEF StartCall, resumeResearchRun, domain, Kept, Runs, Stages
<1>5. ASSUME NEW o \in Owners,
             \/ startRunStage(o) \/ blockRunStage(o) \/ commitRunStage(o)
      PROVE  Kept
  BY <1>1, <1>5 DEF startRunStage, blockRunStage, commitRunStage, Kept, Runs, Stages
<1>6. ASSUME NEW o \in Owners,
             \/ Preflight(o) \/ AcquirePermit(o) \/ AssertFence(o)
             \/ StartExecution(o) \/ CallReturns(o) \/ FinishExecution(o)
             \/ RecordRefused(o) \/ ReleasePermit(o) \/ CallThrows(o)
      PROVE  Kept
  BY <1>6 DEF Preflight, AcquirePermit, AssertFence, StartExecution, CallReturns, FinishExecution,
              RecordRefused, ReleasePermit, CallThrows, domain, Kept
<1>7. ASSUME NEW o \in Owners, SettleHandler(o)
      PROVE  Kept
  BY <1>3, <1>7, OwnerIs DEF SettleHandler
<1>8. CASE Step
  BY <1>4, <1>5, <1>6, <1>7, <1>8 DEF Step
<1>9. CASE Fault
  BY <1>2, <1>3, <1>6, <1>9 DEF Fault, JobInterrupted, domain
<1>10. CASE UNCHANGED vars
  BY <1>10 DEF vars, Kept
<1> QED BY <1>8, <1>9, <1>10 DEF Next

\* A stored output is paid for once: unless another job of the stage is active,
\* no step replaces it or counts a further call (recordRunStageProviderAttempt,
\* reuseOrCommitOutput of research-pipeline-handler.ts).
THEOREM OutputKeptHolds == Spec => OutputKept
<1>1. ASSUME CallsInv, [Next]_vars, stage.output # NoResponse,
             Cardinality({j \in JobIds : Active(j)}) <= 1
      PROVE  Kept
  <2>1. ASSUME NEW o \in Owners, recordRunStageProviderAttempt(o)
        PROVE  FALSE
    <3>1. Pc(o) = "record" /\ FencedOwner(o) /\ stage.status = "RUNNING"
      BY <2>1 DEF recordRunStageProviderAttempt
    <3>2. /\ o[1] \in JobIds /\ o[2] \in AttemptNumbers /\ <<o[1], o[2]>> = o
          /\ jobs[o[1]].attempts = o[2] /\ jobs[o[1]].status = "RUNNING"
      BY <3>1, OwnerIs DEF FencedOwner, Fenced
    <3>3. o[1] \in PendingJobs
      BY <3>1, <3>2 DEF PendingJobs, Pending, Pc
    <3>4. PICK k \in JobIds \ {o[1]} : Active(k)
      BY <1>1, <3>1, <3>2, <3>3 DEF CallsInv, StoredOK
    <3> DEFINE Working == {j \in JobIds : Active(j)}
    <3>5. IsFiniteSet(Working) /\ {o[1], k} \subseteq Working
      BY <3>2, <3>4, FS_Subset DEF Active
    <3>6. Cardinality({o[1], k}) = 2
      <4>1. Cardinality({o[1]}) = 1 /\ IsFiniteSet({o[1]})
        BY FS_Singleton
      <4>2. Cardinality({o[1]} \cup {k}) = Cardinality({o[1]}) + 1
        BY <3>4, <4>1, FS_AddElement
      <4>3. {o[1]} \cup {k} = {o[1], k}
        OBVIOUS
      <4> QED BY <4>1, <4>2, <4>3
    <3>7. Cardinality(Working) \in Nat /\ 2 <= Cardinality(Working)
      BY <3>5, <3>6, FS_Subset, FS_CardinalityType
    <3> QED BY <1>1, <3>7
  <2> QED BY <1>1, <2>1, OthersKeep
<1>2. CallsInv /\ [Next]_vars =>
        [stage.output # NoResponse /\ Cardinality({j \in JobIds : Active(j)}) <= 1 =>
           stage'.output = stage.output /\ run'.requests = run.requests]_vars
  BY <1>1 DEF Kept
<1> QED BY <1>2, CallsInvariant, PTL DEF Spec, OutputKept
=============================================================================

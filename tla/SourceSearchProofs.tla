------------------------- MODULE SourceSearchProofs -------------------------
(***************************************************************************)
(* Proofs about SourceSearch, for any set of jobs, any number of attempts  *)
(* and every budget.  The invariant says of each attempt what its permit,  *)
(* its execution and its job's checkpoint may be at each place of its      *)
(* handler; the counts of the run and of the permits in flight follow the  *)
(* sets they count.  The last section is about SafeFetch, by which the     *)
(* pages of sources are read.                                              *)
(***************************************************************************)
EXTENDS SourceSearch, SafeFetch, FiniteSetTheorems, TLAPS

USE WorkerJobsAssumption DEF WorkerJobsAssumption
USE ProviderAccessAssumption DEF ProviderAccessAssumption
USE SourceSearchAssumption DEF SourceSearchAssumption

-----------------------------------------------------------------------------
(* The inductive invariant.                                                *)

JobRows == [ status : JobQueueStatuses, attempts : 0..AttemptCap, max : 0..AttemptCap,
             input : {NoInput, ForRun} ]
Places == Outcomes \cup { "none", "permit", "reuse", "reserve", "call", "commit",
                          "finish", "release", "done" }
Handlers == [ pc : Places, outcome : Outcomes \cup {"none"}, data : SUBSET SourceIds ]
Permits == {"none", "held", "released", "expired"}
Executions == [ status : {"NONE", "STARTED", "SUCCEEDED", "REJECTED", "FAILED"},
                response : {NoResponse} ]

TypeOK ==
  /\ jobs \in [JobIds -> JobRows]
  /\ permits \in [Owners -> Permits] /\ window \in Nat
  /\ executions \in [Owners -> Executions]
  /\ handler \in [Owners -> Handlers]
  /\ run \in [status : RunStatuses, searches : Nat]
  /\ found \in SUBSET SourceIds /\ manual \in Nat /\ reviewed \in BOOLEAN
  /\ checkpoint \in [JobIds -> (SUBSET SourceIds) \cup {NoCheckpoint}]

\* A job that was never submitted has no attempt and no input.
JobsOK == \A j \in JobIds : jobs[j].status = "NONE" => jobs[j].attempts = 0 /\ jobs[j].input = NoInput

\* What the handler h, the permit p and the execution e of attempt a may be
\* when the job row is job and its checkpoint c.
AttemptFits(job, c, a, h, p, e) ==
  /\ a > job.attempts => h.pc = "none"
  /\ h.pc \in {"none", "permit", "reuse"} => p = "none"
  /\ h.pc \in {"reserve", "call"} => p \in {"held", "expired"}
  /\ h.pc \in Outcomes => p # "held"
  /\ h.pc \in {"none", "permit", "reuse", "reserve"} => e.status = "NONE"
  /\ h.pc \in {"call", "commit", "finish"} => e.status = "STARTED"
  /\ h.pc \in {"finish", "release"} => h.outcome \in Outcomes
  /\ c # NoCheckpoint /\ h.pc \in {"permit", "reserve", "call", "commit"} => a < job.attempts

AttemptsOK ==
  \A o \in Owners :
    AttemptFits(jobs[o[1]], checkpoint[o[1]], o[2], handler[o], permits[o], executions[o])

PermitsOK == IsFiniteSet(InFlight) /\ Cardinality(InFlight) <= ConcurrencyLimit

Counted == {o \in Owners : OfRun(o[1]) /\ executions[o].status # "NONE"}
CountOK ==
  IsFiniteSet(Counted) /\ run.searches = Cardinality(Counted) /\ run.searches <= MaxSearchRequests

\* The checkpoint of a job comes from its one successful execution, the last.
WonOK(j) ==
  IF checkpoint[j] = NoCheckpoint
    THEN \A a \in AttemptNumbers : executions[<<j, a>>].status # "SUCCEEDED"
    ELSE /\ checkpoint[j] \subseteq found
         /\ \E a \in AttemptNumbers : \A b \in AttemptNumbers :
              /\ executions[<<j, b>>].status = "SUCCEEDED" <=> b = a
              /\ b > a => executions[<<j, b>>].status = "NONE"

SearchInv ==
  /\ TypeOK /\ JobsOK /\ AttemptsOK /\ PermitsOK /\ CountOK
  /\ \A j \in JobIds : WonOK(j)

-----------------------------------------------------------------------------
(* Attempts, handlers and the tables they own a row of.                    *)

\* An owner is a job and the number of an attempt of it.
LEMMA OwnerIs ==
  /\ \A o \in Owners : o[1] \in JobIds /\ o[2] \in AttemptNumbers /\ o = <<o[1], o[2]>>
  /\ \A j \in JobIds, a \in AttemptNumbers :
       /\ <<j, a>> \in Owners /\ <<j, a>>[1] = j /\ <<j, a>>[2] = a
       /\ a \in Nat /\ a > 0
  BY DEF Owners, AttemptNumbers

\* The place a handler without an attempt has.
LEMMA NoHandlerIs ==
  NoHandler \in Handlers /\ NoHandler.pc = "none" /\ NoHandler.outcome = "none" /\ NoHandler.data = {}
  BY DEF NoHandler, Handlers, Places

\* Leave moves one handler and forgets what it carried.
LEMMA LeaveIs ==
  ASSUME TypeOK, NEW o \in Owners, NEW pc \in Places, NEW outcome \in Outcomes, Leave(o, pc, outcome)
  PROVE  /\ handler' \in [Owners -> Handlers]
         /\ handler'[o].pc = pc /\ handler'[o].outcome = outcome
         /\ \A q \in Owners \ {o} : handler'[q] = handler[q]
<1> DEFINE h == [NoHandler EXCEPT !.pc = pc, !.outcome = outcome]
<1>1. h \in Handlers /\ h.pc = pc /\ h.outcome = outcome
  BY DEF NoHandler, Handlers, Places
<1>2. handler' = [handler EXCEPT ![o] = h] /\ handler \in [Owners -> Handlers]
  BY DEF Leave, TypeOK
<1> HIDE DEF h
<1> QED BY <1>1, <1>2

\* Goto and GotoWith keep the outcome.
LEMMA GotoIs ==
  ASSUME TypeOK, NEW o \in Owners, NEW pc \in Places,
         Goto(o, pc) \/ \E data \in SUBSET SourceIds : GotoWith(o, pc, data)
  PROVE  /\ handler' \in [Owners -> Handlers]
         /\ handler'[o].pc = pc /\ handler'[o].outcome = handler[o].outcome
         /\ \A q \in Owners \ {o} : handler'[q] = handler[q]
<1>1. handler \in [Owners -> Handlers] /\ handler[o] \in Handlers
  BY DEF TypeOK
<1>2. CASE Goto(o, pc)
  <2> DEFINE h == [handler[o] EXCEPT !.pc = pc]
  <2>1. h \in Handlers /\ h.pc = pc /\ h.outcome = handler[o].outcome
    BY <1>1 DEF Handlers
  <2>2. handler' = [handler EXCEPT ![o] = h]
    BY <1>1, <1>2 DEF Goto
  <2> HIDE DEF h
  <2> QED BY <1>1, <2>1, <2>2
<1>3. ASSUME NEW data \in SUBSET SourceIds, GotoWith(o, pc, data)
      PROVE  /\ handler' \in [Owners -> Handlers]
             /\ handler'[o].pc = pc /\ handler'[o].outcome = handler[o].outcome
             /\ \A q \in Owners \ {o} : handler'[q] = handler[q]
  <2> DEFINE h == [handler[o] EXCEPT !.pc = pc, !.data = data]
  <2>1. h \in Handlers /\ h.pc = pc /\ h.outcome = handler[o].outcome
    BY <1>1 DEF Handlers
  <2>2. handler' = [handler EXCEPT ![o] = h]
    BY <1>1, <1>3 DEF GotoWith
  <2> HIDE DEF h
  <2> QED BY <1>1, <2>1, <2>2
<1> QED BY <1>2, <1>3

\* EndHandler and CrashHandler leave a handler that is done.
LEMMA EndIs ==
  ASSUME TypeOK, NEW o \in Owners, EndHandler(o)
  PROVE  /\ handler' \in [Owners -> Handlers] /\ handler'[o].pc = "done"
         /\ \A q \in Owners \ {o} : handler'[q] = handler[q]
<1> DEFINE h == [NoHandler EXCEPT !.pc = "done"]
<1>1. h \in Handlers /\ h.pc = "done"
  BY DEF NoHandler, Handlers, Places
<1>2. handler' = [handler EXCEPT ![o] = h] /\ handler \in [Owners -> Handlers]
  BY DEF EndHandler, TypeOK
<1> HIDE DEF h
<1> QED BY <1>1, <1>2

\* One attempt's handler, permit and execution change, and they fit.
LEMMA AttemptMoved ==
  ASSUME SearchInv, NEW o \in Owners, UNCHANGED <<jobs, checkpoint>>,
         \A q \in Owners \ {o} : /\ handler'[q] = handler[q] /\ permits'[q] = permits[q]
                                 /\ executions'[q] = executions[q],
         AttemptFits(jobs[o[1]], checkpoint[o[1]], o[2], handler'[o], permits'[o], executions'[o])
  PROVE  JobsOK' /\ AttemptsOK' /\ jobs' \in [JobIds -> JobRows]
         /\ checkpoint' \in [JobIds -> (SUBSET SourceIds) \cup {NoCheckpoint}]
<1>1. JobsOK /\ jobs \in [JobIds -> JobRows]
      /\ checkpoint \in [JobIds -> (SUBSET SourceIds) \cup {NoCheckpoint}]
  BY DEF SearchInv, TypeOK
<1>2. \A q \in Owners :
        AttemptFits(jobs[q[1]], checkpoint[q[1]], q[2], handler[q], permits[q], executions[q])
  BY DEF SearchInv, AttemptsOK
<1>3. ASSUME NEW q \in Owners
      PROVE  AttemptFits(jobs'[q[1]], checkpoint'[q[1]], q[2], handler'[q], permits'[q], executions'[q])
  <2>1. CASE q = o
    BY <2>1
  <2>2. CASE q # o
    <3>1. /\ handler'[q] = handler[q] /\ permits'[q] = permits[q] /\ executions'[q] = executions[q]
      BY <2>2
    <3>2. AttemptFits(jobs[q[1]], checkpoint[q[1]], q[2], handler[q], permits[q], executions[q])
      BY <1>2
    <3> QED BY <3>1, <3>2
  <2> QED BY <2>1, <2>2
<1> QED BY <1>1, <1>3 DEF AttemptsOK, JobsOK

-----------------------------------------------------------------------------
(* Permits, counts and checkpoints.                                        *)

\* A permit is given out below the limit only.
LEMMA PermitTaken ==
  ASSUME TypeOK, PermitsOK, NEW o \in Owners, permits' = [permits EXCEPT ![o] = "held"],
         Cardinality(InFlight) < ConcurrencyLimit
  PROVE  PermitsOK'
<1>1. InFlight' = InFlight \cup {o}
  BY DEF TypeOK, InFlight
<1>2. IsFiniteSet(InFlight) /\ Cardinality(InFlight) \in Nat
  BY FS_CardinalityType DEF PermitsOK
<1>3. /\ IsFiniteSet(InFlight \cup {o})
      /\ Cardinality(InFlight \cup {o}) \in {Cardinality(InFlight), Cardinality(InFlight) + 1}
  BY <1>2, FS_AddElement
<1> QED BY <1>1, <1>2, <1>3 DEF PermitsOK

\* Permits that are given back, expire or stay.
LEMMA PermitsLeft ==
  ASSUME PermitsOK, \A o \in Owners : permits'[o] = "held" => permits[o] = "held"
  PROVE  PermitsOK'
<1>1. InFlight' \subseteq InFlight
  BY DEF InFlight
<1>2. /\ IsFiniteSet(InFlight') /\ Cardinality(InFlight') <= Cardinality(InFlight)
      /\ Cardinality(InFlight') \in Nat /\ Cardinality(InFlight) \in Nat
  BY <1>1, FS_Subset, FS_CardinalityType DEF PermitsOK
<1> QED BY <1>2 DEF PermitsOK

\* Steps that start no execution and leave the run's counter alone.
LEMMA CountKept ==
  ASSUME CountOK, run'.searches = run.searches,
         \A o \in Owners : OfRun(o[1])' /\ executions'[o].status # "NONE" <=>
                             OfRun(o[1]) /\ executions[o].status # "NONE"
  PROVE  CountOK'
<1>1. Counted' = Counted
  BY DEF Counted
<1> QED BY <1>1 DEF CountOK

\* Executions that neither start nor succeed leave the checkpoints valid.
LEMMA WonKept ==
  ASSUME NEW j \in JobIds, WonOK(j), checkpoint'[j] = checkpoint[j], found \subseteq found',
         \A a \in AttemptNumbers :
           /\ executions'[<<j, a>>].status = "SUCCEEDED" <=> executions[<<j, a>>].status = "SUCCEEDED"
           /\ executions'[<<j, a>>].status = "NONE" <=> executions[<<j, a>>].status = "NONE"
  PROVE  WonOK(j)'
  BY DEF WonOK

\* The handler moves, or is lost, and nothing else happens.
LEMMA QuietStep ==
  ASSUME SearchInv, NEW o \in Owners, UNCHANGED <<jobs, access, domain>>,
         handler' \in [Owners -> Handlers], \A q \in Owners \ {o} : handler'[q] = handler[q],
         AttemptFits(jobs[o[1]], checkpoint[o[1]], o[2], handler'[o], permits[o], executions[o])
  PROVE  SearchInv'
<1>1. /\ UNCHANGED <<jobs, permits, window, executions, run, found, manual, checkpoint, reviewed>>
      /\ TypeOK /\ PermitsOK /\ CountOK /\ \A j \in JobIds : WonOK(j)
  BY DEF SearchInv, access, domain
<1>2. JobsOK' /\ AttemptsOK'
  BY <1>1, AttemptMoved
<1>3. TypeOK'
  BY <1>1 DEF TypeOK
<1>4. PermitsOK' /\ CountOK'
  BY <1>1 DEF PermitsOK, InFlight, CountOK, Counted, OfRun
<1>5. \A j \in JobIds : WonOK(j)'
  BY <1>1 DEF WonOK
<1> QED BY <1>2, <1>3, <1>4, <1>5 DEF SearchInv

-----------------------------------------------------------------------------
(* The steps of a handler.                                                 *)

\* reuseCommittedSourceSearchResults, SearchReturns, SearchFails,
\* FinishSwallowed and CrashHandler move a handler and nothing else.
LEMMA HandlerMoves ==
  ASSUME SearchInv, NEW o \in Owners,
         \/ reuseCommittedSourceSearchResults(o) \/ SearchReturns(o) \/ SearchFails(o)
         \/ FinishSwallowed(o) \/ (CrashHandler(o) /\ UNCHANGED domain)
  PROVE  SearchInv'
<1>1. /\ TypeOK /\ handler[o] \in Handlers
      /\ AttemptFits(jobs[o[1]], checkpoint[o[1]], o[2], handler[o], permits[o], executions[o])
  BY DEF SearchInv, TypeOK, AttemptsOK
<1>2. CASE reuseCommittedSourceSearchResults(o)
  <2>1. /\ UNCHANGED <<jobs, access, domain>> /\ Pc(o) = "reuse"
        /\ \E outcome \in Outcomes : Leave(o, outcome, outcome)
    BY <1>2 DEF reuseCommittedSourceSearchResults, Ends, Outcomes
  <2>2. PICK outcome \in Outcomes : Leave(o, outcome, outcome)
    BY <2>1
  <2>3. /\ handler' \in [Owners -> Handlers] /\ handler'[o].pc = outcome
        /\ \A q \in Owners \ {o} : handler'[q] = handler[q]
    BY <1>1, <2>2, LeaveIs DEF Places
  <2>4. AttemptFits(jobs[o[1]], checkpoint[o[1]], o[2], handler'[o], permits[o], executions[o])
    BY <1>1, <2>1, <2>3 DEF AttemptFits, Pc, Outcomes
  <2> QED BY <2>1, <2>3, <2>4, QuietStep
<1>3. CASE SearchReturns(o)
  <2>1. /\ UNCHANGED <<jobs, access, domain>> /\ Pc(o) = "call"
        /\ \E hits \in SUBSET SourceIds : GotoWith(o, "commit", hits)
    BY <1>3 DEF SearchReturns
  <2>2. /\ handler' \in [Owners -> Handlers] /\ handler'[o].pc = "commit"
        /\ \A q \in Owners \ {o} : handler'[q] = handler[q]
    BY <1>1, <2>1, GotoIs DEF Places
  <2>3. AttemptFits(jobs[o[1]], checkpoint[o[1]], o[2], handler'[o], permits[o], executions[o])
    BY <1>1, <2>1, <2>2 DEF AttemptFits, Pc, Outcomes
  <2> QED BY <2>1, <2>2, <2>3, QuietStep
<1>4. CASE SearchFails(o)
  <2>1. UNCHANGED <<jobs, access, domain>> /\ Pc(o) \in {"call", "commit"}
    BY <1>4 DEF SearchFails
  <2>2. PICK outcome \in Outcomes : Leave(o, "finish", outcome)
    BY <1>4 DEF SearchFails, Outcomes
  <2>3. /\ handler' \in [Owners -> Handlers] /\ handler'[o].pc = "finish"
        /\ handler'[o].outcome = outcome
        /\ \A q \in Owners \ {o} : handler'[q] = handler[q]
    BY <1>1, <2>2, LeaveIs DEF Places
  <2>4. AttemptFits(jobs[o[1]], checkpoint[o[1]], o[2], handler'[o], permits[o], executions[o])
    BY <1>1, <2>1, <2>3 DEF AttemptFits, Pc, Outcomes
  <2> QED BY <2>1, <2>3, <2>4, QuietStep
<1>5. CASE FinishSwallowed(o)
  <2>1. UNCHANGED <<jobs, access, domain>> /\ Pc(o) = "finish" /\ Goto(o, "release")
    BY <1>5 DEF FinishSwallowed
  <2>2. /\ handler' \in [Owners -> Handlers] /\ handler'[o].pc = "release"
        /\ handler'[o].outcome = handler[o].outcome
        /\ \A q \in Owners \ {o} : handler'[q] = handler[q]
    BY <1>1, <2>1, GotoIs DEF Places
  <2>3. AttemptFits(jobs[o[1]], checkpoint[o[1]], o[2], handler'[o], permits[o], executions[o])
    BY <1>1, <2>1, <2>2 DEF AttemptFits, Pc, Outcomes
  <2> QED BY <2>1, <2>2, <2>3, QuietStep
<1>6. CASE CrashHandler(o) /\ UNCHANGED domain
  <2>1. UNCHANGED <<jobs, access, domain>> /\ Pc(o) # "none" /\ EndHandler(o)
    BY <1>6 DEF CrashHandler, EndHandler, access
  <2>2. /\ handler' \in [Owners -> Handlers] /\ handler'[o].pc = "done"
        /\ \A q \in Owners \ {o} : handler'[q] = handler[q]
    BY <1>1, <2>1, EndIs
  <2>3. AttemptFits(jobs[o[1]], checkpoint[o[1]], o[2], handler'[o], permits[o], executions[o])
    BY <1>1, <2>1, <2>2 DEF AttemptFits, Pc, Outcomes
  <2> QED BY <2>1, <2>2, <2>3, QuietStep
<1> QED BY <1>2, <1>3, <1>4, <1>5, <1>6

\* acquireProviderPermit, releaseProviderPermit and the expiry of a permit.
LEMMA PermitSteps ==
  ASSUME SearchInv, NEW o \in Owners,
         AcquirePermit(o) \/ ReleasePermit(o) \/ (PermitExpires(o) /\ UNCHANGED domain)
  PROVE  SearchInv'
<1>1. /\ TypeOK /\ handler[o] \in Handlers /\ permits \in [Owners -> Permits] /\ PermitsOK
      /\ AttemptFits(jobs[o[1]], checkpoint[o[1]], o[2], handler[o], permits[o], executions[o])
      /\ CountOK /\ \A j \in JobIds : WonOK(j)
  BY DEF SearchInv, TypeOK, AttemptsOK
<1>2. /\ UNCHANGED <<jobs, executions, run, found, manual, checkpoint, reviewed>> /\ window' \in Nat
  BY <1>1 DEF AcquirePermit, acquireProviderPermit, ReleasePermit, releaseProviderPermit,
              PermitExpires, domain, TypeOK
<1>3. /\ permits' \in [Owners -> Permits]
      /\ \A q \in Owners \ {o} : permits'[q] = permits[q]
      /\ handler' \in [Owners -> Handlers]
      /\ \A q \in Owners \ {o} : handler'[q] = handler[q]
      /\ PermitsOK'
      /\ AttemptFits(jobs[o[1]], checkpoint[o[1]], o[2], handler'[o], permits'[o], executions[o])
  <2>1. CASE Pc(o) = "permit" /\ PermitAllowed /\ permits' = [permits EXCEPT ![o] = "held"] /\ Goto(o, "reserve")
    <3>1. /\ handler' \in [Owners -> Handlers] /\ handler'[o].pc = "reserve"
          /\ \A q \in Owners \ {o} : handler'[q] = handler[q]
      BY <1>1, <2>1, GotoIs DEF Places
    <3>2. PermitsOK'
      BY <1>1, <2>1, PermitTaken DEF PermitAllowed
    <3>3. AttemptFits(jobs[o[1]], checkpoint[o[1]], o[2], handler'[o], permits'[o], executions[o])
      BY <1>1, <2>1, <3>1 DEF AttemptFits, Pc, Outcomes
    <3> QED BY <1>1, <2>1, <3>1, <3>2, <3>3 DEF Permits
  <2>2. CASE Pc(o) = "permit" /\ permits' = permits /\ Ends(o, "failRetryable")
    <3>1. /\ handler' \in [Owners -> Handlers] /\ handler'[o].pc = "failRetryable"
          /\ \A q \in Owners \ {o} : handler'[q] = handler[q]
      BY <1>1, <2>2, LeaveIs DEF Places, Ends, Outcomes
    <3>2. PermitsOK'
      BY <1>1, <2>2, PermitsLeft
    <3>3. AttemptFits(jobs[o[1]], checkpoint[o[1]], o[2], handler'[o], permits'[o], executions[o])
      BY <1>1, <2>2, <3>1 DEF AttemptFits, Pc, Outcomes
    <3> QED BY <1>1, <2>2, <3>1, <3>2, <3>3
  <2>3. CASE Pc(o) = "release" /\ permits' = [permits EXCEPT ![o] = Released(o)] /\ Goto(o, handler[o].outcome)
    <3>1. handler[o].outcome \in Outcomes
      BY <1>1, <2>3 DEF AttemptFits, Pc
    <3>2. /\ handler' \in [Owners -> Handlers] /\ handler'[o].pc = handler[o].outcome
          /\ \A q \in Owners \ {o} : handler'[q] = handler[q]
      BY <1>1, <2>3, <3>1, GotoIs DEF Places
    <3>3. Released(o) \in Permits \ {"held"}
      BY <1>1 DEF Released, Permits
    <3>4. PermitsOK'
      BY <1>1, <2>3, <3>3, PermitsLeft
    <3>5. AttemptFits(jobs[o[1]], checkpoint[o[1]], o[2], handler'[o], permits'[o], executions[o])
      BY <1>1, <2>3, <3>1, <3>2, <3>3 DEF AttemptFits, Pc, Outcomes
    <3> QED BY <1>1, <2>3, <3>2, <3>3, <3>4, <3>5
  <2>4. CASE permits[o] = "held" /\ permits' = [permits EXCEPT ![o] = "expired"] /\ handler' = handler
    <3>1. PermitsOK'
      BY <1>1, <2>4, PermitsLeft
    <3>2. AttemptFits(jobs[o[1]], checkpoint[o[1]], o[2], handler'[o], permits'[o], executions[o])
      BY <1>1, <2>4 DEF AttemptFits, Outcomes
    <3>3. handler' \in [Owners -> Handlers]
      BY <1>1, <2>4 DEF TypeOK
    <3> QED BY <1>1, <2>4, <3>1, <3>2, <3>3 DEF Permits
  <2> QED BY <2>1, <2>2, <2>3, <2>4 DEF AcquirePermit, acquireProviderPermit, ReleasePermit,
             releaseProviderPermit, PermitExpires
<1>4. JobsOK' /\ AttemptsOK'
  BY <1>2, <1>3, AttemptMoved
<1>5. TypeOK'
  BY <1>1, <1>2, <1>3 DEF TypeOK
<1>6. CountOK'
  BY <1>1, <1>2 DEF CountOK, Counted, OfRun
<1>7. \A j \in JobIds : WonOK(j)'
  BY <1>1, <1>2 DEF WonOK
<1> QED BY <1>3, <1>4, <1>5, <1>6, <1>7 DEF SearchInv

\* Blocking the run for its budget does not touch its counter.
LEMMA BlockedRun ==
  ASSUME TypeOK, blockRunForSearchBudget
  PROVE  run' \in [status : RunStatuses, searches : Nat] /\ run'.searches = run.searches
<1> DEFINE status == IF canTransitionResearchRun(run.status, "BLOCKED") THEN "BLOCKED" ELSE run.status
<1>1. run \in [status : RunStatuses, searches : Nat] /\ status \in RunStatuses
  BY DEF TypeOK, RunStatuses
<1>2. run' = [run EXCEPT !.status = status]
  BY DEF blockRunForSearchBudget
<1> HIDE DEF status
<1> QED BY <1>1, <1>2

\* startProviderExecution and finishProviderExecution write one execution.
LEMMA ExecutionIs ==
  ASSUME TypeOK, NEW o \in Owners,
         NEW status \in {"STARTED", "SUCCEEDED", "REJECTED", "FAILED"},
         \/ status = "STARTED" /\ startProviderExecution(o)
         \/ finishProviderExecution(o, status, NoResponse)
  PROVE  /\ executions' \in [Owners -> Executions] /\ executions'[o].status = status
         /\ \A q \in Owners \ {o} : executions'[q] = executions[q]
<1>1. executions \in [Owners -> Executions] /\ executions[o] \in Executions
  BY DEF TypeOK
<1>2. CASE startProviderExecution(o) /\ status = "STARTED"
  <2> DEFINE e == [executions[o] EXCEPT !.status = "STARTED"]
  <2>1. e \in Executions /\ e.status = "STARTED"
    BY <1>1 DEF Executions
  <2>2. executions' = [executions EXCEPT ![o] = e]
    BY <1>1, <1>2 DEF startProviderExecution
  <2> HIDE DEF e
  <2> QED BY <1>1, <1>2, <2>1, <2>2
<1>3. CASE finishProviderExecution(o, status, NoResponse)
  <2> DEFINE e == [status |-> status, response |-> NoResponse]
  <2>1. e \in Executions /\ e.status = status
    BY DEF Executions
  <2>2. executions' = [executions EXCEPT ![o] = e]
    BY <1>3 DEF finishProviderExecution, DuplicateResponse
  <2> HIDE DEF e
  <2> QED BY <1>1, <2>1, <2>2
<1> QED BY <1>2, <1>3

\* reserveSourceSearchAttempt counts in the step that starts the execution,
\* and only a job without a checkpoint gets there.
LEMMA ReserveStep ==
  ASSUME SearchInv, NEW o \in Owners, reserveSourceSearchAttempt(o)
  PROVE  SearchInv'
<1>1. /\ TypeOK /\ handler[o] \in Handlers /\ PermitsOK
      /\ AttemptFits(jobs[o[1]], checkpoint[o[1]], o[2], handler[o], permits[o], executions[o])
      /\ CountOK /\ \A j \in JobIds : WonOK(j)
  BY DEF SearchInv, TypeOK, AttemptsOK
<1>2. /\ UNCHANGED <<jobs, permits, window, found, manual, checkpoint, reviewed>> /\ Pc(o) = "reserve"
  BY DEF reserveSourceSearchAttempt
<1>3. PermitsOK'
  BY <1>1, <1>2, PermitsLeft
<1>4. CASE /\ executions' = executions /\ (run' = run \/ blockRunForSearchBudget)
           /\ Leave(o, "release", "failFatal") \/ Leave(o, "release", "failRetryable")
  <2>1. /\ handler' \in [Owners -> Handlers] /\ handler'[o].pc = "release" /\ handler'[o].outcome \in Outcomes
        /\ \A q \in Owners \ {o} : handler'[q] = handler[q]
    BY <1>1, <1>4, LeaveIs DEF Places, Outcomes
  <2>2. AttemptFits(jobs[o[1]], checkpoint[o[1]], o[2], handler'[o], permits[o], executions[o])
    BY <1>1, <1>2, <2>1 DEF AttemptFits, Pc, Outcomes
  <2>3. run' \in [status : RunStatuses, searches : Nat] /\ run'.searches = run.searches
    BY <1>1, <1>4, BlockedRun DEF TypeOK
  <2>4. JobsOK' /\ AttemptsOK'
    BY <1>2, <1>4, <2>1, <2>2, AttemptMoved
  <2>5. TypeOK'
    BY <1>1, <1>2, <1>4, <2>1, <2>3 DEF TypeOK
  <2>6. CountOK'
    BY <1>1, <1>2, <1>4, <2>3, CountKept DEF OfRun
  <2>7. \A j \in JobIds : WonOK(j)'
    BY <1>1, <1>2, <1>4 DEF WonOK
  <2> QED BY <1>3, <2>4, <2>5, <2>6, <2>7 DEF SearchInv
<1>5. CASE /\ FencedOwner(o) /\ ~OverReservation(o) /\ startProviderExecution(o) /\ Goto(o, "call")
           /\ run' = IF OfRun(o[1]) THEN [run EXCEPT !.searches = SearchesCounted(o)] ELSE run
  <2>1. /\ handler' \in [Owners -> Handlers] /\ handler'[o].pc = "call"
        /\ \A q \in Owners \ {o} : handler'[q] = handler[q]
    BY <1>1, <1>5, GotoIs DEF Places
  <2>2. /\ executions' \in [Owners -> Executions] /\ executions'[o].status = "STARTED"
        /\ \A q \in Owners \ {o} : executions'[q] = executions[q]
    BY <1>1, <1>5, ExecutionIs
  <2>3. /\ checkpoint[o[1]] = NoCheckpoint /\ executions[o].status = "NONE"
        /\ o[1] \in JobIds /\ o[2] \in AttemptNumbers /\ o = <<o[1], o[2]>>
    <3>1. o[1] \in JobIds /\ o[2] \in AttemptNumbers /\ o = <<o[1], o[2]>> /\ o[2] \in Nat
      BY OwnerIs
    <3>2. jobs[o[1]].attempts = o[2]
      BY <1>5 DEF FencedOwner, Fenced
    <3> QED BY <1>1, <1>2, <3>1, <3>2 DEF AttemptFits, Pc
  <2>4. AttemptFits(jobs[o[1]], checkpoint[o[1]], o[2], handler'[o], permits'[o], executions'[o])
    BY <1>1, <1>2, <2>1, <2>2, <2>3 DEF AttemptFits, Pc, Outcomes
  <2>5. JobsOK' /\ AttemptsOK'
    BY <1>2, <2>1, <2>2, <2>4, AttemptMoved
  <2>6. /\ run' \in [status : RunStatuses, searches : Nat]
        /\ run'.searches = IF OfRun(o[1]) THEN run.searches + 1 ELSE run.searches
    BY <1>1, <1>5 DEF TypeOK, SearchesCounted
  <2>7. TypeOK'
    BY <1>1, <1>2, <2>1, <2>2, <2>6 DEF TypeOK
  <2>8. CountOK'
    <3>1. CASE OfRun(o[1])
      <4>1. Counted' = Counted \cup {o} /\ o \notin Counted
        BY <1>2, <2>2, <2>3, <3>1 DEF Counted, OfRun
      <4>2. /\ IsFiniteSet(Counted \cup {o}) /\ Cardinality(Counted) \in Nat
            /\ Cardinality(Counted \cup {o}) = Cardinality(Counted) + 1
        BY <1>1, <4>1, FS_AddElement, FS_CardinalityType DEF CountOK
      <4>3. run.searches + 1 <= MaxSearchRequests
        BY <1>1, <1>5, <3>1 DEF OverReservation, TypeOK
      <4> QED BY <1>1, <2>6, <3>1, <4>1, <4>2, <4>3 DEF CountOK
    <3>2. CASE ~OfRun(o[1])
      BY <1>1, <1>2, <2>2, <2>6, <3>2, CountKept DEF OfRun
    <3> QED BY <3>1, <3>2
  <2>9. ASSUME NEW j \in JobIds PROVE WonOK(j)'
    <3>1. CASE j = o[1]
      <4>1. \A a \in AttemptNumbers : executions'[<<j, a>>].status # "SUCCEEDED"
        <5> SUFFICES ASSUME NEW a \in AttemptNumbers PROVE executions'[<<j, a>>].status # "SUCCEEDED"
          OBVIOUS
        <5>1. <<j, a>> \in Owners /\ executions[<<j, a>>].status # "SUCCEEDED"
          BY <1>1, <2>3, <3>1, OwnerIs DEF WonOK
        <5> QED BY <2>2, <5>1
      <4> QED BY <1>2, <2>3, <3>1, <4>1 DEF WonOK
    <3>2. CASE j # o[1]
      <4>1. \A a \in AttemptNumbers : executions'[<<j, a>>] = executions[<<j, a>>]
        BY <2>2, <2>3, <3>2, OwnerIs
      <4> QED BY <1>1, <1>2, <4>1, WonKept
    <3> QED BY <3>1, <3>2
  <2> QED BY <1>3, <2>5, <2>7, <2>8, <2>9 DEF SearchInv
<1> QED BY <1>4, <1>5 DEF reserveSourceSearchAttempt

\* The execution of a failed search is closed.
LEMMA FinishStep ==
  ASSUME SearchInv, NEW o \in Owners, FinishFailed(o)
  PROVE  SearchInv'
<1>1. /\ TypeOK /\ handler[o] \in Handlers /\ PermitsOK
      /\ AttemptFits(jobs[o[1]], checkpoint[o[1]], o[2], handler[o], permits[o], executions[o])
      /\ CountOK /\ \A j \in JobIds : WonOK(j)
  BY DEF SearchInv, TypeOK, AttemptsOK
<1>2. /\ UNCHANGED <<jobs, permits, window, run, found, manual, checkpoint, reviewed>>
      /\ Pc(o) = "finish" /\ Goto(o, "release")
  BY DEF FinishFailed, domain
<1>3. PICK status \in {"REJECTED", "FAILED"} : finishProviderExecution(o, status, NoResponse)
  BY DEF FinishFailed
<1>4. /\ executions' \in [Owners -> Executions] /\ executions'[o].status = status
      /\ \A q \in Owners \ {o} : executions'[q] = executions[q]
  BY <1>1, <1>3, ExecutionIs
<1>5. /\ handler' \in [Owners -> Handlers] /\ handler'[o].pc = "release"
      /\ handler'[o].outcome = handler[o].outcome
      /\ \A q \in Owners \ {o} : handler'[q] = handler[q]
  BY <1>1, <1>2, GotoIs DEF Places
<1>6. executions[o].status = "STARTED"
  BY <1>1, <1>2 DEF AttemptFits, Pc
<1>7. AttemptFits(jobs[o[1]], checkpoint[o[1]], o[2], handler'[o], permits'[o], executions'[o])
  BY <1>1, <1>2, <1>5 DEF AttemptFits, Pc, Outcomes
<1>8. JobsOK' /\ AttemptsOK'
  BY <1>2, <1>4, <1>5, <1>7, AttemptMoved
<1>9. TypeOK' /\ PermitsOK'
  BY <1>1, <1>2, <1>4, <1>5, PermitsLeft DEF TypeOK
<1>10. /\ \A q \in Owners :
            /\ executions'[q].status = "NONE" <=> executions[q].status = "NONE"
            /\ executions'[q].status = "SUCCEEDED" <=> executions[q].status = "SUCCEEDED"
  BY <1>4, <1>6
<1>11. CountOK'
  BY <1>1, <1>2, <1>10, CountKept DEF OfRun
<1>12. \A j \in JobIds : WonOK(j)'
  BY <1>1, <1>2, <1>10, WonKept, OwnerIs
<1> QED BY <1>8, <1>9, <1>11, <1>12 DEF SearchInv

\* What a commit that passes its checks does.
Commits(o) ==
  /\ FencedOwner(o) /\ Searchable(o) /\ ~OverBudget(o, handler[o].data)
  /\ finishProviderExecution(o, "SUCCEEDED", NoResponse)
  /\ found' = found \cup handler[o].data
  /\ reviewed' = (reviewed /\ handler[o].data \subseteq found)
  /\ checkpoint' = [checkpoint EXCEPT ![o[1]] = handler[o].data]
  /\ Leave(o, "release", "returned")
  /\ UNCHANGED <<run, manual>>

\* The commit of the current attempt of a job without a checkpoint.
LEMMA CommitPassesStep ==
  ASSUME SearchInv, NEW o \in Owners, Pc(o) = "commit", Commits(o), UNCHANGED <<jobs, permits, window>>
  PROVE  SearchInv'
<1> DEFINE j == o[1]
           hits == handler[o].data
<1>1. /\ TypeOK /\ handler[o] \in Handlers /\ PermitsOK /\ JobsOK
      /\ \A q \in Owners :
           AttemptFits(jobs[q[1]], checkpoint[q[1]], q[2], handler[q], permits[q], executions[q])
      /\ CountOK /\ \A k \in JobIds : WonOK(k)
  BY DEF SearchInv, TypeOK, AttemptsOK
<1>2. /\ j \in JobIds /\ o[2] \in AttemptNumbers /\ o = <<j, o[2]>> /\ o[2] \in Nat
      /\ jobs[j].attempts = o[2] /\ jobs[j].status = "RUNNING"
  BY OwnerIs DEF Commits, FencedOwner, Fenced
<1>3. /\ executions' \in [Owners -> Executions] /\ executions'[o].status = "SUCCEEDED"
      /\ \A q \in Owners \ {o} : executions'[q] = executions[q]
  BY <1>1, ExecutionIs DEF Commits
<1>4. /\ handler' \in [Owners -> Handlers] /\ handler'[o].pc = "release" /\ handler'[o].outcome \in Outcomes
      /\ \A q \in Owners \ {o} : handler'[q] = handler[q]
  BY <1>1, LeaveIs DEF Places, Outcomes, Commits
<1>5. hits \in SUBSET SourceIds /\ hits # NoCheckpoint
  BY <1>1 DEF Handlers, NoCheckpoint
<1>6. checkpoint[j] = NoCheckpoint /\ executions[o].status = "STARTED"
  BY <1>1, <1>2 DEF AttemptFits, Pc
<1>7. /\ found' = found \cup hits /\ reviewed' \in BOOLEAN /\ run' = run /\ manual' = manual
      /\ checkpoint' = [checkpoint EXCEPT ![j] = hits]
  BY DEF Commits
<1>8. TypeOK'
  BY <1>1, <1>2, <1>3, <1>4, <1>5, <1>7 DEF TypeOK
<1>9. PermitsOK' /\ JobsOK'
  BY <1>1, PermitsLeft DEF JobsOK
<1>10. CountOK'
  BY <1>1, <1>3, <1>6, <1>7, CountKept DEF OfRun
<1>11. checkpoint'[j] = hits /\ \A k \in JobIds \ {j} : checkpoint'[k] = checkpoint[k]
  BY <1>1, <1>2, <1>7 DEF TypeOK
<1> HIDE DEF j, hits
<1>12. ASSUME NEW q \in Owners
       PROVE  AttemptFits(jobs[q[1]], checkpoint'[q[1]], q[2], handler'[q], permits[q], executions'[q])
  <2>1. /\ AttemptFits(jobs[q[1]], checkpoint[q[1]], q[2], handler[q], permits[q], executions[q])
        /\ q[1] \in JobIds /\ q[2] \in Nat /\ q = <<q[1], q[2]>>
    BY <1>1, OwnerIs
  <2>2. CASE q = o
    BY <1>2, <1>3, <1>4, <2>1, <2>2 DEF AttemptFits, Outcomes, j
  <2>3. CASE q # o /\ q[1] = j
    <3>1. q[2] # o[2]
      BY <1>2, <2>1, <2>3
    <3>2. q[2] > jobs[j].attempts \/ q[2] < jobs[j].attempts
      BY <1>2, <2>1, <3>1
    <3> QED BY <1>3, <1>4, <2>1, <2>3, <3>2 DEF AttemptFits
  <2>4. CASE q # o /\ q[1] # j
    BY <1>3, <1>4, <1>11, <2>1, <2>4
  <2> QED BY <2>2, <2>3, <2>4
<1>13. AttemptsOK'
  BY <1>12 DEF AttemptsOK
<1>14. ASSUME NEW k \in JobIds PROVE WonOK(k)'
  <2>1. CASE k = j
    <3>1. \A b \in AttemptNumbers :
            /\ executions'[<<j, b>>].status = "SUCCEEDED" <=> b = o[2]
            /\ b > o[2] => executions'[<<j, b>>].status = "NONE"
      <4> SUFFICES ASSUME NEW b \in AttemptNumbers
                   PROVE  /\ executions'[<<j, b>>].status = "SUCCEEDED" <=> b = o[2]
                          /\ b > o[2] => executions'[<<j, b>>].status = "NONE"
        OBVIOUS
      <4>1. CASE b = o[2]
        BY <1>2, <1>3, <4>1
      <4>2. CASE b # o[2]
        <5>1. <<j, b>> \in Owners \ {o} /\ <<j, b>>[1] = j /\ <<j, b>>[2] = b
          BY <1>2, <4>2, OwnerIs
        <5>2. executions[<<j, b>>].status # "SUCCEEDED"
          BY <1>1, <1>2, <1>6 DEF WonOK
        <5>3. b > o[2] => executions[<<j, b>>].status = "NONE"
          BY <1>1, <1>2, <5>1 DEF AttemptFits
        <5> QED BY <1>3, <4>2, <5>1, <5>2, <5>3
      <4> QED BY <4>1, <4>2
    <3> QED BY <1>2, <1>5, <1>7, <1>11, <2>1, <3>1 DEF WonOK
  <2>2. CASE k # j
    <3>1. \A a \in AttemptNumbers : executions'[<<k, a>>] = executions[<<k, a>>]
      BY <1>2, <1>3, <2>2, OwnerIs
    <3> QED BY <1>1, <1>7, <1>11, <2>2, <3>1, WonKept
  <2> QED BY <2>1, <2>2
<1> QED BY <1>8, <1>9, <1>10, <1>13, <1>14 DEF SearchInv

\* commitSourceSearchResults.
LEMMA CommitStep ==
  ASSUME SearchInv, NEW o \in Owners, commitSourceSearchResults(o)
  PROVE  SearchInv'
<1>1. /\ TypeOK /\ handler[o] \in Handlers /\ PermitsOK
      /\ AttemptFits(jobs[o[1]], checkpoint[o[1]], o[2], handler[o], permits[o], executions[o])
      /\ CountOK /\ \A j \in JobIds : WonOK(j)
  BY DEF SearchInv, TypeOK, AttemptsOK
<1>2. UNCHANGED <<jobs, permits, window>> /\ Pc(o) = "commit"
  BY DEF commitSourceSearchResults
<1>3. CASE /\ Leave(o, "finish", "failFatal") \/ Leave(o, "finish", "failRetryable")
           /\ run' = run \/ blockRunForSearchBudget
           /\ UNCHANGED <<executions, found, manual, checkpoint, reviewed>>
  <2>1. /\ handler' \in [Owners -> Handlers] /\ handler'[o].pc = "finish" /\ handler'[o].outcome \in Outcomes
        /\ \A q \in Owners \ {o} : handler'[q] = handler[q]
    BY <1>1, <1>3, LeaveIs DEF Places, Outcomes
  <2>2. AttemptFits(jobs[o[1]], checkpoint[o[1]], o[2], handler'[o], permits'[o], executions'[o])
    BY <1>1, <1>2, <1>3, <2>1 DEF AttemptFits, Pc, Outcomes
  <2>3. run' \in [status : RunStatuses, searches : Nat] /\ run'.searches = run.searches
    BY <1>1, <1>3, BlockedRun DEF TypeOK
  <2>4. JobsOK' /\ AttemptsOK'
    BY <1>2, <1>3, <2>1, <2>2, AttemptMoved
  <2>5. TypeOK' /\ PermitsOK'
    BY <1>1, <1>2, <1>3, <2>1, <2>3, PermitsLeft DEF TypeOK
  <2>6. CountOK'
    BY <1>1, <1>2, <1>3, <2>3, CountKept DEF OfRun
  <2>7. \A j \in JobIds : WonOK(j)'
    BY <1>1, <1>3 DEF WonOK
  <2> QED BY <2>4, <2>5, <2>6, <2>7 DEF SearchInv
<1>4. CASE Commits(o)
  BY <1>2, <1>4, CommitPassesStep
<1> QED BY <1>2, <1>3, <1>4 DEF commitSourceSearchResults, Commits, domain

-----------------------------------------------------------------------------
(* The queue, the run and the operator.                                    *)

\* The row of a job moves on in its attempt; only a submission gives it an input.
JobMoves(j) ==
  /\ jobs'[j].attempts = jobs[j].attempts
  /\ jobs'[j].input = jobs[j].input \/ jobs[j].status = "NONE"
  /\ jobs'[j].status = "NONE" => jobs'[j] = jobs[j]

\* Steps of the queue that start no attempt, and of the run and the operator.
LEMMA QueueStep ==
  ASSUME SearchInv, jobs' \in [JobIds -> JobRows], \A j \in JobIds : JobMoves(j),
         UNCHANGED <<permits, executions, found, checkpoint>>,
         window' \in Nat, manual' \in Nat, reviewed' \in BOOLEAN,
         handler' \in [Owners -> Handlers],
         \A o \in Owners : handler'[o] = handler[o] \/ (handler[o].pc # "none" /\ handler'[o].pc = "done"),
         run' \in [status : RunStatuses, searches : Nat], run'.searches = run.searches
  PROVE  SearchInv'
<1>1. /\ TypeOK /\ PermitsOK /\ JobsOK
      /\ \A q \in Owners :
           AttemptFits(jobs[q[1]], checkpoint[q[1]], q[2], handler[q], permits[q], executions[q])
      /\ CountOK /\ \A k \in JobIds : WonOK(k)
  BY DEF SearchInv, AttemptsOK
<1>2. TypeOK'
  BY <1>1 DEF TypeOK
<1>3. JobsOK'
  BY <1>1 DEF JobsOK, JobMoves
<1>4. AttemptsOK'
  <2> SUFFICES ASSUME NEW q \in Owners
               PROVE  AttemptFits(jobs'[q[1]], checkpoint[q[1]], q[2], handler'[q], permits[q], executions[q])
    BY DEF AttemptsOK
  <2>1. AttemptFits(jobs[q[1]], checkpoint[q[1]], q[2], handler[q], permits[q], executions[q])
    BY <1>1
  <2>2. jobs'[q[1]].attempts = jobs[q[1]].attempts
    BY OwnerIs DEF JobMoves
  <2> QED BY <2>1, <2>2 DEF AttemptFits, Outcomes
<1>5. PermitsOK'
  BY <1>1, PermitsLeft
<1>6. CountOK'
  <2>1. ASSUME NEW q \in Owners
        PROVE  OfRun(q[1])' /\ executions'[q].status # "NONE" <=> OfRun(q[1]) /\ executions[q].status # "NONE"
    <3>1. q[1] \in JobIds /\ q[2] \in Nat /\ q[2] > 0 /\ JobMoves(q[1])
      BY OwnerIs
    <3>2. CASE jobs[q[1]].status = "NONE"
      <4>1. executions[q].status = "NONE"
        BY <1>1, <3>1, <3>2 DEF JobsOK, AttemptFits
      <4> QED BY <4>1
    <3>3. CASE jobs[q[1]].status # "NONE"
      BY <3>1, <3>3 DEF JobMoves, OfRun
    <3> QED BY <3>2, <3>3
  <2> QED BY <1>1, <2>1, CountKept
<1>7. \A j \in JobIds : WonOK(j)'
  BY <1>1 DEF WonOK
<1> QED BY <1>2, <1>3, <1>4, <1>5, <1>6, <1>7 DEF SearchInv

\* Rows of jobs of which only the status changes, or which may be retried.
LEMMA JobRowMoved ==
  ASSUME TypeOK, NEW j \in JobIds, jobs[j].status # "NONE",
         NEW status \in JobQueueStatuses \ {"NONE"},
         \/ jobs' = [jobs EXCEPT ![j].status = status]
         \/ /\ jobs' = [jobs EXCEPT ![j].status = status, ![j].max = jobs[j].attempts + 1]
            /\ jobs[j].attempts < AttemptCap
  PROVE  jobs' \in [JobIds -> JobRows] /\ \A k \in JobIds : JobMoves(k)
<1>1. jobs \in [JobIds -> JobRows] /\ jobs[j] \in JobRows
  BY DEF TypeOK
<1>2. CASE jobs' = [jobs EXCEPT ![j].status = status]
  <2> DEFINE row == [jobs[j] EXCEPT !.status = status]
  <2>1. row \in JobRows /\ row.attempts = jobs[j].attempts /\ row.input = jobs[j].input /\ row.status = status
    BY <1>1 DEF JobRows
  <2>2. jobs' = [jobs EXCEPT ![j] = row]
    BY <1>1, <1>2
  <2> HIDE DEF row
  <2> QED BY <1>1, <2>1, <2>2 DEF JobMoves
<1>3. CASE /\ jobs' = [jobs EXCEPT ![j].status = status, ![j].max = jobs[j].attempts + 1]
           /\ jobs[j].attempts < AttemptCap
  <2> DEFINE max == jobs[j].attempts + 1
             row == [jobs[j] EXCEPT !.status = status, !.max = max]
  <2>1. max \in 0..AttemptCap
    BY <1>1, <1>3 DEF JobRows
  <2>2. jobs' = [jobs EXCEPT ![j] = row]
    BY <1>1, <1>3
  <2> HIDE DEF max
  <2>3. row \in JobRows /\ row.attempts = jobs[j].attempts /\ row.input = jobs[j].input /\ row.status = status
    BY <1>1, <2>1 DEF JobRows
  <2> HIDE DEF row
  <2> QED BY <1>1, <2>2, <2>3 DEF JobMoves
<1> QED BY <1>2, <1>3

\* A run that follows its jobs keeps its counter.
LEMMA RunFollowed ==
  ASSUME TypeOK, NEW j, RunFollows(j)
  PROVE  run' \in [status : RunStatuses, searches : Nat] /\ run'.searches = run.searches
<1>1. run \in [status : RunStatuses, searches : Nat]
  BY DEF TypeOK
<1>2. CASE run' = run
  BY <1>1, <1>2
<1>3. ASSUME NEW status \in RunStatuses, run' = [run EXCEPT !.status = status]
      PROVE  run' \in [status : RunStatuses, searches : Nat] /\ run'.searches = run.searches
  BY <1>1, <1>3
<1>4. run' = run \/ \E status \in {"CANCELLED", "CANCELLING", run.status} : run' = [run EXCEPT !.status = status]
  BY DEF RunFollows, reconcileRun
<1>5. {"CANCELLED", "CANCELLING", run.status} \subseteq RunStatuses
  BY <1>1 DEF RunStatuses
<1> QED BY <1>2, <1>3, <1>4, <1>5

\* submitSourceSearchJob, and what interrupts a job.
LEMMA JobSteps ==
  ASSUME SearchInv, NEW j \in JobIds, submitSourceSearchJob(j) \/ JobInterrupted(j)
  PROVE  SearchInv'
<1>1. /\ TypeOK /\ window \in Nat /\ manual \in Nat /\ reviewed \in BOOLEAN
      /\ handler \in [Owners -> Handlers] /\ jobs \in [JobIds -> JobRows] /\ jobs[j] \in JobRows
      /\ run \in [status : RunStatuses, searches : Nat] /\ JobsOK
  BY DEF SearchInv, TypeOK
<1>2. UNCHANGED <<permits, window, executions, handler, found, manual, checkpoint, reviewed>>
  BY DEF submitSourceSearchJob, JobInterrupted, access, domain
<1>3. /\ jobs' \in [JobIds -> JobRows] /\ \A k \in JobIds : JobMoves(k)
      /\ run' \in [status : RunStatuses, searches : Nat] /\ run'.searches = run.searches
  <2>1. CASE submitSourceSearchJob(j)
    <3>1. PICK input \in {NoInput, ForRun} : jobs' = [jobs EXCEPT ![j] = QueuedJob(input)]
      BY <2>1 DEF submitSourceSearchJob
    <3>2. jobs[j].status = "NONE" /\ run' = run
      BY <2>1 DEF submitSourceSearchJob, domain
    <3>3. /\ QueuedJob(input) \in JobRows /\ QueuedJob(input).status = "QUEUED"
          /\ QueuedJob(input).attempts = 0
      BY DEF QueuedJob, JobRows, JobQueueStatuses
    <3>4. jobs[j].attempts = 0
      BY <1>1, <3>2 DEF JobsOK
    <3> QED BY <1>1, <3>1, <3>2, <3>3, <3>4 DEF JobMoves
  <2>2. CASE JobInterrupted(j)
    <3>1. RunFollows(j)
      BY <2>2 DEF JobInterrupted
    <3>2. /\ jobs[j].status # "NONE"
          /\ \E status \in JobQueueStatuses \ {"NONE"} :
               \/ jobs' = [jobs EXCEPT ![j].status = status]
               \/ /\ jobs' = [jobs EXCEPT ![j].status = status, ![j].max = jobs[j].attempts + 1]
                  /\ jobs[j].attempts < AttemptCap
      <4>1. CASE LeaseExpires(j) \/ releaseJobLease(j)
        BY <4>1 DEF LeaseExpires, releaseJobLease, AttemptOver, JobQueueStatuses
      <4>2. CASE requestJobCancellation(j)
        BY <4>2 DEF requestJobCancellation, Cancelled, JobQueueStatuses
      <4>3. CASE manualRetryJob(j)
        BY <4>3 DEF manualRetryJob, JobQueueStatuses
      <4> QED BY <2>2, <4>1, <4>2, <4>3 DEF JobInterrupted
    <3> QED BY <1>1, <3>1, <3>2, JobRowMoved, RunFollowed
  <2> QED BY <2>1, <2>2
<1> QED BY <1>1, <1>2, <1>3, QueueStep

\* A handler ends and its job with it.
LEMMA SettleStep ==
  ASSUME SearchInv, NEW o \in Owners, SettleHandler(o)
  PROVE  SearchInv'
<1> DEFINE j == o[1]
<1>1. /\ TypeOK /\ window \in Nat /\ manual \in Nat /\ reviewed \in BOOLEAN
      /\ jobs \in [JobIds -> JobRows]
      /\ AttemptFits(jobs[o[1]], checkpoint[o[1]], o[2], handler[o], permits[o], executions[o])
  BY DEF SearchInv, TypeOK, AttemptsOK
<1>2. /\ UNCHANGED <<permits, window, executions, found, manual, checkpoint, reviewed>>
      /\ Pc(o) \in Outcomes /\ RunFollows(j) /\ Settle(j, o[2], Pc(o)) /\ EndHandler(o)
  BY DEF SettleHandler, access
<1>3. j \in JobIds /\ o[2] \in AttemptNumbers
  BY OwnerIs
<1>4. /\ handler' \in [Owners -> Handlers] /\ handler'[o].pc = "done"
      /\ \A q \in Owners \ {o} : handler'[q] = handler[q]
  BY <1>1, <1>2, EndIs
<1>5. run' \in [status : RunStatuses, searches : Nat] /\ run'.searches = run.searches
  BY <1>1, <1>2, RunFollowed
<1> HIDE DEF j
<1>6. /\ jobs' \in [JobIds -> JobRows] /\ \A k \in JobIds : JobMoves(k)
  <2>1. CASE jobs' = jobs
    BY <1>1, <2>1 DEF JobMoves
  <2>2. CASE /\ jobs[j].status \in {"CANCELLATION_REQUESTED", "RUNNING"}
             /\ \E status \in JobQueueStatuses \ {"NONE"} : jobs' = [jobs EXCEPT ![j].status = status]
    BY <1>1, <1>3, <2>2, JobRowMoved
  <2>3. ASSUME jobs[j].attempts = o[2], jobs[j].status \in {"CANCELLATION_REQUESTED", "RUNNING"}
        PROVE  \E status \in JobQueueStatuses \ {"NONE"} : jobs' = [jobs EXCEPT ![j].status = status]
    <3>1. CASE jobs[j].status = "CANCELLATION_REQUESTED"
      <4>1. jobs' = [jobs EXCEPT ![j].status = "CANCELLED"]
        BY <1>2, <2>3, <3>1 DEF Settle
      <4>2. "CANCELLED" \in JobQueueStatuses \ {"NONE"}
        BY DEF JobQueueStatuses
      <4> QED BY <4>1, <4>2
    <3>2. CASE jobs[j].status = "RUNNING"
      <4> DEFINE status == CASE Pc(o) = "returned" -> "SUCCEEDED"
                             [] Pc(o) = "failFatal" -> "FAILED"
                             [] Pc(o) = "failRetryable" -> AttemptOver(j)
      <4>1. jobs' = [jobs EXCEPT ![j].status = status]
        BY <1>2, <2>3, <3>2 DEF Settle
      <4>2. status \in JobQueueStatuses \ {"NONE"}
        BY <1>2 DEF JobQueueStatuses, AttemptOver, Outcomes
      <4> QED BY <4>1, <4>2
    <3> QED BY <2>3, <3>1, <3>2
  <2>4. \/ jobs' = jobs
        \/ jobs[j].attempts = o[2] /\ jobs[j].status \in {"CANCELLATION_REQUESTED", "RUNNING"}
    BY <1>2 DEF Settle
  <2> QED BY <2>1, <2>2, <2>3, <2>4
<1>7. \A q \in Owners : handler'[q] = handler[q] \/ (handler[q].pc # "none" /\ handler'[q].pc = "done")
  BY <1>2, <1>4 DEF Pc, Outcomes
<1> QED BY <1>1, <1>2, <1>4, <1>5, <1>6, <1>7, QueueStep

\* The run moves or is cancelled, a source is added, the project reviewed, or
\* a window ends.
LEMMA AroundSteps ==
  ASSUME SearchInv,
         RunMoves \/ CancelRun \/ addSource \/ Review \/ (WindowExpires /\ UNCHANGED domain)
  PROVE  SearchInv'
<1>1. /\ TypeOK /\ window \in Nat /\ manual \in Nat /\ reviewed \in BOOLEAN
      /\ handler \in [Owners -> Handlers] /\ jobs \in [JobIds -> JobRows]
      /\ run \in [status : RunStatuses, searches : Nat]
  BY DEF SearchInv, TypeOK
<1>2. UNCHANGED <<permits, executions, handler, found, checkpoint>>
  BY DEF RunMoves, CancelRun, addSource, Review, WindowExpires, access, domain
<1>3. window' \in Nat /\ manual' \in Nat /\ reviewed' \in BOOLEAN
  <2>1. window' \in {window, 0} /\ manual' \in {manual, manual + 1}
    BY DEF RunMoves, CancelRun, addSource, Review, WindowExpires, access, domain
  <2>2. reviewed' = reviewed \/ reviewed' = TRUE \/ reviewed' = FALSE
    BY DEF RunMoves, CancelRun, addSource, Review, WindowExpires, access, domain
  <2>3. reviewed' \in BOOLEAN
    BY <1>1, <2>2
  <2>4. window' \in Nat /\ manual' \in Nat
    BY <1>1, <2>1
  <2> QED BY <2>3, <2>4
<1>4. jobs' \in [JobIds -> JobRows] /\ \A j \in JobIds : JobMoves(j)
  <2>1. CASE CancelRun
    <3>1. ASSUME NEW j \in JobIds PROVE jobs'[j] \in JobRows /\ JobMoves(j)
      <4>1. /\ jobs[j] \in JobRows
            /\ \/ jobs'[j] = jobs[j]
               \/ jobs[j].status # "NONE" /\ jobs'[j] = [jobs[j] EXCEPT !.status = Cancelled(j)]
        BY <1>1, <2>1 DEF CancelRun
      <4>2. Cancelled(j) \in JobQueueStatuses \ {"NONE"}
        BY DEF Cancelled, JobQueueStatuses
      <4> QED BY <4>1, <4>2 DEF JobRows, JobMoves
    <3>2. jobs' = [j \in JobIds |-> jobs'[j]]
      BY <2>1 DEF CancelRun
    <3> QED BY <3>1, <3>2
  <2>2. CASE jobs' = jobs
    BY <1>1, <2>2 DEF JobMoves
  <2> QED BY <2>1, <2>2 DEF RunMoves, addSource, Review, WindowExpires, access, domain
<1>5. run' \in [status : RunStatuses, searches : Nat] /\ run'.searches = run.searches
  <2>1. CASE \E to \in RunStatuses : run' = [run EXCEPT !.status = to]
    BY <1>1, <2>1
  <2>2. CASE run' = run
    BY <1>1, <2>2
  <2>3. CASE CancelRun
    <3>1. \E to \in {"CANCELLING", "CANCELLED"} : run' = [run EXCEPT !.status = to]
      BY <2>3 DEF CancelRun
    <3>2. {"CANCELLING", "CANCELLED"} \subseteq RunStatuses
      BY DEF RunStatuses
    <3> QED BY <2>1, <3>1, <3>2
  <2> QED BY <2>1, <2>2, <2>3 DEF RunMoves, addSource, Review, WindowExpires, access, domain
<1> QED BY <1>1, <1>2, <1>3, <1>4, <1>5, QueueStep

\* A new attempt begins without a permit and an execution, and reuses the
\* checkpoint if there is one.
LEMMA StartStep ==
  ASSUME SearchInv, NEW j \in JobIds, StartSearch(j)
  PROVE  SearchInv'
<1> DEFINE a == jobs[j].attempts + 1
           pc == IF checkpoint[j] = NoCheckpoint THEN "permit" ELSE "reuse"
           o == <<j, a>>
           h == [handler[o] EXCEPT !.pc = pc]
           row == [jobs[j] EXCEPT !.status = "RUNNING", !.attempts = a]
<1>1. /\ TypeOK /\ PermitsOK /\ JobsOK
      /\ \A q \in Owners :
           AttemptFits(jobs[q[1]], checkpoint[q[1]], q[2], handler[q], permits[q], executions[q])
      /\ CountOK /\ \A k \in JobIds : WonOK(k)
      /\ jobs \in [JobIds -> JobRows] /\ jobs[j] \in JobRows /\ handler \in [Owners -> Handlers]
  BY DEF SearchInv, AttemptsOK, TypeOK
<1>2. /\ jobs[j].status = "QUEUED" /\ jobs[j].attempts < jobs[j].max
      /\ jobs' = [jobs EXCEPT ![j].status = "RUNNING", ![j].attempts = @ + 1]
      /\ handler' = [handler EXCEPT ![o].pc = pc]
      /\ UNCHANGED <<permits, window, executions, run, found, manual, checkpoint, reviewed>>
  BY DEF StartSearch, StartHandler, StartAttempt, domain
<1>3. /\ a \in AttemptNumbers /\ a \in 0..AttemptCap /\ a > jobs[j].attempts
      /\ jobs[j].attempts \in Nat
  BY <1>1, <1>2 DEF JobRows, AttemptNumbers
<1>4. o \in Owners /\ o[1] = j /\ o[2] = a
  BY <1>3, OwnerIs
<1>5. row \in JobRows /\ row.status = "RUNNING" /\ row.attempts = a /\ row.input = jobs[j].input
  BY <1>1, <1>3 DEF JobRows, JobQueueStatuses
<1>6. jobs' = [jobs EXCEPT ![j] = row]
  BY <1>1, <1>2
<1>7. h \in Handlers /\ h.pc = pc /\ pc \in {"permit", "reuse"} /\ (pc = "permit" => checkpoint[j] = NoCheckpoint)
  BY <1>1, <1>4 DEF Handlers, Places
<1>8. handler' = [handler EXCEPT ![o] = h]
  BY <1>1, <1>2, <1>4
<1>9. handler[o].pc = "none" /\ AttemptFits(jobs[j], checkpoint[j], a, handler[o], permits[o], executions[o])
  BY <1>1, <1>3, <1>4 DEF AttemptFits
<1> HIDE DEF a, pc, h, row, o
<1>10. /\ jobs' \in [JobIds -> JobRows] /\ jobs'[j] = row
       /\ \A k \in JobIds \ {j} : jobs'[k] = jobs[k]
       /\ handler' \in [Owners -> Handlers] /\ handler'[o] = h
       /\ \A q \in Owners \ {o} : handler'[q] = handler[q]
  BY <1>1, <1>4, <1>5, <1>6, <1>7, <1>8
<1>11. TypeOK'
  BY <1>1, <1>2, <1>10 DEF TypeOK
<1>12. JobsOK'
  BY <1>1, <1>5, <1>10 DEF JobsOK
<1>13. AttemptsOK'
  <2> SUFFICES ASSUME NEW q \in Owners
               PROVE  AttemptFits(jobs'[q[1]], checkpoint[q[1]], q[2], handler'[q], permits[q], executions[q])
    BY <1>2 DEF AttemptsOK
  <2>1. AttemptFits(jobs[q[1]], checkpoint[q[1]], q[2], handler[q], permits[q], executions[q])
        /\ q[1] \in JobIds /\ q[2] \in Nat
    BY <1>1, OwnerIs
  <2>2. CASE q = o
    <3>1. ~(a > a)
      BY <1>3
    <3>2. AttemptFits(row, checkpoint[j], a, h, permits[o], executions[o])
      BY <1>5, <1>7, <1>9, <3>1 DEF AttemptFits, Outcomes
    <3> QED BY <1>4, <1>10, <2>2, <3>2
  <2>3. CASE q # o /\ q[1] = j
    <3>1. /\ q[2] > a => q[2] > jobs[j].attempts
          /\ q[2] < jobs[j].attempts => q[2] < a
      BY <1>3, <2>1 DEF AttemptNumbers
    <3> QED BY <1>5, <1>10, <2>1, <2>3, <3>1 DEF AttemptFits
  <2>4. CASE q[1] # j
    BY <1>4, <1>10, <2>1, <2>4
  <2> QED BY <2>2, <2>3, <2>4
<1>14. PermitsOK'
  BY <1>1, <1>2, PermitsLeft
<1>15. CountOK'
  <2>1. \A q \in Owners : OfRun(q[1])' <=> OfRun(q[1])
    BY <1>5, <1>10, OwnerIs DEF OfRun
  <2> QED BY <1>1, <1>2, <2>1, CountKept
<1>16. \A k \in JobIds : WonOK(k)'
  BY <1>1, <1>2 DEF WonOK
<1> QED BY <1>11, <1>12, <1>13, <1>14, <1>15, <1>16 DEF SearchInv

-----------------------------------------------------------------------------
(* Every step.                                                             *)

\* A project without searches.
LEMMA InitialSearch == Init => SearchInv
<1> SUFFICES ASSUME Init PROVE SearchInv
  OBVIOUS
<1>1. /\ permits = [o \in Owners |-> "none"] /\ window = 0
      /\ executions = [o \in Owners |-> NoExecution]
      /\ handler = [o \in Owners |-> NoHandler]
      /\ jobs = [j \in JobIds |-> NoJob]
      /\ run = [status |-> "RUNNING", searches |-> 0]
      /\ found = {} /\ manual = 0 /\ reviewed = TRUE
      /\ checkpoint = [j \in JobIds |-> NoCheckpoint]
  BY DEF Init, AccessInit
<1>2. NoJob \in JobRows /\ NoJob.attempts = 0 /\ NoJob.input = NoInput
  BY DEF NoJob, JobRows, JobQueueStatuses
<1>3. NoExecution \in Executions /\ NoExecution.status = "NONE"
  BY DEF NoExecution, Executions
<1>4. run \in [status : RunStatuses, searches : Nat]
  BY <1>1 DEF RunStatuses
<1>5. TypeOK
  <2>1. /\ jobs \in [JobIds -> JobRows] /\ executions \in [Owners -> Executions]
        /\ handler \in [Owners -> Handlers]
    BY <1>1, <1>2, <1>3, NoHandlerIs
  <2>2. permits \in [Owners -> Permits]
    BY <1>1 DEF Permits
  <2> QED BY <1>1, <1>4, <2>1, <2>2 DEF TypeOK
<1>6. JobsOK
  BY <1>1, <1>2 DEF JobsOK
<1>7. AttemptsOK
  BY <1>1, <1>3, NoHandlerIs, OwnerIs DEF AttemptsOK, AttemptFits, Outcomes
<1>8. PermitsOK
  <2>1. InFlight = {}
    BY <1>1 DEF InFlight
  <2> QED BY <2>1, FS_EmptySet DEF PermitsOK
<1>9. CountOK
  <2>1. Counted = {}
    BY <1>1, <1>3 DEF Counted
  <2> QED BY <1>1, <2>1, FS_EmptySet DEF CountOK
<1>10. \A j \in JobIds : WonOK(j)
  <2> SUFFICES ASSUME NEW j \in JobIds PROVE WonOK(j)
    OBVIOUS
  <2>1. checkpoint[j] = NoCheckpoint
    BY <1>1
  <2>2. \A a \in AttemptNumbers : executions[<<j, a>>].status # "SUCCEEDED"
    BY <1>1, <1>3, OwnerIs
  <2> QED BY <2>1, <2>2 DEF WonOK
<1> QED BY <1>5, <1>6, <1>7, <1>8, <1>9, <1>10 DEF SearchInv

\* Every step keeps the invariant.
LEMMA SearchStep ==
  ASSUME SearchInv, [Next]_vars
  PROVE  SearchInv'
<1>1. CASE Step
  <2>1. ASSUME NEW j \in JobIds, submitSourceSearchJob(j) \/ StartSearch(j) PROVE SearchInv'
    BY <2>1, JobSteps, StartStep
  <2>2. ASSUME NEW o \in Owners,
               reuseCommittedSourceSearchResults(o) \/ SearchReturns(o) \/ AcquirePermit(o) \/ ReleasePermit(o)
        PROVE  SearchInv'
    BY <2>2, HandlerMoves, PermitSteps
  <2>3. ASSUME NEW o \in Owners,
               reserveSourceSearchAttempt(o) \/ commitSourceSearchResults(o) \/ FinishFailed(o) \/ SettleHandler(o)
        PROVE  SearchInv'
    BY <2>3, ReserveStep, CommitStep, FinishStep, SettleStep
  <2>4. CASE addSource
    BY <2>4, AroundSteps
  <2> QED BY <1>1, <2>1, <2>2, <2>3, <2>4 DEF Step
<1>2. CASE Fault
  <2>1. ASSUME NEW j \in JobIds, JobInterrupted(j) PROVE SearchInv'
    BY <2>1, JobSteps
  <2>2. ASSUME NEW o \in Owners,
               SearchFails(o) \/ FinishSwallowed(o) \/ (CrashHandler(o) /\ UNCHANGED domain)
        PROVE  SearchInv'
    BY <2>2, HandlerMoves
  <2>3. ASSUME NEW o \in Owners, PermitExpires(o) /\ UNCHANGED domain PROVE SearchInv'
    BY <2>3, PermitSteps
  <2>4. CASE (WindowExpires /\ UNCHANGED domain) \/ RunMoves \/ CancelRun \/ Review
    BY <2>4, AroundSteps
  <2> QED BY <1>2, <2>1, <2>2, <2>3, <2>4 DEF Fault
<1>3. CASE UNCHANGED vars
  <2>1. UNCHANGED <<jobs, permits, window, executions, handler, run, found, manual, checkpoint, reviewed>>
    BY <1>3 DEF vars
  <2>2. TypeOK' /\ JobsOK'
    BY <2>1 DEF SearchInv, TypeOK, JobsOK
  <2>3. AttemptsOK' /\ PermitsOK' /\ CountOK'
    BY <2>1 DEF SearchInv, AttemptsOK, PermitsOK, InFlight, CountOK, Counted, OfRun
  <2>4. \A j \in JobIds : WonOK(j)'
    BY <2>1 DEF SearchInv, WonOK
  <2> QED BY <2>2, <2>3, <2>4 DEF SearchInv
<1> QED BY <1>1, <1>2, <1>3 DEF Next

-----------------------------------------------------------------------------
(* The theorems.                                                           *)

\* The invariant of attempts, permits, counts and checkpoints.
THEOREM SearchInvariant == Spec => []SearchInv
<1>1. SearchInv /\ [Next]_vars => SearchInv'
  BY SearchStep
<1> QED BY InitialSearch, <1>1, PTL DEF Spec

\* Calls in progress hold a permit or have outlived it, so there are no more of
\* the first than the limit, and no handler ends with its permit held.
THEOREM PermitDisciplineHolds == Spec => []PermitDiscipline
<1>1. SearchInv => PermitDiscipline
  <2> SUFFICES ASSUME SearchInv PROVE PermitDiscipline
    OBVIOUS
  <2>1. \A o \in Owners : /\ Pc(o) = "call" => permits[o] \in {"held", "expired"}
                          /\ Pc(o) \in Outcomes => permits[o] # "held"
    BY DEF SearchInv, AttemptsOK, AttemptFits, Pc
  <2> DEFINE calls == {o \in Owners : Pc(o) = "call" /\ permits[o] # "expired"}
  <2>2. calls \subseteq InFlight
    BY <2>1 DEF InFlight
  <2>3. IsFiniteSet(InFlight) /\ Cardinality(InFlight) <= ConcurrencyLimit
    BY DEF SearchInv, PermitsOK
  <2> HIDE DEF calls
  <2>4. Cardinality(calls) <= Cardinality(InFlight) /\ Cardinality(calls) \in Nat /\ Cardinality(InFlight) \in Nat
    BY <2>2, <2>3, FS_Subset, FS_CardinalityType
  <2>5. Cardinality(calls) <= ConcurrencyLimit
    BY <2>3, <2>4
  <2> QED BY <2>1, <2>5 DEF PermitDiscipline, calls
<1> QED BY <1>1, SearchInvariant, PTL

\* The run's counter is the number of its searches and within its budget.
THEOREM SearchesWithinBudgetHolds == Spec => []SearchesWithinBudget
<1>1. SearchInv => SearchesWithinBudget
  BY DEF SearchInv, CountOK, Counted, SearchesWithinBudget
<1> QED BY <1>1, SearchInvariant, PTL

\* A committed search is never repeated and its checkpoint stays valid.
THEOREM CommittedOnceHolds == Spec => []CommittedOnce
<1>1. SearchInv => CommittedOnce
  <2> SUFFICES ASSUME SearchInv, NEW j \in JobIds,
                      NEW won, won = {a \in AttemptNumbers : executions[<<j, a>>].status = "SUCCEEDED"}
               PROVE  /\ Cardinality(won) <= 1
                      /\ won # {} <=> checkpoint[j] # NoCheckpoint
                      /\ checkpoint[j] # NoCheckpoint =>
                           /\ CheckpointValid(j)
                           /\ \A a \in won, b \in AttemptNumbers :
                                b > a => executions[<<j, b>>].status = "NONE"
    BY DEF CommittedOnce
  <2>1. WonOK(j)
    BY DEF SearchInv
  <2>2. CASE checkpoint[j] = NoCheckpoint
    <3>1. won = {}
      BY <2>1, <2>2 DEF WonOK
    <3>2. Cardinality(won) = 0
      BY <3>1, FS_EmptySet
    <3>3. Cardinality(won) <= 1
      BY <3>2
    <3>4. won # {} <=> checkpoint[j] # NoCheckpoint
      BY <2>2, <3>1
    <3> QED BY <2>2, <3>3, <3>4
  <2>3. CASE checkpoint[j] # NoCheckpoint
    <3>1. PICK a \in AttemptNumbers : \A b \in AttemptNumbers :
            /\ executions[<<j, b>>].status = "SUCCEEDED" <=> b = a
            /\ b > a => executions[<<j, b>>].status = "NONE"
      BY <2>1, <2>3 DEF WonOK
    <3>2. won = {a}
      BY <3>1
    <3>3. Cardinality(won) = 1
      BY <3>2, FS_Singleton
    <3>4. CheckpointValid(j)
      BY <2>1, <2>3, <3>1 DEF WonOK, CheckpointValid
    <3> QED BY <2>3, <3>1, <3>2, <3>3, <3>4
  <2> QED BY <2>2, <2>3
<1> QED BY <1>1, SearchInvariant, PTL

\* A search changes the project as the current attempt of its job only, for a
\* run that goes on, within the budget, and voids the review.
THEOREM SearchCommitsSafelyHolds == Spec => SearchCommitsSafely
<1>1. SearchInv /\ [Next]_vars =>
        [ found' # found =>
            \E o \in Owners :
              /\ Pc(o) = "commit" /\ FencedOwner(o) /\ ~reviewed'
              /\ OfRun(o[1]) =>
                   run.status \notin Stopped /\ Cardinality(found') + manual <= MaxSources ]_vars
  <2> SUFFICES ASSUME SearchInv, Next, found' # found
               PROVE  \E o \in Owners :
                        /\ Pc(o) = "commit" /\ FencedOwner(o) /\ ~reviewed'
                        /\ OfRun(o[1]) =>
                             run.status \notin Stopped /\ Cardinality(found') + manual <= MaxSources
    OBVIOUS
  <2>1. PICK o \in Owners : commitSourceSearchResults(o)
    <3>1. CASE Step
      BY <3>1 DEF Step, submitSourceSearchJob, StartSearch, reuseCommittedSourceSearchResults, AcquirePermit,
                  reserveSourceSearchAttempt, SearchReturns, FinishFailed, ReleasePermit, SettleHandler,
                  addSource, domain
    <3>2. CASE Fault
      BY <3>2 DEF Fault, JobInterrupted, SearchFails, FinishSwallowed, RunMoves, CancelRun, Review, domain
    <3> QED BY <3>1, <3>2 DEF Next
  <2> DEFINE hits == handler[o].data
  <2>2. Pc(o) = "commit" /\ Commits(o)
    BY <2>1 DEF commitSourceSearchResults, Commits, domain
  <2>3. /\ hits \subseteq SourceIds /\ found \subseteq SourceIds /\ manual \in Nat
        /\ found' = found \cup hits /\ ~(hits \subseteq found)
    <3>1. handler[o] \in Handlers /\ found \subseteq SourceIds /\ manual \in Nat
      BY DEF SearchInv, TypeOK
    <3> QED BY <2>2, <3>1 DEF Handlers, Commits
  <2>4. ~reviewed' /\ FencedOwner(o) /\ Searchable(o) /\ ~OverBudget(o, hits)
    BY <2>2, <2>3 DEF Commits
  <2> HIDE DEF hits
  <2>5. Cardinality(found') = Cardinality(found) + Cardinality(hits \ found)
    <3>1. /\ IsFiniteSet(found) /\ IsFiniteSet(hits \ found)
      BY <2>3, FS_Subset
    <3>2. found' = found \cup (hits \ found) /\ found \cap (hits \ found) = {}
      BY <2>3
    <3>3. Cardinality(found \cup (hits \ found)) =
            Cardinality(found) + Cardinality(hits \ found) - Cardinality(found \cap (hits \ found))
      BY <3>1, FS_Union
    <3>4. /\ Cardinality(found) \in Nat /\ Cardinality(hits \ found) \in Nat
          /\ Cardinality(found \cap (hits \ found)) = 0
      BY <3>1, <3>2, FS_EmptySet, FS_CardinalityType
    <3> QED BY <3>2, <3>3, <3>4
  <2>6. ASSUME OfRun(o[1])
        PROVE  run.status \notin Stopped /\ Cardinality(found') + manual <= MaxSources
    <3>1. ~(Cardinality(found) + manual + Cardinality(hits \ found) > MaxSources)
      BY <2>4, <2>6 DEF OverBudget, sourceCount
    <3>2. Cardinality(found) \in Nat /\ Cardinality(hits \ found) \in Nat
      BY <2>3, FS_Subset, FS_CardinalityType
    <3>3. Cardinality(found') + manual <= MaxSources
      BY <2>3, <2>5, <3>1, <3>2
    <3> QED BY <2>4, <2>6, <3>3 DEF Searchable
  <2> QED BY <2>2, <2>4, <2>6
<1> QED BY <1>1, SearchInvariant, PTL DEF Spec, SearchCommitsSafely
-----------------------------------------------------------------------------
(* The fetch of a page that becomes a source (SafeFetch), for any URLs,    *)
(* answers of DNS and limits.                                              *)

Steps == {"idle", "hop", "resolve", "request", "ok", "error"}
UnderWay == {"hop", "resolve", "request"}

FetchTypeOK ==
  /\ step \in Steps /\ current \in Urls /\ visited \subseteq Urls
  /\ redirects \in 0..MaxRedirects /\ clock \in Nat /\ remaining \in 0..Timeout
  /\ pinned \subseteq Addresses
  /\ connected \in Seq([url : Urls, address : Addresses])

\* A hop begins within the time and takes at most what is left of it twice.
ClockOK ==
  /\ clock <= 2 * Timeout
  /\ step = "resolve" => clock + remaining <= Timeout
  /\ step = "request" => clock <= Timeout

\* One connection for each hop that is over, to what was vetted for it.
ConnectionsOK ==
  /\ pinned \subseteq Public /\ (step = "idle" => connected = <<>>)
  /\ step \in UnderWay => current \in Allowed
  /\ step \in UnderWay \cup {"idle"} => Len(connected) = redirects
  /\ \A i \in DOMAIN connected :
       /\ connected[i].address \in Public /\ connected[i].url \in Allowed
       /\ connected[i].url \in visited
       /\ step \in UnderWay /\ connected[i].url \in Secure => current \in Secure
       /\ step \in {"resolve", "request"} => connected[i].url # current
  /\ step \in {"resolve", "request"} => current \in visited

FetchInv == FetchTypeOK /\ ClockOK /\ ConnectionsOK /\ FetchKeepsPolicy

\* A connection of the current hop leaves the policy as it is, and is known.
LEMMA ConnectKeeps ==
  ASSUME FetchInv, step = "request", Connect
  PROVE  /\ connected' \in Seq([url : Urls, address : Addresses])
         /\ Len(connected') = redirects + 1
         /\ \A i \in DOMAIN connected' :
              /\ connected'[i].address \in Public /\ connected'[i].url \in Allowed
              /\ connected'[i].url \in visited
              /\ connected'[i].url \in Secure => current \in Secure
         /\ \A i, j \in DOMAIN connected' : i < j =>
              /\ connected'[i].url # connected'[j].url
              /\ connected'[i].url \in Secure => connected'[j].url \in Secure
<1> DEFINE S == [url : Urls, address : Addresses]
<1>1. PICK a \in pinned : connected' = Append(connected, [url |-> current, address |-> a])
  BY DEF Connect
<1>2. /\ connected \in Seq(S) /\ [url |-> current, address |-> a] \in S
      /\ a \in Public /\ current \in Allowed /\ current \in visited
      /\ Len(connected) = redirects
  BY DEF FetchInv, FetchTypeOK, ConnectionsOK, UnderWay
<1>3. /\ connected' \in Seq(S) /\ Len(connected') = Len(connected) + 1
      /\ connected'[Len(connected')] = [url |-> current, address |-> a]
      /\ \A i \in DOMAIN connected : i \in DOMAIN connected' /\ connected'[i] = connected[i]
      /\ \A i \in DOMAIN connected' : i \in DOMAIN connected \/ i = Len(connected')
  BY <1>1, <1>2
<1>4. \A i \in DOMAIN connected :
        /\ connected[i].address \in Public /\ connected[i].url \in Allowed
        /\ connected[i].url \in visited /\ connected[i].url # current
        /\ connected[i].url \in Secure => current \in Secure
  BY DEF FetchInv, ConnectionsOK, UnderWay
<1>5. \A i, j \in DOMAIN connected : i < j =>
        /\ connected[i].url # connected[j].url
        /\ connected[i].url \in Secure => connected[j].url \in Secure
  BY DEF FetchInv, FetchKeepsPolicy
<1>6. \A i \in DOMAIN connected' :
        /\ connected'[i].address \in Public /\ connected'[i].url \in Allowed
        /\ connected'[i].url \in visited
        /\ connected'[i].url \in Secure => current \in Secure
  BY <1>2, <1>3, <1>4
<1>7. ASSUME NEW i \in DOMAIN connected', NEW j \in DOMAIN connected', i < j
      PROVE  /\ connected'[i].url # connected'[j].url
             /\ connected'[i].url \in Secure => connected'[j].url \in Secure
  <2>1. i \in DOMAIN connected
    BY <1>2, <1>3, <1>7
  <2>2. CASE j \in DOMAIN connected
    BY <1>3, <1>5, <1>7, <2>1, <2>2
  <2>3. CASE j = Len(connected')
    BY <1>3, <1>4, <2>1, <2>3
  <2> QED BY <1>3, <2>2, <2>3
<1> QED BY <1>2, <1>3, <1>6, <1>7

\* A wait lasts for at most what was left when the hop began.
LEMMA WaitKeeps ==
  ASSUME FetchInv, NEW d, Waits(d), step \in {"resolve", "request"}
  PROVE  /\ clock' \in Nat /\ clock' <= 2 * Timeout
         /\ step = "resolve" => clock' <= Timeout
  BY SafeFetchAssumption DEF FetchInv, FetchTypeOK, ClockOK, Waits

\* Before it begins a fetch has connected to nothing.
LEMMA FetchInitOK == FetchInit => FetchInv
  BY SafeFetchAssumption
  DEF FetchInit, FetchInv, FetchTypeOK, ClockOK, ConnectionsOK, FetchKeepsPolicy, Steps, UnderWay

\* Each step of a hop keeps the invariant, redirects and failures included.
LEMMA FetchNextOK == FetchInv /\ [FetchNext]_fetchVars => FetchInv'
<1> SUFFICES ASSUME FetchInv, [FetchNext]_fetchVars PROVE FetchInv'
  OBVIOUS
<1> USE DEF FetchInv, Steps, UnderWay, validateExternalUrl, isPublicIpAddress
<1>1. CASE Begin
  BY <1>1 DEF Begin, FetchTypeOK, ClockOK, ConnectionsOK, FetchKeepsPolicy
<1>2. CASE NextHop
  <2>1. FetchTypeOK' /\ ClockOK'
    BY <1>2, SafeFetchAssumption DEF NextHop, FetchTypeOK, ClockOK
  <2>2. ConnectionsOK'
    BY <1>2 DEF NextHop, FetchTypeOK, ConnectionsOK
  <2>3. FetchKeepsPolicy'
    BY <1>2 DEF NextHop, FetchKeepsPolicy
  <2> QED BY <2>1, <2>2, <2>3
<1>3. ASSUME NEW d \in 0 .. remaining, NEW answer \in SUBSET Addresses,
             resolveAndValidateExternalUrl(answer, d)
      PROVE  FetchInv'
  <2>1. /\ clock' \in Nat /\ clock' <= Timeout /\ clock' <= 2 * Timeout
    BY <1>3, WaitKeeps DEF resolveAndValidateExternalUrl
  <2>2. FetchTypeOK' /\ ClockOK'
    BY <1>3, <2>1 DEF resolveAndValidateExternalUrl, FetchTypeOK, ClockOK
  <2>3. ConnectionsOK'
    BY <1>3 DEF resolveAndValidateExternalUrl, Vetted, FetchTypeOK, ConnectionsOK
  <2>4. FetchKeepsPolicy'
    BY <1>3, <2>1 DEF resolveAndValidateExternalUrl, FetchKeepsPolicy
  <2> QED BY <2>2, <2>3, <2>4
<1>4. ASSUME NEW d \in 0 .. remaining, NEW bytes \in Sizes, NEW u \in Urls, Redirected(u, bytes, d)
      PROVE  FetchInv'
  <2>1. step = "request" /\ Connect /\ clock' \in Nat /\ clock' <= 2 * Timeout
    BY <1>4, WaitKeeps DEF Redirected
  <2>2. FetchTypeOK' /\ ClockOK'
    <3>1. step' \in {"hop", "error"} /\ current' \in Urls /\ redirects' \in 0..MaxRedirects
      BY <1>4, SafeFetchAssumption DEF Redirected, FetchTypeOK
    <3> QED BY <1>4, <2>1, <3>1, ConnectKeeps DEF Redirected, FetchTypeOK, ClockOK
  <2>3. ConnectionsOK'
    <3>1. CASE step' = "hop"
      <4>1. /\ current' = u /\ redirects' = redirects + 1 /\ u \in Allowed
            /\ current \in Secure => u \in Secure
        BY <1>4, <3>1 DEF Redirected, RedirectTarget
      <4> QED BY <1>4, <2>1, <3>1, <4>1, ConnectKeeps DEF Redirected, ConnectionsOK
    <3>2. CASE step' = "error"
      BY <1>4, <2>1, <3>2, ConnectKeeps DEF Redirected, ConnectionsOK
    <3> QED BY <1>4, <3>1, <3>2 DEF Redirected
  <2>4. FetchKeepsPolicy'
    BY <1>4, <2>1, ConnectKeeps, SafeFetchAssumption DEF Redirected, FetchTypeOK, FetchKeepsPolicy
  <2> QED BY <2>2, <2>3, <2>4
<1>5. ASSUME NEW d \in 0 .. remaining, NEW bytes \in Sizes, NEW media \in MediaTypes,
             Answered(bytes, media, d)
      PROVE  FetchInv'
  <2>1. step = "request" /\ Connect /\ clock' \in Nat /\ clock' <= 2 * Timeout
    BY <1>5, WaitKeeps DEF Answered
  <2>2. FetchTypeOK' /\ ClockOK'
    BY <1>5, <2>1, ConnectKeeps DEF Answered, FetchTypeOK, ClockOK
  <2>3. ConnectionsOK'
    BY <1>5, <2>1, ConnectKeeps DEF Answered, FetchTypeOK, ConnectionsOK
  <2>4. FetchKeepsPolicy'
    BY <1>5, <2>1, ConnectKeeps, SafeFetchAssumption
    DEF Answered, ReturnedSizes, FetchTypeOK, FetchKeepsPolicy
  <2> QED BY <2>2, <2>3, <2>4
<1>6. ASSUME NEW d \in 0 .. remaining, Fails(d)
      PROVE  FetchInv'
  <2>1. clock' \in Nat /\ clock' <= 2 * Timeout
    BY <1>6, WaitKeeps DEF Fails
  <2>2. CASE step = "request" /\ Connect
    <3>1. FetchTypeOK' /\ ClockOK'
      BY <1>6, <2>1, <2>2, ConnectKeeps DEF Fails, FetchTypeOK, ClockOK
    <3>2. ConnectionsOK'
      BY <1>6, <2>2, ConnectKeeps DEF Fails, FetchTypeOK, ConnectionsOK
    <3>3. FetchKeepsPolicy'
      BY <1>6, <2>1, <2>2, ConnectKeeps, SafeFetchAssumption
      DEF Fails, FetchTypeOK, FetchKeepsPolicy
    <3> QED BY <3>1, <3>2, <3>3
  <2>3. CASE UNCHANGED connected
    BY <1>6, <2>1, <2>3 DEF Fails, FetchTypeOK, ClockOK, ConnectionsOK, FetchKeepsPolicy
  <2> QED BY <1>6, <2>2, <2>3 DEF Fails
<1>7. CASE UNCHANGED fetchVars
  BY <1>7 DEF fetchVars, FetchTypeOK, ClockOK, ConnectionsOK, FetchKeepsPolicy
<1> QED BY <1>1, <1>2, <1>3, <1>4, <1>5, <1>6, <1>7 DEF FetchNext

\* safeFetch keeps its policy over any chain of redirects and any answers of DNS:
\* what is pinned was vetted, each hop is one connection to a URL not asked before,
\* and a hop that begins in time ends within twice of it.
THEOREM FetchKeepsPolicyHolds == FetchInit /\ [][FetchNext]_fetchVars => []FetchKeepsPolicy
<1>1. FetchInv => FetchKeepsPolicy
  BY DEF FetchInv
<1> QED BY <1>1, FetchInitOK, FetchNextOK, PTL
=============================================================================

--------------------------- MODULE ProviderAccess ---------------------------
(***************************************************************************)
(* How a job handler gets at an external provider: the permits of          *)
(* lib/services/provider-limits.ts (a request window and a limit of calls  *)
(* in flight, for one provider and operation), the provenance rows of      *)
(* provider-executions.ts, and the frame every such handler has.  A permit *)
(* and an execution are named by the attempt that owns them: permitOwner   *)
(* and clientRequestId are made from the job and its attempt.              *)
(***************************************************************************)
EXTENDS WorkerJobs, FiniteSets

CONSTANTS
  ConcurrencyLimit,  \* PROVIDER_CONCURRENCY
  RequestLimit,      \* PROVIDER_REQUEST_LIMIT, per window
  MaxFaults          \* bound: failures, losses and interventions

ASSUME ProviderAccessAssumption ==
  ConcurrencyLimit \in Nat \ {0} /\ RequestLimit \in Nat \ {0} /\ MaxFaults \in Nat

VARIABLES
  permits,     \* provider_permits, by owner
  window,      \* provider_rate_windows: requests in the current window
  executions,  \* provider_executions, by owner: status and response id
  handler,     \* the handler of every attempt
  faults       \* faults so far, at most MaxFaults

Owners == JobIds \X AttemptNumbers
NoResponse == 0
NoExecution == [ status |-> "NONE", response |-> NoResponse ]

\* outcome: how the handler will end once it has cleaned up; data: what it
\* carries from one step to the next.
NoHandler == [ pc |-> "none", outcome |-> "none", data |-> {} ]
Outcomes == {"returned", "failFatal", "failRetryable"}

AccessInit ==
  /\ permits = [o \in Owners |-> "none"]
  /\ window = 0
  /\ executions = [o \in Owners |-> NoExecution]
  /\ handler = [o \in Owners |-> NoHandler]
  /\ faults = 0

Pc(o) == handler[o].pc
Goto(o, pc) == handler' = [handler EXCEPT ![o].pc = pc]
GotoWith(o, pc, data) == handler' = [handler EXCEPT ![o].pc = pc, ![o].data = data]
FencedOwner(o) == Fenced(o[1], o[2])

\* The handler is going to end this way, after the step at pc.
Leave(o, pc, outcome) ==
  handler' = [handler EXCEPT ![o] = [NoHandler EXCEPT !.pc = pc, !.outcome = outcome]]
Ends(o, outcome) == Leave(o, outcome, outcome)

-----------------------------------------------------------------------------
(* lib/services/provider-limits.ts.                                        *)

\* Permits neither released nor expired.
InFlight == {o \in Owners : permits[o] = "held"}

\* Variant: one permit too many is given out.
PermitAllowedOffByOne ==
  Cardinality(InFlight) <= ConcurrencyLimit /\ window < RequestLimit

PermitAllowed == Cardinality(InFlight) < ConcurrencyLimit /\ window < RequestLimit

\* One transaction under the lock of the window's row; a refusal is retryable.
acquireProviderPermit(o, next) ==
  /\ Pc(o) = "permit"
  /\ \/ /\ PermitAllowed
        /\ permits' = [permits EXCEPT ![o] = "held"]
        /\ window' = window + 1
        /\ Goto(o, next)
     \/ /\ ~PermitAllowed
        /\ Ends(o, "failRetryable")
        /\ UNCHANGED <<permits, window>>
  /\ UNCHANGED executions

\* An expired permit is not released again.
Released(o) == IF permits[o] = "held" THEN "released" ELSE permits[o]

\* The finally of every handler; next is the outcome, or where a handler goes
\* on that has its answer.
releaseProviderPermit(o) ==
  /\ Pc(o) = "release"
  /\ permits' = [permits EXCEPT ![o] = Released(o)]
  /\ Goto(o, handler[o].outcome)
  /\ UNCHANGED <<window, executions>>

\* Time passes: a permit outlives its time to live, a window ends.
PermitExpires(o) ==
  /\ permits[o] = "held"
  /\ permits' = [permits EXCEPT ![o] = "expired"]
  /\ UNCHANGED <<window, executions, handler, jobs>>
WindowExpires ==
  /\ window > 0
  /\ window' = 0
  /\ UNCHANGED <<permits, executions, handler, jobs>>

-----------------------------------------------------------------------------
(* lib/services/provider-executions.ts.                                    *)

startProviderExecution(o) == executions' = [executions EXCEPT ![o].status = "STARTED"]

\* Variant: the response id is not compared.
DuplicateResponseIgnored(o, response) == FALSE

\* A response id another execution already has (any status, same provider).
DuplicateResponse(o, response) ==
  response # NoResponse /\ \E p \in Owners \ {o} : executions[p].response = response

\* The caller's status, or REJECTED without the response id of another row.
finishProviderExecution(o, status, response) ==
  /\ executions[o].status = "STARTED"
  /\ executions' = [executions EXCEPT ![o] =
       IF DuplicateResponse(o, response) THEN [@ EXCEPT !.status = "REJECTED"]
       ELSE [status |-> status, response |-> response]]

-----------------------------------------------------------------------------
(* The frame of a handler.                                                 *)

StartHandler(j, pc) ==
  /\ StartAttempt(j)
  /\ handler' = [handler EXCEPT ![<<j, jobs[j].attempts + 1>>].pc = pc]
  /\ UNCHANGED <<permits, window, executions>>

\* A crashed handler leaves its permit and its execution behind.
CrashHandler(o) ==
  /\ Pc(o) \notin {"none", "done"}
  /\ handler' = [handler EXCEPT ![o] = [NoHandler EXCEPT !.pc = "done"]]
  /\ UNCHANGED <<permits, window, executions, jobs>>

EndHandler(o) ==
  handler' = [handler EXCEPT ![o] = [NoHandler EXCEPT !.pc = "done"]]

-----------------------------------------------------------------------------
\* Calls of the provider in progress never exceed the concurrency limit, apart
\* from calls that outlive their permit, and no handler that has ended, however
\* it ended, still counts as in flight: capacity is lost only to a crash and
\* only until the permit expires (acquireProviderPermit, releaseProviderPermit
\* and the finally blocks of the handlers).
PermitDiscipline ==
  /\ Cardinality({o \in Owners : Pc(o) = "call" /\ permits[o] # "expired"}) <= ConcurrencyLimit
  /\ \A o \in Owners : Pc(o) = "call" => permits[o] \in {"held", "expired"}
  /\ \A o \in Owners : Pc(o) \in Outcomes => permits[o] # "held"
=============================================================================

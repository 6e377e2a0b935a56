------------------------------ MODULE Sessions ------------------------------
(***************************************************************************)
(* Operator sessions (lib/services/auth.ts), the login throttle (lib/auth/ *)
(* rate-limit.ts) and the mutation receipts every unsafe request runs      *)
(* under (lib/services/mutation-receipts.ts, lib/http.ts).                 *)
(*                                                                         *)
(* One operator.  A request is one delivery of an HTTP mutation: a browser *)
(* that has not heard an answer sends the same key again, while the first  *)
(* delivery may still run.  A request is one database transaction, and its *)
(* steps here are the row locks it waits for: PostgreSQL holds them until  *)
(* the transaction ends and ends one member of every cycle of waits.       *)
(***************************************************************************)
EXTENDS Naturals, FiniteSets

CONSTANTS
  Requests,        \* deliveries of requests (a bound on the behaviour)
  Keys,            \* values of the Idempotency-Key header
  Passwords,
  OpenSessions,    \* sessions opened before the behaviour starts
  Kinds,           \* the kinds of request the instance sends
  MaxFaults,       \* bound: crashes and expired sessions
  MaximumAttempts, \* AUTH_LOGIN_MAX_ATTEMPTS
  Initial,         \* the operator's first password
  None             \* no session, no password, no target

ASSUME SessionsAssumption ==
  /\ IsFiniteSet(Requests) /\ IsFiniteSet(Keys) /\ IsFiniteSet(OpenSessions)
  /\ Kinds \subseteq {"login", "password", "logout", "revoke", "mutate"}
  /\ MaximumAttempts \in Nat \ {0, 1} /\ MaxFaults \in Nat /\ Initial \in Passwords
  /\ None \notin Passwords \cup OpenSessions

VARIABLES
  operator,   \* operators: the password and its version
  sessions,   \* operator_sessions: status, and the password it was opened with
  rate,       \* operator_login_rate_limits, the row of this username
  receipts,   \* mutation_receipts, the committed rows
  locks,      \* pairs <<row, request>>: row locks of open transactions
  request,    \* each delivery: what it asks and how far it is
  executed,   \* history: committed executions of each receipt
  faults,     \* crashes and expiries so far
  wrong       \* history: wrong passwords checked, and blocks served, in a window

vars == <<operator, sessions, rate, receipts, locks, request, executed, faults,
          wrong>>

\* The tokens of a new session are derived from the key of its request.
NewSession(kind, key) == <<kind, key>>
SessionIds == OpenSessions \cup ({"login", "password"} \X Keys)
NoSession == [status |-> "none", version |-> 0]
NoRate == [row |-> FALSE, count |-> 0, blocked |-> FALSE, over |-> FALSE]
Idle == [pc |-> "idle", kind |-> "none", key |-> None, session |-> None,
         body |-> None, seen |-> [password |-> None, version |-> 0],
         answer |-> 0]
NoneWrong == [guesses |-> 0, blocks |-> 0]

Init ==
  /\ operator = [password |-> Initial, version |-> 0]
  /\ sessions = [s \in SessionIds |->
                   IF s \in OpenSessions THEN [NoSession EXCEPT !.status = "live"]
                   ELSE NoSession]
  /\ rate = NoRate
  /\ receipts = {}
  /\ locks = {}
  /\ request = [r \in Requests |-> Idle]
  /\ executed = {} /\ faults = 0
  /\ wrong = NoneWrong

Live(s) == sessions[s].status = "live"

-----------------------------------------------------------------------------
(* Locks, and the end of a transaction.                                    *)

\* Rows that are locked: the throttle, the operator, sessions and receipts.
Rate == <<"rate">>
Operator == <<"operator">>
Session(s) == <<"session", s>>
Receipt(scope) == <<"receipt", scope>>

Holder(row) == {q \in Requests : <<row, q>> \in locks}
Free(row, r) == Holder(row) \subseteq {r}
Lock(row, r) == Free(row, r) /\ locks' = locks \cup {<<row, r>>}
Unlocked(r) == {l \in locks : l[2] # r}

At(r, pc) == request[r].pc = pc
Goto(r, pc) == request' = [request EXCEPT ![r].pc = pc]
Answer(r, answer) == request' = [request EXCEPT ![r].pc = "done", ![r].answer = answer]

\* principal scope, method and path, key
Scope(r) ==
  <<request[r].kind,
    IF request[r].kind \in {"logout", "revoke"} THEN request[r].session ELSE None,
    request[r].key>>

data == <<operator, sessions, rate, receipts, executed, wrong>>

\* COMMIT: the receipt with its response is part of the same transaction.
Commit(r, answer) ==
  /\ receipts' = receipts \cup
       {[scope |-> Scope(r), body |-> request[r].body, answer |-> answer]}
  /\ executed' = executed \cup {<<Scope(r), r>>}
  /\ locks' = Unlocked(r)
  /\ Answer(r, answer)

\* ROLLBACK: neither the operation nor its receipt happened.
Rollback(r, answer) ==
  /\ locks' = Unlocked(r)
  /\ Answer(r, answer)
  /\ UNCHANGED data

-----------------------------------------------------------------------------
(* Sending and authenticating a request.                                   *)

Bodies(kind) ==
  CASE kind = "login" -> Passwords
    [] kind = "password" -> Passwords \X Passwords
    [] kind = "revoke" -> {s \in SessionIds : sessions[s].status # "none"}
    [] OTHER -> {None}
Tokens(kind) ==
  IF kind = "login" THEN {None}
  ELSE {s \in SessionIds : sessions[s].status # "none"}

Send(r) ==
  /\ At(r, "idle")
  /\ \E kind \in Kinds, key \in Keys :
       \E session \in Tokens(kind), body \in Bodies(kind) :
         request' = [request EXCEPT ![r] =
           [Idle EXCEPT !.pc = IF kind = "login" THEN "receipt" ELSE "auth",
                        !.kind = kind, !.key = key,
                        !.session = session, !.body = body]]
  /\ UNCHANGED <<data, locks, faults>>

\* handleAuthenticatedRoute wants a live session.  The routes that end
\* sessions take a revoked one too, so that their replays are answered.
requireAuthMutationContext(r) ==
  /\ At(r, "auth")
  /\ IF \/ Live(request[r].session)
        \/ sessions[request[r].session].status = "revoked" /\ request[r].kind # "mutate"
     THEN Goto(r, "receipt")
     ELSE Answer(r, 401)
  /\ UNCHANGED <<data, locks>>

FirstStep(kind) ==
  CASE kind = "login" -> "rate" [] kind = "mutate" -> "effect" [] OTHER -> "session"

\* A variant for comparison: a key is looked up, then inserted.
InsertReceiptUnchecked(r) == locks' = locks \cup {<<Receipt(Scope(r)), r>>}
InsertReceipt(r) == Lock(Receipt(Scope(r)), r)

\* INSERT ... ON CONFLICT DO NOTHING waits for an open transaction that
\* inserted the same row.
executeIdempotentResponse(r) ==
  LET stored == {c \in receipts : c.scope = Scope(r)} IN
  /\ At(r, "receipt")
  /\ UNCHANGED data
  /\ \/ /\ stored # {}
        /\ \E c \in stored :
             Answer(r, IF c.body = request[r].body THEN c.answer ELSE 409)
        /\ UNCHANGED locks
     \/ /\ stored = {}
        /\ InsertReceipt(r)
        /\ Goto(r, FirstStep(request[r].kind))

\* Every other route: its operation does not look at the session again.
MutationTakesEffect(r) ==
  /\ At(r, "effect")
  /\ Commit(r, 200)
  /\ UNCHANGED <<operator, sessions, rate, wrong>>

-----------------------------------------------------------------------------
(* Login.                                                                  *)

\* A new row is inserted and locked at once; an insert by an open
\* transaction is waited for; an existing row is locked next.
InsertRateLimit(r) ==
  /\ At(r, "rate")
  /\ IF rate.row THEN UNCHANGED locks ELSE Lock(Rate, r)
  /\ Goto(r, IF rate.row THEN "lockRate" ELSE "operator")
  /\ UNCHANGED data

normalizeLoginRateLimitState == IF rate.over THEN NoRate ELSE rate

\* A login that succeeded meanwhile deleted the row: SELECT returns nothing,
\* and reading its columns throws.  A blocked login is answered and saved.
lockRateLimit(r) ==
  /\ At(r, "lockRate")
  /\ Free(Rate, r)
  /\ \/ ~rate.row /\ Rollback(r, 500)
     \/ /\ rate.row /\ normalizeLoginRateLimitState.blocked
        /\ Commit(r, 429)
        /\ UNCHANGED <<operator, sessions, rate, wrong>>
     \/ /\ rate.row /\ ~normalizeLoginRateLimitState.blocked
        /\ Lock(Rate, r) /\ Goto(r, "operator")
        /\ UNCHANGED data

\* A variant for comparison: the operator is read without FOR UPDATE.
SelectOperatorUnlocked(r) == UNCHANGED locks
SelectOperator(r) == Lock(Operator, r)

\* SELECT ... FOR UPDATE of the operator, by a login and a password change.
LockOperator(r) ==
  /\ At(r, "operator")
  /\ SelectOperator(r)
  /\ request' = [request EXCEPT ![r].seen = operator,
                   ![r].pc = IF request[r].kind = "login" THEN "verify" ELSE "change"]
  /\ UNCHANGED data

\* A variant for comparison: the last allowed attempt does not block.
registerLoginFailureLate(state) ==
  [row |-> TRUE, count |-> state.count + 1,
   blocked |-> state.count >= MaximumAttempts, over |-> FALSE]
registerLoginFailure(state) ==
  [row |-> TRUE, count |-> state.count + 1,
   blocked |-> state.count + 1 >= MaximumAttempts, over |-> FALSE]

authenticateOperator(r) ==
  /\ At(r, "verify")
  /\ IF request[r].body = request[r].seen.password
     THEN /\ sessions' = [sessions EXCEPT ![NewSession("login", request[r].key)] =
                            [status |-> "live", version |-> request[r].seen.version]]
          /\ rate' = NoRate /\ wrong' = NoneWrong
          /\ Commit(r, 200)
     ELSE LET failed == registerLoginFailure(normalizeLoginRateLimitState) IN
          /\ rate' = failed
          /\ wrong' = [wrong EXCEPT !.guesses = IF rate.over THEN 1 ELSE @ + 1,
                                    !.blocks = IF rate.over THEN 0 ELSE @]
          /\ Commit(r, IF failed.blocked THEN 429 ELSE 401)
          /\ UNCHANGED sessions
  /\ UNCHANGED operator

-----------------------------------------------------------------------------
(* Logout, revocation and password change.                                 *)

\* A variant for comparison: the reading of requireAuthMutationContext.
LoadableUnexpired(s) == sessions[s].status \in {"live", "revoked"}
loadSession(s) == Live(s)
Revoked(ids) ==
  [s \in SessionIds |-> IF s \in ids /\ Live(s)
                        THEN [sessions[s] EXCEPT !.status = "revoked"] ELSE sessions[s]]

\* The session is read again under its lock; logout needs nothing else.
requireMutationSession(r) ==
  LET s == request[r].session IN
  /\ At(r, "session")
  /\ Free(Session(s), r)
  /\ IF ~loadSession(s) THEN Rollback(r, 401)
     ELSE IF request[r].kind = "logout"
     THEN /\ sessions' = Revoked({s})
          /\ Commit(r, 200)
          /\ UNCHANGED <<operator, rate, wrong>>
     ELSE /\ Lock(Session(s), r)
          /\ Goto(r, IF request[r].kind = "revoke" THEN "target" ELSE "operator")
          /\ UNCHANGED data

revokeOperatorSession(r) ==
  LET target == request[r].body IN
  /\ At(r, "target")
  /\ Free(Session(target), r)
  /\ IF ~Live(target) THEN Rollback(r, 404)
     ELSE /\ sessions' = Revoked({target})
          /\ Commit(r, 200)
          /\ UNCHANGED <<operator, rate, wrong>>

LiveSessions == {s \in SessionIds : Live(s)}

CheckPasswords(r) ==
  /\ At(r, "change")
  /\ IF request[r].body[1] # request[r].seen.password \/ request[r].body[2] = request[r].body[1]
     THEN /\ Commit(r, IF request[r].body[1] # request[r].seen.password THEN 401 ELSE 409)
          /\ UNCHANGED <<operator, sessions, rate, wrong>>
     ELSE Goto(r, "revokeAll") /\ UNCHANGED <<data, locks>>

\* The UPDATE of all live sessions locks them one after the other.
LockLiveSession(r) ==
  /\ At(r, "revokeAll")
  /\ \E s \in LiveSessions : <<Session(s), r>> \notin locks /\ Lock(Session(s), r)
  /\ UNCHANGED <<data, request>>

changeOperatorPassword(r) ==
  /\ At(r, "revokeAll")
  /\ \A s \in LiveSessions : <<Session(s), r>> \in locks
  /\ operator' = [password |-> request[r].body[2], version |-> operator.version + 1]
  /\ sessions' = [Revoked(LiveSessions) EXCEPT
                    ![NewSession("password", request[r].key)] =
                       [status |-> "live", version |-> operator.version + 1]]
  /\ Commit(r, 200)
  /\ UNCHANGED <<rate, wrong>>

-----------------------------------------------------------------------------
(* The database, the clock and the web process.                            *)

WaitedRows(r) ==
  CASE At(r, "receipt") -> {Receipt(Scope(r))}
    [] request[r].pc \in {"rate", "lockRate"} -> {Rate}
    [] At(r, "operator") -> {Operator}
    [] At(r, "session") -> {Session(request[r].session)}
    [] At(r, "target") -> {Session(request[r].body)}
    [] At(r, "revokeAll") -> {Session(s) : s \in {t \in LiveSessions : <<Session(t), r>> \notin locks}}
    [] OTHER -> {}
WaitsFor(r) == UNION {Holder(row) : row \in WaitedRows(r)} \ {r}

\* deadlock_timeout: a member of a cycle of waits is rolled back.
DeadlockVictim(r) ==
  /\ \E ring \in SUBSET Requests :
       /\ r \in ring
       /\ \A q \in ring : /\ WaitsFor(q) \cap ring # {}
                          /\ \E p \in ring : q \in WaitsFor(p)
  /\ Rollback(r, 500)

\* The web process or its connection dies: the open transaction is undone.
CrashRequest(r) ==
  /\ request[r].pc \notin {"idle", "done", "lost"}
  /\ faults < MaxFaults /\ faults' = faults + 1
  /\ locks' = Unlocked(r)
  /\ Goto(r, "lost")
  /\ UNCHANGED data

\* The clock is read once, under the lock of the row: a period that ends
\* during a login counts as ending after it.
WindowEnds ==
  /\ rate.row /\ ~rate.over /\ Holder(Rate) = {}
  /\ rate' = [rate EXCEPT !.over = TRUE]
  /\ UNCHANGED <<operator, sessions, receipts, locks, request, executed, faults, wrong>>

BlockEnds ==
  /\ rate.blocked /\ Holder(Rate) = {}
  /\ rate' = [rate EXCEPT !.blocked = FALSE]
  /\ wrong' = [wrong EXCEPT !.blocks = @ + 1]
  /\ UNCHANGED <<operator, sessions, receipts, locks, request, executed, faults>>

SessionExpires ==
  /\ faults < MaxFaults /\ faults' = faults + 1
  /\ \E s \in SessionIds :
       /\ Live(s)
       /\ sessions' = [sessions EXCEPT ![s].status = "expired"]
  /\ UNCHANGED <<operator, rate, receipts, locks, request, executed, wrong>>

Step(r) ==
 /\ UNCHANGED faults
 /\ \/ requireAuthMutationContext(r)
     \/ executeIdempotentResponse(r)
     \/ MutationTakesEffect(r)
     \/ InsertRateLimit(r)
     \/ lockRateLimit(r)
     \/ LockOperator(r)
     \/ authenticateOperator(r)
     \/ requireMutationSession(r)
     \/ revokeOperatorSession(r)
     \/ CheckPasswords(r)
     \/ LockLiveSession(r)
     \/ changeOperatorPassword(r)
     \/ DeadlockVictim(r)

\* Requests and faults are bounded, so every behaviour comes to rest; TLC's
\* deadlock check then says that it rests only when every request has ended.
AllEnded ==
  /\ \A r \in Requests : request[r].pc \in {"done", "lost"}
  /\ UNCHANGED vars

Next ==
  \/ \E r \in Requests : Send(r) \/ Step(r) \/ CrashRequest(r)
  \/ WindowEnds
  \/ BlockEnds
  \/ SessionExpires
  \/ AllEnded

Spec == Init /\ [][Next]_vars

-----------------------------------------------------------------------------
(* Properties.                                                             *)

\* Every live session was opened with the operator's present password: a
\* login that checked the password before changeOperatorPassword committed
\* leaves no session behind that the change did not revoke.
SessionsMatchPassword ==
  \A s \in LiveSessions : sessions[s].version = operator.version

\* executeIdempotentResponse: however often and however concurrently a key
\* is delivered, its operation takes effect at most once and every delivery
\* that succeeds is told the same.
KeyTakesEffectOnce ==
  /\ \A e, f \in executed : e[1] = f[1] => e = f
  /\ \A r, q \in Requests :
       /\ At(r, "done") /\ At(q, "done") /\ request[r].kind # "none"
       /\ Scope(r) = Scope(q)
       /\ request[r].answer = 200 /\ request[q].answer = 200
       => request[r].body = request[q].body

\* The login throttle under concurrency: in one window no more than
\* AUTH_LOGIN_MAX_ATTEMPTS wrong passwords are checked, and one more for each
\* block that was served.
WrongPasswordsBounded == wrong.guesses <= MaximumAttempts + wrong.blocks

\* A revoked session ends no session and changes no password: requests past
\* requireAuthMutationContext, which lets it through, and requests that
\* waited for its lock are stopped by the reading under the lock.
RevokedSessionActs(r) ==
  /\ request[r].kind \in {"logout", "revoke", "password"}
  /\ sessions[request[r].session].status = "revoked"
  /\ At(r, "done")' /\ ~At(r, "done") /\ executed' # executed
RevokedSessionsInert == [][\A r \in Requests : ~RevokedSessionActs(r)]_vars
=============================================================================

--------------------------- MODULE SessionsProofs ---------------------------
(***************************************************************************)
(* Proofs about Sessions, for every set of requests, keys and passwords    *)
(* and every bound.  The argument is ownership: a row lock has one owner   *)
(* (LocksOK), what a request read stays true while it owns the row it read *)
(* it from (Owns), and a step of one request touches only rows no other    *)
(* request owns (Bystander).                                               *)
(***************************************************************************)
EXTENDS Sessions, TLAPS

USE SessionsAssumption DEF SessionsAssumption

-----------------------------------------------------------------------------
(* The inductive invariant.                                                *)

Pcs == {"idle", "auth", "receipt", "rate", "lockRate", "operator", "verify",
        "session", "target", "change", "revokeAll", "effect", "done", "lost"}

\* Inside the transaction, behind the insert of the receipt.
Open == {"rate", "lockRate", "operator", "verify", "session", "target",
         "change", "revokeAll", "effect"}

\* What a request of each kind carries.
BodiesOf(kind) ==
  CASE kind = "login" -> Passwords
    [] kind = "password" -> Passwords \X Passwords
    [] kind = "revoke" -> SessionIds
    [] OTHER -> {None}

Versions == [password : Passwords \cup {None}, version : Nat]
SessionRows == [status : {"none", "live", "revoked", "expired"}, version : Nat]
Deliveries ==
  [ pc : Pcs, kind : Kinds \cup {"none"}, key : Keys \cup {None},
    session : SessionIds \cup {None},
    body : UNION {BodiesOf(kind) : kind \in Kinds \cup {"none"}},
    seen : Versions, answer : Nat ]

\* A request that was sent has the fields of its kind.
Sent(r) ==
  At(r, "idle") \/ /\ request[r].kind \in Kinds /\ request[r].key \in Keys
                   /\ request[r].session \in SessionIds \/ request[r].kind = "login"
                   /\ request[r].body \in BodiesOf(request[r].kind)

TypeOK ==
  /\ operator \in Versions
  /\ sessions \in [SessionIds -> SessionRows]
  /\ rate \in [row : BOOLEAN, count : Nat, blocked : BOOLEAN, over : BOOLEAN]
  /\ request \in [Requests -> Deliveries]
  /\ wrong \in [guesses : Nat, blocks : Nat]
  /\ \A r \in Requests : Sent(r)

\* A row lock has one owner.
LocksOK ==
  /\ \A l \in locks : l[2] \in Requests /\ l = <<l[1], l[2]>>
  /\ \A l, m \in locks : l[1] = m[1] => l = m

\* Each step of a transaction belongs to certain kinds of request.
KindsOf(pc) ==
  CASE pc \in {"rate", "lockRate", "verify"} -> {"login"}
    [] pc = "operator" -> {"login", "password"}
    [] pc = "session" -> {"logout", "revoke", "password"}
    [] pc = "target" -> {"revoke"}
    [] pc \in {"change", "revokeAll"} -> {"password"}
    [] OTHER -> {"mutate"}

\* What a request in its transaction owns, and what it read there still holds:
\* its key has no receipt, the throttle does not block it, the operator is as
\* it was read, and its session has not been revoked.
Owns(r) ==
  LET q == request[r] IN
  /\ q.pc \in Open =>
       /\ q.kind \in KindsOf(q.pc)
       /\ <<Receipt(Scope(r)), r>> \in locks
       /\ \A c \in receipts : c.scope # Scope(r)
  /\ q.pc \in {"operator", "verify"} /\ q.kind = "login" =>
       <<Rate, r>> \in locks /\ ~normalizeLoginRateLimitState.blocked
  /\ q.pc \in {"verify", "change", "revokeAll"} =>
       <<Operator, r>> \in locks /\ q.seen = operator
  /\ q.pc \in {"operator", "target", "change", "revokeAll"} /\ q.kind # "login" =>
       <<Session(q.session), r>> \in locks /\ sessions[q.session].status # "revoked"

\* A delivery that succeeded did what the receipt of its key says.
Answered(r) ==
  At(r, "done") /\ request[r].answer = 200 =>
    \E c \in receipts : c.scope = Scope(r) /\ c.body = request[r].body

\* One receipt for each key, one receipt for what was executed, and one
\* execution for each receipt.
ReceiptsOK ==
  /\ \A c \in receipts : c.answer \in Nat
  /\ \A c, d \in receipts : c.scope = d.scope => c = d
  /\ \A e \in executed : \E c \in receipts : c.scope = e[1]
  /\ \A e, f \in executed : e[1] = f[1] => e = f

\* The throttle's row counts the wrong passwords of its window, and has room
\* for one more unless it blocks.
ThrottleOK ==
  /\ ~rate.row => rate = NoRate
  /\ ~rate.over => rate.count = wrong.guesses
  /\ IF rate.blocked THEN wrong.guesses <= MaximumAttempts + wrong.blocks
                     ELSE wrong.guesses < MaximumAttempts + wrong.blocks

SessionsInv ==
  /\ TypeOK /\ LocksOK /\ ReceiptsOK /\ ThrottleOK /\ SessionsMatchPassword
  /\ \A r \in Requests : Owns(r) /\ Answered(r)

-----------------------------------------------------------------------------
(* Locks.                                                                  *)

\* Two requests that own a row are one.
LEMMA OneOwner ==
  ASSUME LocksOK, NEW row, NEW r, NEW q, <<row, r>> \in locks, <<row, q>> \in locks
  PROVE  r = q
<1>1. <<row, r>> = <<row, q>>
  BY DEF LocksOK
<1> QED BY <1>1

\* Locking a row keeps its one owner and every other lock.
LEMMA AfterLock ==
  ASSUME LocksOK, NEW r \in Requests, NEW row, Lock(row, r)
  PROVE  LocksOK' /\ locks \subseteq locks' /\ <<row, r>> \in locks'
<1>1. locks' = locks \cup {<<row, r>>}
  BY DEF Lock
<1>2. ASSUME NEW l \in locks, l[1] = row PROVE l = <<row, r>>
  <2>1. l = <<row, l[2]>> /\ l[2] \in Requests
    BY <1>2 DEF LocksOK
  <2>2. l[2] \in Holder(row)
    BY <2>1 DEF Holder
  <2>3. l[2] = r
    BY <2>2 DEF Lock, Free
  <2> QED BY <2>1, <2>3
<1>3. ASSUME NEW l \in locks', NEW m \in locks', l[1] = m[1] PROVE l = m
  <2>1. <<row, r>>[1] = row
    OBVIOUS
  <2>2. CASE l \in locks /\ m \in locks
    BY <1>3, <2>2 DEF LocksOK
  <2>3. CASE l = <<row, r>> \/ m = <<row, r>>
    BY <1>1, <1>2, <1>3, <2>1, <2>3
  <2> QED BY <1>1, <2>2, <2>3
<1>4. ASSUME NEW l \in locks' PROVE l[2] \in Requests /\ l = <<l[1], l[2]>>
  BY <1>1 DEF LocksOK
<1> QED BY <1>1, <1>3, <1>4 DEF LocksOK

\* The end of a transaction gives up the locks of its request only.
LEMMA AfterUnlock ==
  ASSUME LocksOK, NEW r, locks' = Unlocked(r)
  PROVE  /\ LocksOK'
         /\ \A row, q : q # r /\ <<row, q>> \in locks => <<row, q>> \in locks'
  BY DEF LocksOK, Unlocked

-----------------------------------------------------------------------------
(* Steps of one request and the others.                                    *)

\* A step of request r leaves alone what request q owns.
Spares(r, q) ==
  /\ request'[q] = request[q]
  /\ \A row : <<row, q>> \in locks => <<row, q>> \in locks'
  /\ receipts \subseteq receipts'
  /\ \A c \in receipts' \ receipts :
        c.scope = Scope(r) /\ <<Receipt(Scope(r)), r>> \in locks
  /\ rate' = rate \/ <<Rate, r>> \in locks
  /\ operator' = operator \/ <<Operator, r>> \in locks
  /\ request[q].session \in SessionIds /\ <<Session(request[q].session), q>> \in locks =>
       (sessions'[request[q].session].status = "revoked" =>
          sessions[request[q].session].status = "revoked")

\* What another request owns stays as that request read it.
LEMMA Bystander ==
  ASSUME SessionsInv, NEW r \in Requests, NEW q \in Requests, q # r, Spares(r, q)
  PROVE  Owns(q)' /\ Answered(q)'
<1>0. LocksOK /\ Owns(q) /\ Answered(q)
  BY DEF SessionsInv
<1>1. Scope(q)' = Scope(q)
  BY DEF Scope, Spares
<1>2. Answered(q)'
  BY <1>0, <1>1 DEF Answered, At, Spares
<1>3. ASSUME request[q].pc \in Open
      PROVE  /\ request[q].kind \in KindsOf(request[q].pc)
             /\ <<Receipt(Scope(q)), q>> \in locks'
             /\ \A c \in receipts' : c.scope # Scope(q)
  <2>1. <<Receipt(Scope(q)), q>> \in locks /\ request[q].kind \in KindsOf(request[q].pc)
    BY <1>0, <1>3 DEF Owns
  <2>2. ASSUME NEW c \in receipts' \ receipts PROVE c.scope # Scope(q)
    BY <1>0, <2>1, <2>2, OneOwner DEF Spares
  <2> QED BY <1>0, <1>3, <2>1, <2>2 DEF Owns, Spares
<1>4. ASSUME request[q].pc \in {"operator", "verify"}, request[q].kind = "login"
      PROVE  <<Rate, q>> \in locks' /\ ~normalizeLoginRateLimitState'.blocked
  <2>1. <<Rate, q>> \in locks /\ ~normalizeLoginRateLimitState.blocked
    BY <1>0, <1>4 DEF Owns
  <2>2. rate' = rate
    BY <1>0, <2>1, OneOwner DEF Spares
  <2> QED BY <2>1, <2>2 DEF Spares, normalizeLoginRateLimitState
<1>5. ASSUME request[q].pc \in {"verify", "change", "revokeAll"}
      PROVE  <<Operator, q>> \in locks' /\ request[q].seen = operator'
  <2>1. <<Operator, q>> \in locks /\ request[q].seen = operator
    BY <1>0, <1>5 DEF Owns
  <2>2. operator' = operator
    BY <1>0, <2>1, OneOwner DEF Spares
  <2> QED BY <2>1, <2>2 DEF Spares
<1>6. ASSUME request[q].pc \in {"operator", "target", "change", "revokeAll"},
             request[q].kind # "login"
      PROVE  /\ <<Session(request[q].session), q>> \in locks'
             /\ sessions'[request[q].session].status # "revoked"
  <2>1. request[q].session \in SessionIds
    BY <1>6 DEF SessionsInv, TypeOK, Sent, At
  <2> QED BY <1>0, <1>6, <2>1 DEF Owns, Spares
<1>7. request'[q] = request[q]
  BY DEF Spares
<1> QED BY <1>1, <1>2, <1>3, <1>4, <1>5, <1>6, <1>7 DEF Owns

\* What a request looks like when it goes on, and when it is answered.
LEMMA AfterGoto ==
  ASSUME TypeOK, NEW r \in Requests, NEW pc \in Pcs, Goto(r, pc)
  PROVE  \E new \in Deliveries :
           /\ request' = [request EXCEPT ![r] = new] /\ request'[r] = new
           /\ new.pc = pc /\ new.kind = request[r].kind /\ new.key = request[r].key
           /\ new.session = request[r].session /\ new.body = request[r].body
           /\ new.seen = request[r].seen
<1> DEFINE new == [request[r] EXCEPT !.pc = pc]
<1>1. request \in [Requests -> Deliveries] /\ request[r] \in Deliveries
  BY DEF TypeOK
<1>2. request' = [request EXCEPT ![r] = new]
  BY <1>1 DEF Goto
<1>3. new \in Deliveries
  BY <1>1 DEF Deliveries
<1>4. /\ new.pc = pc /\ new.kind = request[r].kind /\ new.key = request[r].key
      /\ new.session = request[r].session /\ new.body = request[r].body
      /\ new.seen = request[r].seen
  BY <1>1 DEF Deliveries
<1>5. request'[r] = new
  BY <1>1, <1>2
<1> HIDE DEF new
<1> QED BY <1>2, <1>3, <1>4, <1>5

\* An answered request differs from what it was in its place and answer.
LEMMA AfterAnswer ==
  ASSUME TypeOK, NEW r \in Requests, NEW answer \in Nat, Answer(r, answer)
  PROVE  \E new \in Deliveries :
           /\ request' = [request EXCEPT ![r] = new] /\ request'[r] = new
           /\ new.pc = "done" /\ new.answer = answer
           /\ new.kind = request[r].kind /\ new.key = request[r].key
           /\ new.session = request[r].session /\ new.body = request[r].body
<1> DEFINE new == [request[r] EXCEPT !.pc = "done", !.answer = answer]
<1>1. request \in [Requests -> Deliveries] /\ request[r] \in Deliveries
  BY DEF TypeOK
<1>2. request' = [request EXCEPT ![r] = new]
  BY <1>1 DEF Answer
<1>3. "done" \in Pcs
  BY DEF Pcs
<1>4. new \in Deliveries
  BY <1>1, <1>3 DEF Deliveries
<1>5. /\ new.pc = "done" /\ new.answer = answer
      /\ new.kind = request[r].kind /\ new.key = request[r].key
      /\ new.session = request[r].session /\ new.body = request[r].body
  BY <1>1 DEF Deliveries
<1>6. request'[r] = new
  BY <1>1, <1>2
<1> HIDE DEF new
<1> QED BY <1>2, <1>4, <1>5, <1>6

\* A request that was sent keeps the fields of its kind.
LEMMA StaysSent ==
  ASSUME TypeOK, NEW r \in Requests, ~At(r, "idle"),
         request'[r].pc # "idle", request'[r].kind = request[r].kind,
         request'[r].key = request[r].key, request'[r].session = request[r].session,
         request'[r].body = request[r].body
  PROVE  Sent(r)'
BY DEF TypeOK, Sent, At

\* A step of one request that changes no data keeps the invariant if what that
\* request owns afterwards is right.
LEMMA QuietStep ==
  ASSUME SessionsInv, UNCHANGED data, NEW r \in Requests, NEW new \in Deliveries,
         request' = [request EXCEPT ![r] = new], Sent(r)', LocksOK',
         \A row, q : q # r /\ <<row, q>> \in locks => <<row, q>> \in locks',
         Owns(r)', Answered(r)'
  PROVE  SessionsInv'
<1>1. TypeOK /\ request \in [Requests -> Deliveries]
  BY DEF SessionsInv, TypeOK
<1>2. ASSUME NEW q \in Requests, q # r PROVE Owns(q)' /\ Answered(q)' /\ Sent(q)'
  <2>1. request'[q] = request[q]
    BY <1>1, <1>2
  <2>2. Spares(r, q)
    BY <1>2, <2>1 DEF Spares, data
  <2>3. Sent(q)'
    BY <1>1, <2>1 DEF TypeOK, Sent, At
  <2> QED BY <1>2, <2>2, <2>3, Bystander
<1>3. request' \in [Requests -> Deliveries]
  BY <1>1
<1>4. TypeOK'
  BY <1>1, <1>2, <1>3 DEF TypeOK, data
<1>5. ReceiptsOK' /\ ThrottleOK' /\ SessionsMatchPassword'
  BY DEF SessionsInv, ReceiptsOK, ThrottleOK, SessionsMatchPassword, LiveSessions, Live, data
<1> QED BY <1>2, <1>4, <1>5 DEF SessionsInv

\* A refused request.
LEMMA RollbackStep ==
  ASSUME SessionsInv, NEW r \in Requests, NEW answer \in Nat \ {200}, ~At(r, "idle"),
         Rollback(r, answer)
  PROVE  SessionsInv'
<1>1. TypeOK /\ LocksOK
  BY DEF SessionsInv
<1>2. PICK new \in Deliveries :
        /\ request' = [request EXCEPT ![r] = new] /\ request'[r] = new
        /\ new.pc = "done" /\ new.answer = answer
        /\ new.kind = request[r].kind /\ new.key = request[r].key
        /\ new.session = request[r].session /\ new.body = request[r].body
  BY <1>1, AfterAnswer DEF Rollback
<1>3. Sent(r)'
  BY <1>1, <1>2, StaysSent
<1>4. LocksOK' /\ \A row, q : q # r /\ <<row, q>> \in locks => <<row, q>> \in locks'
  BY <1>1, AfterUnlock DEF Rollback
<1>5. Owns(r)' /\ Answered(r)'
  BY <1>2 DEF Owns, Answered, At, Open
<1>6. UNCHANGED data
  BY DEF Rollback
<1> QED BY <1>2, <1>3, <1>4, <1>5, <1>6, QuietStep

\* A committed transaction keeps the invariant if its rows are of the right
\* type, the throttle and the sessions agree with the operator afterwards, and
\* it wrote only rows it owns.
LEMMA CommitStep ==
  ASSUME SessionsInv, NEW r \in Requests, request[r].pc \in Open, NEW answer \in Nat,
         Commit(r, answer),
         operator' \in Versions, sessions' \in [SessionIds -> SessionRows],
         rate' \in [row : BOOLEAN, count : Nat, blocked : BOOLEAN, over : BOOLEAN],
         wrong' \in [guesses : Nat, blocks : Nat],
         ThrottleOK', SessionsMatchPassword',
         rate' = rate \/ <<Rate, r>> \in locks,
         operator' = operator \/ <<Operator, r>> \in locks,
         \A q \in Requests :
           /\ q # r /\ request[q].session \in SessionIds
           /\ <<Session(request[q].session), q>> \in locks
           => (sessions'[request[q].session].status = "revoked" =>
                 sessions[request[q].session].status = "revoked")
  PROVE  SessionsInv'
<1>1. /\ TypeOK /\ LocksOK /\ ReceiptsOK /\ Owns(r)
      /\ request \in [Requests -> Deliveries] /\ "done" \in Pcs /\ ~At(r, "idle")
  BY DEF SessionsInv, TypeOK, Pcs, At, Open
<1> DEFINE receipt == [scope |-> Scope(r), body |-> request[r].body, answer |-> answer]
<1>2. PICK new \in Deliveries :
        /\ request' = [request EXCEPT ![r] = new] /\ request'[r] = new
        /\ new.pc = "done" /\ new.answer = answer
        /\ new.kind = request[r].kind /\ new.key = request[r].key
        /\ new.session = request[r].session /\ new.body = request[r].body
  BY <1>1, AfterAnswer DEF Commit
<1>3. Sent(r)'
  BY <1>1, <1>2, StaysSent
<1>4. LocksOK' /\ \A row, q : q # r /\ <<row, q>> \in locks => <<row, q>> \in locks'
  BY <1>1, AfterUnlock DEF Commit
<1>5. receipts' = receipts \cup {receipt} /\ executed' = executed \cup {<<Scope(r), r>>}
  BY DEF Commit
<1>6. <<Receipt(Scope(r)), r>> \in locks /\ \A c \in receipts : c.scope # Scope(r)
  BY <1>1 DEF Owns
<1>7. Scope(r)' = Scope(r)
  BY <1>2 DEF Scope
<1>8. Owns(r)' /\ Answered(r)'
  <2>1. Owns(r)'
    BY <1>2 DEF Owns, Open
  <2>2. receipt.scope = Scope(r)' /\ receipt.body = request'[r].body
    BY <1>2, <1>7
  <2> QED BY <1>5, <2>1, <2>2 DEF Answered
<1>9. ASSUME NEW q \in Requests, q # r PROVE Owns(q)' /\ Answered(q)' /\ Sent(q)'
  <2>1. request'[q] = request[q]
    BY <1>1, <1>2, <1>9
  <2>2. Spares(r, q)
    BY <1>4, <1>5, <1>6, <1>9, <2>1 DEF Spares
  <2>3. Sent(q)'
    BY <1>1, <2>1 DEF TypeOK, Sent, At
  <2> QED BY <1>9, <2>2, <2>3, Bystander
<1>10. TypeOK'
  <2>1. request' \in [Requests -> Deliveries]
    BY <1>1, <1>2
  <2> QED BY <1>3, <1>9, <2>1 DEF TypeOK
<1>11. ReceiptsOK'
  <2>0. \A c \in receipts' : c.answer \in Nat
    BY <1>1, <1>5 DEF ReceiptsOK
  <2>1. \A c, d \in receipts' : c.scope = d.scope => c = d
    BY <1>1, <1>5, <1>6 DEF ReceiptsOK
  <2>2. ASSUME NEW e \in executed' PROVE \E c \in receipts' : c.scope = e[1]
    <3>1. CASE e \in executed
      BY <1>1, <1>5, <3>1 DEF ReceiptsOK
    <3>2. CASE e = <<Scope(r), r>>
      <4>1. receipt \in receipts' /\ receipt.scope = e[1]
        BY <1>5, <3>2
      <4> QED BY <4>1
    <3> QED BY <1>5, <3>1, <3>2
  <2>3. ASSUME NEW e \in executed PROVE e[1] # Scope(r)
    BY <1>1, <1>6 DEF ReceiptsOK
  <2>4. ASSUME NEW e \in executed', NEW f \in executed', e[1] = f[1] PROVE e = f
    <3>1. <<Scope(r), r>>[1] = Scope(r)
      OBVIOUS
    <3> QED BY <1>1, <1>5, <2>3, <2>4, <3>1 DEF ReceiptsOK
  <2> QED BY <2>0, <2>1, <2>2, <2>4 DEF ReceiptsOK
<1> QED BY <1>4, <1>8, <1>9, <1>10, <1>11 DEF SessionsInv

-----------------------------------------------------------------------------
(* The steps of a request.                                                 *)

\* Going on with one more row lock, or with none.
LEMMA GoOn ==
  ASSUME SessionsInv, UNCHANGED data, NEW r \in Requests, ~At(r, "idle"),
         NEW new \in Deliveries, request' = [request EXCEPT ![r] = new],
         new.kind = request[r].kind, new.key = request[r].key,
         new.session = request[r].session, new.body = request[r].body,
         new.pc # "idle",
         locks' = locks \/ \E row : Lock(row, r),
         Owns(r)', Answered(r)'
  PROVE  SessionsInv'
<1>1. TypeOK /\ LocksOK
  BY DEF SessionsInv
<1>2. request'[r] = new
  BY <1>1 DEF TypeOK
<1>3. Sent(r)'
  BY <1>1, <1>2, StaysSent
<1>4. LocksOK' /\ locks \subseteq locks'
  BY <1>1, AfterLock DEF LocksOK
<1> QED BY <1>3, <1>4, QuietStep

\* The same when only the program counter moves.
LEMMA GotoStep ==
  ASSUME SessionsInv, UNCHANGED data, NEW r \in Requests, ~At(r, "idle"),
         NEW pc \in Pcs \ {"idle", "done"}, Goto(r, pc),
         locks' = locks \/ \E row : Lock(row, r),
         ASSUME Scope(r)' = Scope(r), request'[r].pc = pc,
                request'[r].kind = request[r].kind,
                request'[r].session = request[r].session,
                request'[r].seen = request[r].seen
         PROVE  Owns(r)'
  PROVE  SessionsInv'
<1>1. TypeOK
  BY DEF SessionsInv
<1>2. PICK new \in Deliveries :
        /\ request' = [request EXCEPT ![r] = new] /\ request'[r] = new
        /\ new.pc = pc /\ new.kind = request[r].kind /\ new.key = request[r].key
        /\ new.session = request[r].session /\ new.body = request[r].body
        /\ new.seen = request[r].seen
  BY <1>1, AfterGoto
<1>3. Scope(r)' = Scope(r)
  BY <1>2 DEF Scope
<1>4. Owns(r)'
  BY <1>2, <1>3
<1>5. Answered(r)'
  BY <1>2 DEF Answered, At
<1> QED BY <1>2, <1>4, <1>5, GoOn

\* An answer that leaves the transaction as it is.
LEMMA AnswerStep ==
  ASSUME SessionsInv, UNCHANGED <<data, locks>>, NEW r \in Requests, ~At(r, "idle"),
         NEW answer \in Nat, Answer(r, answer),
         answer = 200 => \E c \in receipts : c.scope = Scope(r) /\ c.body = request[r].body
  PROVE  SessionsInv'
<1>1. TypeOK
  BY DEF SessionsInv
<1>2. PICK new \in Deliveries :
        /\ request' = [request EXCEPT ![r] = new] /\ request'[r] = new
        /\ new.pc = "done" /\ new.answer = answer
        /\ new.kind = request[r].kind /\ new.key = request[r].key
        /\ new.session = request[r].session /\ new.body = request[r].body
  BY <1>1, AfterAnswer
<1>3. Scope(r)' = Scope(r)
  BY <1>2 DEF Scope
<1>4. Owns(r)' /\ Answered(r)'
  BY <1>2, <1>3 DEF Owns, Answered, Open, data
<1> QED BY <1>2, <1>4, GoOn

\* handleAuthenticatedRoute lets the request in, or answers 401.
LEMMA AuthStep ==
  ASSUME SessionsInv, NEW r \in Requests, requireAuthMutationContext(r)
  PROVE  SessionsInv'
<1>1. UNCHANGED <<data, locks>> /\ ~At(r, "idle") /\ "receipt" \in Pcs
  BY DEF requireAuthMutationContext, At, Pcs
<1>2. CASE Goto(r, "receipt")
  <2>1. ASSUME request'[r].pc = "receipt" PROVE Owns(r)'
    BY <2>1 DEF Owns, Open
  <2> QED BY <1>1, <1>2, <2>1, GotoStep
<1>3. CASE Answer(r, 401)
  BY <1>1, <1>3, AnswerStep
<1> QED BY <1>2, <1>3 DEF requireAuthMutationContext

\* A delivery of a key that has a receipt is answered from it; another one
\* inserts the row and holds it.
LEMMA ReceiptStep ==
  ASSUME SessionsInv, NEW r \in Requests, executeIdempotentResponse(r)
  PROVE  SessionsInv'
<1>1. /\ UNCHANGED data /\ ~At(r, "idle") /\ TypeOK /\ LocksOK /\ ReceiptsOK
      /\ request[r].kind \in Kinds
  BY DEF executeIdempotentResponse, At, SessionsInv, TypeOK, Sent
<1>2. CASE \E c \in receipts : /\ c.scope = Scope(r)
                               /\ Answer(r, IF c.body = request[r].body THEN c.answer ELSE 409)
                               /\ UNCHANGED locks
  <2>1. PICK c \in receipts : /\ c.scope = Scope(r)
                              /\ Answer(r, IF c.body = request[r].body THEN c.answer ELSE 409)
                              /\ UNCHANGED locks
    BY <1>2
  <2>2. CASE c.body = request[r].body
    <3>1. Answer(r, c.answer) /\ c.answer \in Nat
      BY <1>1, <2>1, <2>2 DEF ReceiptsOK
    <3> QED BY <1>1, <2>1, <2>2, <3>1, AnswerStep
  <2>3. CASE c.body # request[r].body
    BY <1>1, <2>1, <2>3, AnswerStep
  <2> QED BY <2>2, <2>3
<1>3. CASE /\ \A c \in receipts : c.scope # Scope(r)
           /\ Lock(Receipt(Scope(r)), r) /\ Goto(r, FirstStep(request[r].kind))
  <2> DEFINE pc == FirstStep(request[r].kind)
  <2>1. /\ pc \in {"rate", "effect", "session"} /\ pc \in Pcs \ {"idle", "done"}
        /\ request[r].kind \in KindsOf(pc)
    <3>1. CASE request[r].kind = "login"
      BY <3>1 DEF FirstStep, Pcs, KindsOf
    <3>2. CASE request[r].kind = "mutate"
      BY <3>2 DEF FirstStep, Pcs, KindsOf
    <3>3. CASE request[r].kind \in {"password", "logout", "revoke"}
      BY <3>3 DEF FirstStep, Pcs, KindsOf
    <3> QED BY <1>1, <3>1, <3>2, <3>3, SessionsAssumption
  <2>2. <<Receipt(Scope(r)), r>> \in locks'
    BY <1>1, <1>3, AfterLock
  <2>3. ASSUME Scope(r)' = Scope(r), request'[r].pc = pc, request'[r].kind = request[r].kind
        PROVE  Owns(r)'
    BY <1>1, <1>3, <2>1, <2>2, <2>3 DEF Owns, Receipt, data
  <2> HIDE DEF pc
  <2>4. Goto(r, pc)
    BY <1>3 DEF pc
  <2> QED BY <1>1, <1>3, <2>1, <2>3, <2>4, GotoStep
<1> QED BY <1>2, <1>3 DEF executeIdempotentResponse, InsertReceipt

\* A transaction that commits its receipt and nothing else.
LEMMA CommitNothing ==
  ASSUME SessionsInv, NEW r \in Requests, request[r].pc \in Open, NEW answer \in Nat,
         Commit(r, answer), UNCHANGED <<operator, sessions, rate, wrong>>
  PROVE  SessionsInv'
<1>1. TypeOK /\ ThrottleOK' /\ SessionsMatchPassword'
  BY DEF SessionsInv, ThrottleOK, SessionsMatchPassword, LiveSessions, Live
<1> QED BY <1>1, CommitStep DEF TypeOK

\* A mutation of every other route.
LEMMA MutateStep ==
  ASSUME SessionsInv, NEW r \in Requests, MutationTakesEffect(r)
  PROVE  SessionsInv'
<1>1. request[r].pc \in Open
  BY DEF MutationTakesEffect, At, Open
<1> QED BY <1>1, CommitNothing DEF MutationTakesEffect

\* A login inserts the row of its username, or finds it.
LEMMA InsertRateStep ==
  ASSUME SessionsInv, NEW r \in Requests, InsertRateLimit(r)
  PROVE  SessionsInv'
<1>1. /\ UNCHANGED data /\ ~At(r, "idle") /\ TypeOK /\ LocksOK /\ ThrottleOK /\ Owns(r)
      /\ request[r].pc = "rate" /\ "lockRate" \in Pcs /\ "operator" \in Pcs
  BY DEF InsertRateLimit, At, SessionsInv, Pcs
<1>2. /\ request[r].kind = "login" /\ <<Receipt(Scope(r)), r>> \in locks
      /\ \A c \in receipts : c.scope # Scope(r)
  BY <1>1 DEF Owns, Open, KindsOf
<1>3. CASE rate.row
  <2>1. locks' = locks /\ Goto(r, "lockRate")
    BY <1>3 DEF InsertRateLimit
  <2>2. ASSUME Scope(r)' = Scope(r), request'[r].pc = "lockRate",
               request'[r].kind = request[r].kind
        PROVE  Owns(r)'
    BY <1>1, <1>2, <2>1, <2>2 DEF Owns, KindsOf, Receipt, data
  <2> QED BY <1>1, <2>1, <2>2, GotoStep
<1>4. CASE ~rate.row
  <2>1. Lock(Rate, r) /\ Goto(r, "operator")
    BY <1>4 DEF InsertRateLimit
  <2>2. locks \subseteq locks' /\ <<Rate, r>> \in locks'
    BY <1>1, <2>1, AfterLock
  <2>3. ~normalizeLoginRateLimitState'.blocked
    BY <1>1, <1>4 DEF ThrottleOK, normalizeLoginRateLimitState, NoRate, data
  <2>4. ASSUME Scope(r)' = Scope(r), request'[r].pc = "operator",
               request'[r].kind = request[r].kind
        PROVE  Owns(r)'
    BY <1>1, <1>2, <2>2, <2>3, <2>4 DEF Owns, KindsOf, Receipt, Rate, data
  <2> QED BY <1>1, <2>1, <2>4, GotoStep
<1> QED BY <1>3, <1>4

\* Another login waits for the row, and may find it deleted or blocking.
LEMMA LockRateStep ==
  ASSUME SessionsInv, NEW r \in Requests, lockRateLimit(r)
  PROVE  SessionsInv'
<1>1. /\ ~At(r, "idle") /\ TypeOK /\ LocksOK /\ Owns(r) /\ request[r].pc = "lockRate"
      /\ request[r].pc \in Open /\ "operator" \in Pcs
  BY DEF lockRateLimit, At, SessionsInv, Pcs, Open
<1>2. /\ request[r].kind = "login" /\ <<Receipt(Scope(r)), r>> \in locks
      /\ \A c \in receipts : c.scope # Scope(r)
  BY <1>1 DEF Owns, Open, KindsOf
<1>3. CASE Rollback(r, 500)
  BY <1>1, <1>3, RollbackStep
<1>4. CASE Commit(r, 429) /\ UNCHANGED <<operator, sessions, rate, wrong>>
  BY <1>1, <1>4, CommitNothing
<1>5. CASE /\ ~normalizeLoginRateLimitState.blocked
           /\ Lock(Rate, r) /\ Goto(r, "operator") /\ UNCHANGED data
  <2>1. locks \subseteq locks' /\ <<Rate, r>> \in locks'
    BY <1>1, <1>5, AfterLock
  <2>2. ~normalizeLoginRateLimitState'.blocked
    BY <1>5 DEF normalizeLoginRateLimitState, data
  <2>3. ASSUME Scope(r)' = Scope(r), request'[r].pc = "operator",
               request'[r].kind = request[r].kind
        PROVE  Owns(r)'
    BY <1>2, <1>5, <2>1, <2>2, <2>3 DEF Owns, KindsOf, Receipt, Rate, data
  <2> QED BY <1>1, <1>5, <2>3, GotoStep
<1> QED BY <1>3, <1>4, <1>5 DEF lockRateLimit

\* SELECT ... FOR UPDATE of the operator: what is read stays true.
LEMMA OperatorStep ==
  ASSUME SessionsInv, NEW r \in Requests, LockOperator(r)
  PROVE  SessionsInv'
<1> DEFINE new == [request[r] EXCEPT !.seen = operator,
                     !.pc = IF request[r].kind = "login" THEN "verify" ELSE "change"]
<1>1. /\ UNCHANGED data /\ ~At(r, "idle") /\ TypeOK /\ LocksOK /\ Owns(r)
      /\ request[r].pc = "operator" /\ request[r] \in Deliveries
  BY DEF LockOperator, At, SessionsInv, TypeOK
<1>2. /\ request[r].kind \in {"login", "password"} /\ <<Receipt(Scope(r)), r>> \in locks
      /\ \A c \in receipts : c.scope # Scope(r)
  BY <1>1 DEF Owns, Open, KindsOf
<1>3. Lock(Operator, r)
  BY DEF LockOperator, SelectOperator
<1>4. locks \subseteq locks' /\ <<Operator, r>> \in locks'
  BY <1>1, <1>3, AfterLock
<1>5. new \in Deliveries
  BY <1>1 DEF TypeOK, Deliveries, Pcs
<1>6. /\ new.pc = (IF request[r].kind = "login" THEN "verify" ELSE "change")
      /\ new.kind = request[r].kind /\ new.key = request[r].key
      /\ new.session = request[r].session /\ new.body = request[r].body
      /\ new.seen = operator
  BY <1>1 DEF Deliveries
<1>7. request' = [request EXCEPT ![r] = new] /\ request'[r] = new
  BY <1>1 DEF LockOperator, TypeOK
<1> HIDE DEF new
<1>8. Scope(r)' = Scope(r)
  BY <1>6, <1>7 DEF Scope
<1>9. Answered(r)'
  BY <1>6, <1>7 DEF Answered, At
<1>10. Owns(r)'
  <2>1. CASE request[r].kind = "login"
    <3>1. <<Rate, r>> \in locks' /\ ~normalizeLoginRateLimitState'.blocked
      BY <1>1, <1>4, <2>1 DEF Owns, normalizeLoginRateLimitState, data
    <3>2. new.pc = "verify"
      BY <1>6, <2>1
    <3> QED BY <1>1, <1>2, <1>4, <1>6, <1>7, <1>8, <2>1, <3>1, <3>2
            DEF Owns, KindsOf, Receipt, Rate, Operator, data
  <2>2. CASE request[r].kind = "password"
    <3>1. <<Session(request[r].session), r>> \in locks /\ sessions[request[r].session].status # "revoked"
      BY <1>1, <2>2 DEF Owns
    <3>2. new.pc = "change"
      BY <1>6, <2>2
    <3> QED BY <1>1, <1>2, <1>4, <1>6, <1>7, <1>8, <2>2, <3>1, <3>2
            DEF Owns, KindsOf, Receipt, Session, Operator, data
  <2> QED BY <1>2, <2>1, <2>2
<1> QED BY <1>1, <1>3, <1>5, <1>6, <1>7, <1>9, <1>10, GoOn

\* A login compares the password it read under the operator's lock.
LEMMA LoginStep ==
  ASSUME SessionsInv, NEW r \in Requests, authenticateOperator(r)
  PROVE  SessionsInv'
<1>1. /\ TypeOK /\ ThrottleOK /\ SessionsMatchPassword /\ Owns(r)
      /\ request[r].pc = "verify" /\ request[r].pc \in Open /\ operator' = operator
  BY DEF authenticateOperator, At, SessionsInv, Open
<1>2. request[r].kind = "login" /\ request[r].seen = operator
  BY <1>1 DEF Owns, KindsOf
<1>3. <<Rate, r>> \in locks /\ ~normalizeLoginRateLimitState.blocked
  BY <1>1, <1>2 DEF Owns
<1>4. operator.version \in Nat /\ operator \in Versions /\ sessions \in [SessionIds -> SessionRows]
  BY <1>1 DEF TypeOK, Versions
<1>5. CASE request[r].body = request[r].seen.password
  <2> DEFINE id == NewSession("login", request[r].key)
             row == [status |-> "live", version |-> request[r].seen.version]
  <2>1. /\ sessions' = [sessions EXCEPT ![id] = row]
        /\ rate' = NoRate /\ wrong' = NoneWrong /\ Commit(r, 200)
    BY <1>5 DEF authenticateOperator
  <2>2. row \in SessionRows /\ row.version = operator.version /\ row.status = "live"
    BY <1>2, <1>4 DEF SessionRows
  <2> HIDE DEF id, row
  <2>3. sessions' \in [SessionIds -> SessionRows]
    BY <1>4, <2>1, <2>2
  <2>4. ThrottleOK'
    BY <2>1 DEF ThrottleOK, NoRate, NoneWrong
  <2>5. \A s \in SessionIds : sessions'[s] = sessions[s] \/ sessions'[s] = row
    BY <1>4, <2>1
  <2>6. SessionsMatchPassword'
    BY <1>1, <2>2, <2>5 DEF SessionsMatchPassword, LiveSessions, Live
  <2>7. \A q \in Requests : request[q].session \in SessionIds =>
          (sessions'[request[q].session].status = "revoked" =>
             sessions[request[q].session].status = "revoked")
    BY <1>4, <2>1, <2>2, <2>5
  <2>8. /\ rate' \in [row : BOOLEAN, count : Nat, blocked : BOOLEAN, over : BOOLEAN]
        /\ wrong' \in [guesses : Nat, blocks : Nat]
    BY <2>1 DEF NoRate, NoneWrong
  <2> QED BY <1>1, <1>3, <1>4, <2>1, <2>3, <2>4, <2>6, <2>7, <2>8, CommitStep
<1>6. CASE request[r].body # request[r].seen.password
  <2> DEFINE base == normalizeLoginRateLimitState
             failed == registerLoginFailure(base)
             bad == [guesses |-> IF rate.over THEN 1 ELSE wrong.guesses + 1,
                     blocks |-> IF rate.over THEN 0 ELSE wrong.blocks]
  <2>1. /\ rate' = failed /\ sessions' = sessions
        /\ wrong' = [wrong EXCEPT !.guesses = IF rate.over THEN 1 ELSE @ + 1,
                                  !.blocks = IF rate.over THEN 0 ELSE @]
        /\ Commit(r, IF failed.blocked THEN 429 ELSE 401)
    BY <1>6 DEF authenticateOperator
  <2>2. /\ rate \in [row : BOOLEAN, count : Nat, blocked : BOOLEAN, over : BOOLEAN]
        /\ wrong \in [guesses : Nat, blocks : Nat]
    BY <1>1 DEF TypeOK
  <2>3. wrong' = bad
    BY <2>1, <2>2
  <2>4. base.count \in Nat /\ (~rate.over => base = rate) /\ (rate.over => base.count = 0)
    BY <2>2 DEF normalizeLoginRateLimitState, NoRate
  <2> HIDE DEF base
  <2>5. /\ failed.row = TRUE /\ failed.count = base.count + 1 /\ failed.over = FALSE
        /\ failed.blocked = (base.count + 1 >= MaximumAttempts)
        /\ failed \in [row : BOOLEAN, count : Nat, blocked : BOOLEAN, over : BOOLEAN]
    BY <2>4 DEF registerLoginFailure
  <2> HIDE DEF failed
  <2>6. bad \in [guesses : Nat, blocks : Nat]
    BY <2>2
  <2>7. ThrottleOK'
    <3>1. CASE rate.over
      BY <2>1, <2>3, <2>4, <2>5, <3>1 DEF ThrottleOK
    <3>2. CASE ~rate.over
      <4>1. /\ base.count = wrong.guesses /\ ~rate.blocked
            /\ wrong.guesses < MaximumAttempts + wrong.blocks
            /\ wrong.guesses \in Nat /\ wrong.blocks \in Nat
        BY <1>1, <1>3, <2>2, <2>4, <3>2 DEF ThrottleOK, normalizeLoginRateLimitState
      <4>2. wrong'.guesses = wrong.guesses + 1 /\ wrong'.blocks = wrong.blocks
        BY <2>3, <3>2
      <4> QED BY <2>1, <2>5, <4>1, <4>2 DEF ThrottleOK
    <3> QED BY <3>1, <3>2
  <2> HIDE DEF bad
  <2>8. SessionsMatchPassword'
    BY <1>1, <2>1 DEF SessionsMatchPassword, LiveSessions, Live
  <2>9. PICK answer \in Nat : Commit(r, answer)
    BY <2>1
  <2> QED BY <1>1, <1>3, <1>4, <2>1, <2>3, <2>5, <2>6, <2>7, <2>8, <2>9, CommitStep, ZenonT(60)
<1> QED BY <1>5, <1>6

\* A transaction that revokes a session no other request has locked.
LEMMA RevokeStep ==
  ASSUME SessionsInv, NEW r \in Requests, request[r].pc \in Open, NEW s, Free(Session(s), r),
         sessions' = Revoked({s}), Commit(r, 200), UNCHANGED <<operator, rate, wrong>>
  PROVE  SessionsInv'
<1>1. TypeOK /\ ThrottleOK' /\ SessionsMatchPassword
  BY DEF SessionsInv, ThrottleOK
<1>2. /\ sessions' \in [SessionIds -> SessionRows]
      /\ \A t \in SessionIds : /\ sessions'[t].version = sessions[t].version
                               /\ sessions'[t].status = "live" => sessions[t].status = "live"
                               /\ t # s => sessions'[t] = sessions[t]
  <2> DEFINE revoked(t) == [sessions[t] EXCEPT !.status = "revoked"]
  <2>1. ASSUME NEW t \in SessionIds
        PROVE  sessions'[t] = IF t = s /\ Live(t) THEN revoked(t) ELSE sessions[t]
    BY DEF Revoked
  <2>2. ASSUME NEW t \in SessionIds
        PROVE  /\ revoked(t) \in SessionRows /\ sessions[t] \in SessionRows
               /\ revoked(t).version = sessions[t].version /\ revoked(t).status = "revoked"
    <3>1. sessions[t] \in SessionRows
      BY <1>1 DEF TypeOK
    <3> QED BY <3>1 DEF SessionRows
  <2> HIDE DEF revoked
  <2>3. DOMAIN sessions' = SessionIds /\ sessions' = [t \in SessionIds |-> sessions'[t]]
    BY DEF Revoked
  <2> QED BY <2>1, <2>2, <2>3, ZenonT(60)
<1>3. SessionsMatchPassword'
  BY <1>1, <1>2 DEF SessionsMatchPassword, LiveSessions, Live
<1>4. ASSUME NEW q \in Requests, q # r, request[q].session \in SessionIds,
             <<Session(request[q].session), q>> \in locks,
             sessions'[request[q].session].status = "revoked"
      PROVE  sessions[request[q].session].status = "revoked"
  <2>1. request[q].session # s
    BY <1>4 DEF Free, Holder
  <2> QED BY <1>2, <1>4, <2>1
<1>5. /\ operator' \in Versions /\ wrong' \in [guesses : Nat, blocks : Nat]
      /\ rate' \in [row : BOOLEAN, count : Nat, blocked : BOOLEAN, over : BOOLEAN]
      /\ operator' = operator /\ rate' = rate /\ ThrottleOK'
  BY <1>1 DEF TypeOK
<1>6. sessions' \in [SessionIds -> SessionRows]
  BY <1>2
<1> QED BY <1>3, <1>4, <1>5, <1>6, CommitStep, ZenonT(60)

\* logout, and the requests that keep the session of their operator locked.
LEMMA SessionStep ==
  ASSUME SessionsInv, NEW r \in Requests, requireMutationSession(r)
  PROVE  SessionsInv'
<1> DEFINE s == request[r].session
<1>1. /\ ~At(r, "idle") /\ TypeOK /\ LocksOK /\ ThrottleOK /\ SessionsMatchPassword /\ Owns(r)
      /\ request[r].pc = "session" /\ request[r].pc \in Open
      /\ "operator" \in Pcs /\ "target" \in Pcs /\ Free(Session(s), r)
  BY DEF requireMutationSession, At, SessionsInv, Open, Pcs
<1>2. /\ request[r].kind \in {"logout", "revoke", "password"} /\ <<Receipt(Scope(r)), r>> \in locks
      /\ \A c \in receipts : c.scope # Scope(r)
  BY <1>1 DEF Owns, Open, KindsOf
<1>3. CASE ~loadSession(s)
  <2>1. Rollback(r, 401)
    BY <1>3 DEF requireMutationSession
  <2> QED BY <1>1, <2>1, RollbackStep
<1>4. CASE loadSession(s) /\ request[r].kind = "logout"
  <2>1. sessions' = Revoked({s}) /\ Commit(r, 200) /\ UNCHANGED <<operator, rate, wrong>>
    BY <1>4 DEF requireMutationSession
  <2> QED BY <1>1, <2>1, RevokeStep
<1>5. CASE loadSession(s) /\ request[r].kind # "logout"
  <2> DEFINE pc == IF request[r].kind = "revoke" THEN "target" ELSE "operator"
  <2>1. Lock(Session(s), r) /\ Goto(r, pc) /\ UNCHANGED data
    BY <1>5 DEF requireMutationSession
  <2>2. locks \subseteq locks' /\ <<Session(s), r>> \in locks'
    BY <1>1, <2>1, AfterLock
  <2>3. sessions'[s].status # "revoked"
    BY <1>5, <2>1 DEF loadSession, Live, data
  <2>4. /\ pc \in {"target", "operator"} /\ pc \in Pcs \ {"idle", "done"}
        /\ request[r].kind \in KindsOf(pc) /\ request[r].kind # "login"
    BY <1>1, <1>2, <1>5 DEF KindsOf
  <2> HIDE DEF pc
  <2>5. ASSUME Scope(r)' = Scope(r), request'[r].pc = pc,
               request'[r].kind = request[r].kind, request'[r].session = s
        PROVE  Owns(r)'
    BY <1>2, <2>1, <2>2, <2>3, <2>4, <2>5 DEF Owns, Receipt, Session, data
  <2> QED BY <1>1, <2>1, <2>4, <2>5, GotoStep
<1> QED BY <1>3, <1>4, <1>5

\* The revocation of another session, of one that no other request has locked.
LEMMA RevokeTargetStep ==
  ASSUME SessionsInv, NEW r \in Requests, revokeOperatorSession(r)
  PROVE  SessionsInv'
<1>1. ~At(r, "idle") /\ request[r].pc \in Open /\ Free(Session(request[r].body), r)
  BY DEF revokeOperatorSession, At, Open
<1>2. CASE Rollback(r, 404)
  BY <1>1, <1>2, RollbackStep
<1>3. CASE /\ sessions' = Revoked({request[r].body}) /\ Commit(r, 200)
           /\ UNCHANGED <<operator, rate, wrong>>
  BY <1>1, <1>3, RevokeStep
<1> QED BY <1>2, <1>3 DEF revokeOperatorSession

\* A password change compares the old password with what it read.
LEMMA CheckStep ==
  ASSUME SessionsInv, NEW r \in Requests, CheckPasswords(r)
  PROVE  SessionsInv'
<1>1. /\ ~At(r, "idle") /\ request[r].pc = "change" /\ request[r].pc \in Open /\ Owns(r)
      /\ "revokeAll" \in Pcs
  BY DEF CheckPasswords, At, Open, SessionsInv, Pcs
<1>2. CASE \E answer \in Nat : Commit(r, answer) /\ UNCHANGED <<operator, sessions, rate, wrong>>
  BY <1>1, <1>2, CommitNothing
<1>3. CASE Goto(r, "revokeAll") /\ UNCHANGED <<data, locks>>
  <2>1. request[r].kind = "password"
    BY <1>1 DEF Owns, KindsOf
  <2>2. ASSUME Scope(r)' = Scope(r), request'[r].pc = "revokeAll",
               request'[r].kind = request[r].kind, request'[r].seen = request[r].seen,
               request'[r].session = request[r].session
        PROVE  Owns(r)'
    BY <1>1, <1>3, <2>1, <2>2 DEF Owns, KindsOf, Open, Receipt, Operator, Session, data
  <2> QED BY <1>1, <1>3, <2>2, GotoStep DEF data
<1> QED BY <1>2, <1>3 DEF CheckPasswords

\* A password change locks the live sessions one after the other.
LEMMA LockSessionStep ==
  ASSUME SessionsInv, NEW r \in Requests, LockLiveSession(r)
  PROVE  SessionsInv'
<1>1. /\ TypeOK /\ LocksOK /\ Owns(r) /\ request[r].pc = "revokeAll"
      /\ UNCHANGED <<data, request>> /\ request[r] \in Deliveries /\ ~At(r, "idle")
  BY DEF LockLiveSession, SessionsInv, TypeOK, At
<1>2. PICK s \in LiveSessions : Lock(Session(s), r)
  BY DEF LockLiveSession
<1>3. locks \subseteq locks'
  BY <1>1, <1>2, AfterLock
<1>4. request' = [request EXCEPT ![r] = request[r]]
  BY <1>1 DEF TypeOK
<1>5. Scope(r)' = Scope(r) /\ request'[r] = request[r]
  BY <1>1 DEF Scope
<1>6. Owns(r)' /\ Answered(r)'
  BY <1>1, <1>3, <1>5 DEF Owns, Answered, Open, KindsOf, Receipt, Operator, Session, data, At
<1>7. \E row : Lock(row, r)
  BY <1>2
<1> QED BY <1>1, <1>4, <1>6, <1>7, GoOn

\* With all live sessions locked, the change revokes them and opens one of
\* the new version: every session that is live then matches the password.
LEMMA ChangeStep ==
  ASSUME SessionsInv, NEW r \in Requests, changeOperatorPassword(r)
  PROVE  SessionsInv'
<1> DEFINE id == NewSession("password", request[r].key)
           row == [status |-> "live", version |-> operator.version + 1]
<1>1. /\ TypeOK /\ LocksOK /\ ThrottleOK /\ Owns(r) /\ Sent(r) /\ ~At(r, "idle")
      /\ request[r].pc = "revokeAll" /\ request[r].pc \in Open
  BY DEF changeOperatorPassword, SessionsInv, TypeOK, At, Open
<1>2. /\ operator' = [password |-> request[r].body[2], version |-> operator.version + 1]
      /\ sessions' = [Revoked(LiveSessions) EXCEPT ![id] = row]
      /\ Commit(r, 200) /\ UNCHANGED <<rate, wrong>>
      /\ \A s \in LiveSessions : <<Session(s), r>> \in locks
  BY DEF changeOperatorPassword
<1>3. request[r].kind = "password" /\ <<Operator, r>> \in locks
  BY <1>1 DEF Owns, KindsOf
<1>4. operator' \in Versions
  <2>1. request[r].body \in Passwords \X Passwords
    BY <1>1, <1>3 DEF Sent, BodiesOf
  <2> QED BY <1>1, <1>2, <2>1 DEF TypeOK, Versions
<1>5. row \in SessionRows /\ row.status = "live" /\ row.version = operator'.version
  BY <1>1, <1>2 DEF TypeOK, Versions, SessionRows
<1> HIDE DEF id, row
<1>6. Revoked(LiveSessions) \in [SessionIds -> SessionRows] /\
      \A s \in SessionIds : Revoked(LiveSessions)[s].status # "live"
  BY <1>1 DEF Revoked, LiveSessions, Live, TypeOK, SessionRows
<1>7. /\ sessions' \in [SessionIds -> SessionRows]
      /\ \A s \in SessionIds : sessions'[s] = row \/ sessions'[s] = Revoked(LiveSessions)[s]
  BY <1>2, <1>5, <1>6
<1>8. SessionsMatchPassword'
  BY <1>5, <1>6, <1>7 DEF SessionsMatchPassword, LiveSessions, Live
<1>9. ASSUME NEW q \in Requests, q # r, request[q].session \in SessionIds,
             <<Session(request[q].session), q>> \in locks,
             sessions'[request[q].session].status = "revoked"
      PROVE  sessions[request[q].session].status = "revoked"
  <2>1. request[q].session \notin LiveSessions
    BY <1>1, <1>2, <1>9, OneOwner
  <2>2. Revoked(LiveSessions)[request[q].session] = sessions[request[q].session]
    BY <1>9, <2>1 DEF Revoked
  <2> QED BY <1>5, <1>7, <1>9, <2>2
<1>10. ThrottleOK'
  BY <1>1, <1>2 DEF ThrottleOK
<1> QED BY <1>1, <1>2, <1>3, <1>4, <1>7, <1>8, <1>9, <1>10, CommitStep DEF TypeOK

\* deadlock_timeout ends a request that waits, so one that was sent.
LEMMA VictimStep ==
  ASSUME SessionsInv, NEW r \in Requests, DeadlockVictim(r)
  PROVE  SessionsInv'
<1>1. WaitsFor(r) # {} /\ Rollback(r, 500)
  BY DEF DeadlockVictim
<1>2. WaitedRows(r) # {}
  BY <1>1 DEF WaitsFor
<1>3. ~At(r, "idle")
  BY <1>2 DEF WaitedRows, At
<1> QED BY <1>1, <1>3, RollbackStep

\* Every step of a request keeps the invariant.
LEMMA RequestStep ==
  ASSUME SessionsInv, NEW r \in Requests, Step(r)
  PROVE  SessionsInv'
BY AuthStep, ReceiptStep, MutateStep, InsertRateStep, LockRateStep, OperatorStep, LoginStep,
   SessionStep, RevokeTargetStep, CheckStep, LockSessionStep, ChangeStep, VictimStep DEF Step

-----------------------------------------------------------------------------
(* The browser, the crash of a web process and the clock.                  *)

\* A delivery starts outside every transaction.
LEMMA SendStep ==
  ASSUME SessionsInv, NEW r \in Requests, Send(r)
  PROVE  SessionsInv'
<1>1. PICK kind \in Kinds, key \in Keys : \E session \in Tokens(kind), body \in Bodies(kind) :
        request' = [request EXCEPT ![r] =
          [Idle EXCEPT !.pc = IF kind = "login" THEN "receipt" ELSE "auth",
                       !.kind = kind, !.key = key, !.session = session, !.body = body]]
  BY DEF Send
<1>2. PICK session \in Tokens(kind), body \in Bodies(kind) :
        request' = [request EXCEPT ![r] =
          [Idle EXCEPT !.pc = IF kind = "login" THEN "receipt" ELSE "auth",
                       !.kind = kind, !.key = key, !.session = session, !.body = body]]
  BY <1>1
<1> DEFINE new == [Idle EXCEPT !.pc = IF kind = "login" THEN "receipt" ELSE "auth",
                     !.kind = kind, !.key = key, !.session = session, !.body = body]
<1>3. /\ TypeOK /\ LocksOK /\ UNCHANGED data /\ locks' = locks
      /\ request \in [Requests -> Deliveries]
  BY DEF SessionsInv, TypeOK, Send
<1>4. /\ session \in SessionIds \cup {None} /\ (kind # "login" => session \in SessionIds)
      /\ body \in BodiesOf(kind)
  <2>1. CASE kind = "login"
    BY <2>1 DEF Tokens, Bodies, BodiesOf
  <2>2. CASE kind \in {"password", "revoke"}
    BY <2>2 DEF Tokens, Bodies, BodiesOf
  <2>3. CASE kind \in {"logout", "mutate"}
    BY <2>3 DEF Tokens, Bodies, BodiesOf
  <2> QED BY <2>1, <2>2, <2>3
<1>5. /\ new.pc \in {"receipt", "auth"} /\ new.kind = kind /\ new.key = key
      /\ new.session = session /\ new.body = body
  BY DEF Idle
<1>6. new \in Deliveries
  <2>1. Idle \in Deliveries
    <3>1. None \in BodiesOf("none")
      BY DEF BodiesOf
    <3> QED BY <3>1 DEF Idle, Deliveries, Versions, Pcs
  <2>2. body \in UNION {BodiesOf(k) : k \in Kinds \cup {"none"}}
    BY <1>4
  <2>3. (IF kind = "login" THEN "receipt" ELSE "auth") \in Pcs
    BY DEF Pcs
  <2> QED BY <1>4, <2>1, <2>2, <2>3 DEF Deliveries
<1> HIDE DEF new
<1>7. request' = [request EXCEPT ![r] = new] /\ request'[r] = new
  BY <1>2, <1>3 DEF new
<1>8. Sent(r)' /\ Owns(r)' /\ Answered(r)'
  BY <1>4, <1>5, <1>7 DEF Sent, Owns, Answered, At, Open
<1>9. LocksOK'
  BY <1>3 DEF LocksOK
<1> QED BY <1>3, <1>6, <1>7, <1>8, <1>9, QuietStep

\* A crash undoes the transaction of its request.
LEMMA CrashStep ==
  ASSUME SessionsInv, NEW r \in Requests, CrashRequest(r)
  PROVE  SessionsInv'
<1>1. /\ TypeOK /\ LocksOK /\ UNCHANGED data /\ locks' = Unlocked(r) /\ ~At(r, "idle")
      /\ Goto(r, "lost") /\ "lost" \in Pcs
  BY DEF SessionsInv, CrashRequest, At, Pcs
<1>2. PICK new \in Deliveries :
        /\ request' = [request EXCEPT ![r] = new] /\ request'[r] = new
        /\ new.pc = "lost" /\ new.kind = request[r].kind /\ new.key = request[r].key
        /\ new.session = request[r].session /\ new.body = request[r].body
        /\ new.seen = request[r].seen
  BY <1>1, AfterGoto
<1>3. Sent(r)'
  BY <1>1, <1>2, StaysSent
<1>4. Owns(r)' /\ Answered(r)'
  BY <1>2 DEF Owns, Answered, At, Open
<1>5. LocksOK' /\ \A row, q : q # r /\ <<row, q>> \in locks => <<row, q>> \in locks'
  BY <1>1, AfterUnlock
<1> QED BY <1>1, <1>2, <1>3, <1>4, <1>5, QuietStep

\* The window and the block of the throttle end while no login has its row,
\* and a session expires.
LEMMA ClockStep ==
  ASSUME SessionsInv, WindowEnds \/ BlockEnds \/ SessionExpires
  PROVE  SessionsInv'
<1>1. /\ TypeOK /\ LocksOK /\ ReceiptsOK /\ ThrottleOK /\ SessionsMatchPassword
      /\ rate \in [row : BOOLEAN, count : Nat, blocked : BOOLEAN, over : BOOLEAN]
      /\ wrong \in [guesses : Nat, blocks : Nat]
      /\ sessions \in [SessionIds -> SessionRows]
  BY DEF SessionsInv, TypeOK
<1>2. UNCHANGED <<operator, receipts, locks, request, executed>>
  BY DEF WindowEnds, BlockEnds, SessionExpires
<1>3. rate' = rate \/ Holder(Rate) = {}
  BY DEF WindowEnds, BlockEnds, SessionExpires
<1>4. /\ sessions' \in [SessionIds -> SessionRows]
      /\ \A s \in SessionIds :
           /\ sessions'[s].version = sessions[s].version
           /\ sessions'[s].status = "live" => sessions[s].status = "live"
           /\ sessions'[s].status = "revoked" => sessions[s].status = "revoked"
  <2>1. CASE sessions' = sessions
    BY <1>1, <2>1
  <2>2. CASE SessionExpires
    <3>1. PICK s \in SessionIds : sessions' = [sessions EXCEPT ![s].status = "expired"]
      BY <2>2 DEF SessionExpires
    <3> DEFINE row == [sessions[s] EXCEPT !.status = "expired"]
    <3>2. row \in SessionRows /\ row.version = sessions[s].version /\ row.status = "expired"
      BY <1>1 DEF SessionRows
    <3>3. sessions' = [sessions EXCEPT ![s] = row]
      BY <1>1, <3>1
    <3> HIDE DEF row
    <3> QED BY <1>1, <3>2, <3>3
  <2> QED BY <2>1, <2>2 DEF WindowEnds, BlockEnds
<1>5. /\ rate' \in [row : BOOLEAN, count : Nat, blocked : BOOLEAN, over : BOOLEAN]
      /\ wrong' \in [guesses : Nat, blocks : Nat]
      /\ ThrottleOK'
  <2>1. CASE WindowEnds
    <3>1. /\ rate' = [rate EXCEPT !.over = TRUE] /\ wrong' = wrong /\ rate.row
      BY <2>1 DEF WindowEnds
    <3>2. rate'.over /\ rate'.row /\ rate'.blocked = rate.blocked
      BY <1>1, <3>1
    <3> QED BY <1>1, <3>1, <3>2 DEF ThrottleOK
  <2>2. CASE BlockEnds
    <3>1. /\ rate' = [rate EXCEPT !.blocked = FALSE]
          /\ wrong' = [wrong EXCEPT !.blocks = @ + 1] /\ rate.blocked
      BY <2>2 DEF BlockEnds
    <3>2. /\ rate'.row = rate.row /\ rate'.over = rate.over /\ rate'.count = rate.count
          /\ ~rate'.blocked /\ wrong'.guesses = wrong.guesses
          /\ wrong'.blocks = wrong.blocks + 1
      BY <1>1, <3>1
    <3>3. rate.row
      BY <1>1, <3>1 DEF ThrottleOK, NoRate
    <3>4. wrong.guesses <= MaximumAttempts + wrong.blocks
      BY <1>1, <3>1 DEF ThrottleOK
    <3>5. ThrottleOK'
      BY <1>1, <3>2, <3>3, <3>4 DEF ThrottleOK
    <3>6. rate' \in [row : BOOLEAN, count : Nat, blocked : BOOLEAN, over : BOOLEAN]
      BY <1>1, <3>1
    <3>7. wrong' \in [guesses : Nat, blocks : Nat]
      <4>1. wrong.blocks + 1 \in Nat /\ wrong' = [wrong EXCEPT !.blocks = wrong.blocks + 1]
        BY <1>1, <3>1
      <4> QED BY <1>1, <4>1
    <3> QED BY <3>5, <3>6, <3>7
  <2>3. CASE SessionExpires
    BY <1>1, <2>3 DEF SessionExpires, ThrottleOK
  <2> QED BY <2>1, <2>2, <2>3
<1>6. TypeOK'
  BY <1>1, <1>2, <1>4, <1>5 DEF TypeOK, Sent, At
<1>7. SessionsMatchPassword'
  BY <1>1, <1>2, <1>4 DEF SessionsMatchPassword, LiveSessions, Live
<1>8. LocksOK' /\ ReceiptsOK'
  BY <1>1, <1>2 DEF LocksOK, ReceiptsOK
<1>9. ASSUME NEW r \in Requests PROVE Owns(r)' /\ Answered(r)'
  <2>1. Owns(r) /\ Answered(r) /\ Sent(r)
    BY DEF SessionsInv, TypeOK
  <2>2. Scope(r)' = Scope(r) /\ UNCHANGED <<request, receipts, locks, operator>>
    BY <1>2 DEF Scope
  <2>3. Answered(r)'
    BY <2>1, <2>2 DEF Answered, At
  <2>4. <<Rate, r>> \in locks => rate' = rate
    BY <1>3 DEF Holder
  <2>5. request[r].session \in SessionIds /\ sessions[request[r].session].status # "revoked"
        => sessions'[request[r].session].status # "revoked"
    BY <1>4
  <2>6. request[r].pc # "idle" /\ request[r].kind # "login" => request[r].session \in SessionIds
    BY <2>1 DEF Sent, At
  <2>7. Owns(r)'
    BY <2>1, <2>2, <2>4, <2>5, <2>6 DEF Owns, normalizeLoginRateLimitState
  <2> QED BY <2>3, <2>7
<1> QED BY <1>6, <1>7, <1>8, <1>5, <1>9 DEF SessionsInv

-----------------------------------------------------------------------------
(* The theorems.                                                           *)

\* Before the first request: nothing is locked, and the open sessions were
\* opened with the first password.
LEMMA InitInv == Init => SessionsInv
<1> SUFFICES ASSUME Init PROVE SessionsInv
  OBVIOUS
<1>1. request = [r \in Requests |-> Idle] /\ \A r \in Requests : request[r].pc = "idle"
  BY DEF Init, Idle
<1>2. Idle \in Deliveries
  <2>1. None \in BodiesOf("none")
    BY DEF BodiesOf
  <2> QED BY <2>1 DEF Idle, Deliveries, Versions, Pcs
<1>3. sessions \in [SessionIds -> SessionRows] /\ \A s \in SessionIds : sessions[s].version = 0
  <2>1. NoSession \in SessionRows /\ NoSession.version = 0
    BY DEF NoSession, SessionRows
  <2>2. [NoSession EXCEPT !.status = "live"] \in SessionRows
        /\ [NoSession EXCEPT !.status = "live"].version = 0
    BY DEF NoSession, SessionRows
  <2>3. sessions = [s \in SessionIds |->
           IF s \in OpenSessions THEN [NoSession EXCEPT !.status = "live"] ELSE NoSession]
    BY DEF Init
  <2> HIDE DEF NoSession
  <2> QED BY <2>1, <2>2, <2>3
<1>4. TypeOK
  BY <1>1, <1>2, <1>3 DEF Init, TypeOK, Sent, At, Versions, NoRate, NoneWrong
<1>5. LocksOK /\ ReceiptsOK /\ SessionsMatchPassword
  BY <1>3 DEF Init, LocksOK, ReceiptsOK, SessionsMatchPassword, LiveSessions
<1>6. ThrottleOK
  BY DEF Init, ThrottleOK, NoRate, NoneWrong
<1>7. \A r \in Requests : Owns(r) /\ Answered(r)
  BY <1>1 DEF Owns, Answered, At, Open
<1> QED BY <1>4, <1>5, <1>6, <1>7 DEF SessionsInv

\* Every step keeps the invariant.
LEMMA StepInv == SessionsInv /\ [Next]_vars => SessionsInv'
<1> SUFFICES ASSUME SessionsInv, [Next]_vars PROVE SessionsInv'
  OBVIOUS
<1>1. CASE UNCHANGED vars
  <2> USE <1>1 DEF vars
  <2>1. TypeOK'
    BY DEF SessionsInv, TypeOK, Sent, At
  <2>2. LocksOK' /\ ReceiptsOK' /\ ThrottleOK'
    BY DEF SessionsInv, LocksOK, ReceiptsOK, ThrottleOK
  <2>3. SessionsMatchPassword'
    BY DEF SessionsInv, SessionsMatchPassword, LiveSessions, Live
  <2>4. ASSUME NEW r \in Requests PROVE Owns(r)' /\ Answered(r)'
    <3>1. Owns(r) /\ Answered(r)
      BY DEF SessionsInv
    <3>2. Scope(r)' = Scope(r)
      BY DEF Scope
    <3> QED BY <3>1, <3>2 DEF Owns, Answered, At, normalizeLoginRateLimitState
  <2> QED BY <2>1, <2>2, <2>3, <2>4 DEF SessionsInv
<1>2. CASE \E r \in Requests : Send(r) \/ Step(r) \/ CrashRequest(r)
  BY <1>2, SendStep, RequestStep, CrashStep
<1>3. CASE WindowEnds \/ BlockEnds \/ SessionExpires
  BY <1>3, ClockStep
<1> QED BY <1>1, <1>2, <1>3 DEF Next, AllEnded

\* Rows, requests and locks are as the code may find them, whatever the
\* requests of a browser, the crashes and the waits.
THEOREM SessionsInvariant == Spec => []SessionsInv
<1> QED BY InitInv, StepInv, PTL DEF Spec

\* changeOperatorPassword leaves no live session of an earlier password.
THEOREM SessionsMatchPasswordHolds == Spec => []SessionsMatchPassword
<1>1. SessionsInv => SessionsMatchPassword
  BY DEF SessionsInv
<1> QED BY <1>1, SessionsInvariant, PTL

\* executeIdempotentResponse: one execution for each key, and one answer.
THEOREM KeyTakesEffectOnceHolds == Spec => []KeyTakesEffectOnce
<1>1. SessionsInv => KeyTakesEffectOnce
  <2> SUFFICES ASSUME SessionsInv PROVE KeyTakesEffectOnce
    OBVIOUS
  <2>1. ASSUME NEW r \in Requests, NEW q \in Requests, At(r, "done"), At(q, "done"),
               Scope(r) = Scope(q), request[r].answer = 200, request[q].answer = 200
        PROVE  request[r].body = request[q].body
    <3>1. PICK c \in receipts : c.scope = Scope(r) /\ c.body = request[r].body
      BY <2>1 DEF SessionsInv, Answered
    <3>2. PICK d \in receipts : d.scope = Scope(q) /\ d.body = request[q].body
      BY <2>1 DEF SessionsInv, Answered
    <3>3. c = d
      BY <2>1, <3>1, <3>2 DEF SessionsInv, ReceiptsOK
    <3> QED BY <3>1, <3>2, <3>3
  <2> QED BY <2>1 DEF SessionsInv, ReceiptsOK, KeyTakesEffectOnce
<1> QED BY <1>1, SessionsInvariant, PTL

\* The login throttle: no more wrong passwords in a window than it allows.
THEOREM WrongPasswordsBoundedHolds == Spec => []WrongPasswordsBounded
<1>1. SessionsInv => WrongPasswordsBounded
  BY DEF SessionsInv, TypeOK, ThrottleOK, WrongPasswordsBounded
<1> QED BY <1>1, SessionsInvariant, PTL

\* A request that commits has its session locked and not revoked, or needs none.
LEMMA StepInert ==
  ASSUME SessionsInv, NEW q \in Requests, Step(q), NEW r \in Requests
  PROVE  ~RevokedSessionActs(r)
<1> SUFFICES ASSUME RevokedSessionActs(r) PROVE FALSE
  OBVIOUS
<1>1. /\ request[r].kind \in {"logout", "revoke", "password"}
      /\ sessions[request[r].session].status = "revoked"
      /\ request'[r].pc = "done" /\ request[r].pc # "done" /\ executed' # executed
      /\ Owns(r) /\ request \in [Requests -> Deliveries]
  BY DEF RevokedSessionActs, At, SessionsInv, TypeOK
<1>2. q = r
  <2>1. \/ request' = request
        \/ \E pc : Goto(q, pc)
        \/ \E answer : Answer(q, answer)
        \/ LockOperator(q)
    BY DEF Step, requireAuthMutationContext, executeIdempotentResponse, MutationTakesEffect,
       InsertRateLimit, lockRateLimit, authenticateOperator, requireMutationSession,
       revokeOperatorSession, CheckPasswords, LockLiveSession, changeOperatorPassword,
       DeadlockVictim, Rollback, Commit
  <2> QED BY <1>1, <2>1 DEF Goto, Answer, LockOperator
<1>3. CASE request[r].pc \in {"effect", "rate", "lockRate", "verify"}
  BY <1>1, <1>3 DEF Owns, Open, KindsOf
<1>7. CASE request[r].pc \in {"target", "change", "revokeAll"}
  BY <1>1, <1>7 DEF Owns
<1>4. CASE request[r].pc = "operator"
  BY <1>1, <1>4 DEF Owns, Open, KindsOf
<1>5. CASE request[r].pc = "session"
  <2>1. requireMutationSession(r)
    BY <1>1, <1>2, <1>5 DEF Step, requireMutationSession, requireAuthMutationContext,
       executeIdempotentResponse, MutationTakesEffect, InsertRateLimit, lockRateLimit,
       LockOperator, authenticateOperator, revokeOperatorSession, CheckPasswords,
       LockLiveSession, changeOperatorPassword, DeadlockVictim, Rollback, At, data
  <2> QED BY <1>1, <2>1 DEF requireMutationSession, loadSession, Live, Rollback, data
<1>6. CASE request[r].pc \notin Open
  BY <1>1, <1>2, <1>6 DEF Step, requireMutationSession, requireAuthMutationContext,
     executeIdempotentResponse, MutationTakesEffect, InsertRateLimit, lockRateLimit,
     LockOperator, authenticateOperator, revokeOperatorSession, CheckPasswords,
     LockLiveSession, changeOperatorPassword, DeadlockVictim, Rollback, At, data, Open
<1> QED BY <1>3, <1>4, <1>5, <1>6, <1>7 DEF Open

\* A revoked session ends no session and changes no password.
THEOREM RevokedSessionsInertHolds == Spec => RevokedSessionsInert
<1>1. ASSUME SessionsInv, [Next]_vars
      PROVE  [\A r \in Requests : ~RevokedSessionActs(r)]_vars
  <2>1. ASSUME NEW r \in Requests, NEW q \in Requests, Send(q) \/ CrashRequest(q)
        PROVE  ~RevokedSessionActs(r)
    BY <2>1 DEF Send, CrashRequest, RevokedSessionActs, data
  <2>2. ASSUME NEW r \in Requests, WindowEnds \/ BlockEnds \/ SessionExpires
        PROVE  ~RevokedSessionActs(r)
    BY <2>2 DEF WindowEnds, BlockEnds, SessionExpires, RevokedSessionActs
  <2> QED BY <1>1, <2>1, <2>2, StepInert DEF Next, AllEnded
<1> QED BY <1>1, SessionsInvariant, PTL DEF Spec, RevokedSessionsInert
=============================================================================

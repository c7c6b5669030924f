-------------------------- MODULE StatementsProofs --------------------------
(***************************************************************************)
(* Proofs about Statements, for any number of statements, retries, rows    *)
(* and requests, and wherever the allocator puts the streams.              *)
(***************************************************************************)
EXTENDS Statements, TLAPS

(* Where sendRequest is and what it has done so far.                       *)
ProgressInv ==
  /\ step = "idle" <=> busy = NoStmt
  /\ step # "idle" => sender = busy /\ ~stmt[busy].cursor
  /\ step = "peek" => attempt = 1 /\ runs = 0
  /\ step = "send" => runs < attempt
  /\ step = "receive" => 1 <= runs /\ runs <= attempt
  /\ runs <= RetryCount + 1

(* What holds whatever the application does.                               *)
StatementsInv == TypeOK /\ ProgressInv

(* The statements of a tidy application.  A closed one points nowhere; one *)
(* that is not closed is the last that sent a request, and while it is     *)
(* executed it points nowhere yet.                                         *)
ClosedInv ==
  /\ \A s \in Stmts : stmt[s].closed => stmt[s].in = Null /\ ~stmt[s].cursor
  /\ \A s \in Stmts : ~stmt[s].closed => sender = s
  /\ step # "idle" => ~stmt[busy].closed /\ stmt[busy].in = Null

(* Whoever points somewhere points to the stream of the session, and its   *)
(* rows are the ones it is owed.                                           *)
OwnerInv == \A s \in Stmts :
  /\ stmt[s].in # Null => stmt[s].in = live /\ stmt[s].origin = reply
  /\ stmt[s].cursor => /\ stmt[s].in # Null /\ ~cut
                       /\ stmt[s].owed = stmt[s].cached + unread
  /\ stmt[s].ret = "NO_DATA" => stmt[s].owed = 0

(* The socket is clean whenever a request is about to be sent.             *)
WireInv ==
  /\ ~leftover
  /\ step \in {"peek", "send"} => socket = "closed" \/ ended
  /\ step = "idle" /\ AllClosed => socket = "closed" \/ ended

(* What holds as long as the application is tidy.                          *)
TidyInv == tidy => ~undefined /\ ClosedInv /\ OwnerInv /\ WireInv

(* A statement that an action replaces, and the others.                    *)
LEMMA Replaced ==
  ASSUME NEW f \in [Stmts -> Statement], NEW s \in Stmts, NEW r \in Statement
  PROVE  /\ [f EXCEPT ![s] = r] \in [Stmts -> Statement]
         /\ [f EXCEPT ![s] = r][s] = r
         /\ \A t \in Stmts \ {s} : [f EXCEPT ![s] = r][t] = f[t]
  OBVIOUS

-----------------------------------------------------------------------------
(* What each kind of step does to the statements.                          *)

(* The calls that neither send a request nor close a statement.            *)
Quiet(s) == Prepare(s) \/ FetchFindsEnd(s) \/ FetchFindsTornRow(s) \/ FetchDangling(s)

(* They leave pointers and rows alone.                                     *)
QuietChange(s) ==
  /\ stmt' \in [Stmts -> Statement]
  /\ \A t \in Stmts \ {s} : stmt'[t] = stmt[t]
  /\ stmt'[s].in = stmt[s].in /\ stmt'[s].origin = stmt[s].origin
  /\ stmt'[s].cursor = stmt[s].cursor /\ stmt'[s].closed = stmt[s].closed
  /\ stmt'[s].cached = stmt[s].cached /\ stmt'[s].owed = stmt[s].owed
  /\ stmt'[s].ret = "NO_DATA" => FetchFindsEnd(s) \/ FetchDangling(s)

LEMMA QuietEffect ==
  ASSUME stmt \in [Stmts -> Statement], NEW s \in Stmts, Quiet(s)
  PROVE  QuietChange(s)
<1>1. stmt[s] \in Statement
  OBVIOUS
<1>2. CASE Prepare(s)
  <2> DEFINE r == IF stmt[s].query THEN Returned(stmt[s], "ERROR")
                  ELSE [Returned(stmt[s], "SUCCESS") EXCEPT !.query = TRUE, !.prepared = TRUE,
                                                            !.fresh = FALSE]
  <2>1. r \in Statement
    BY <1>1 DEF Statement, Returned
  <2>2. /\ r.in = stmt[s].in /\ r.origin = stmt[s].origin /\ r.cursor = stmt[s].cursor
        /\ r.closed = stmt[s].closed /\ r.cached = stmt[s].cached /\ r.owed = stmt[s].owed
        /\ r.ret # "NO_DATA"
    BY <1>1 DEF Statement, Returned
  <2>3. stmt' = [stmt EXCEPT ![s] = r]
    BY <1>2 DEF Prepare
  <2> HIDE DEF r
  <2> QED
    BY <2>1, <2>2, <2>3, Replaced DEF QuietChange
<1>3. CASE FetchFindsEnd(s) \/ FetchFindsTornRow(s) \/ FetchDangling(s)
  <2>1. PICK c \in {"SUCCESS", "NO_DATA", "ERROR"} :
          /\ stmt' = [stmt EXCEPT ![s] = Returned(stmt[s], c)]
          /\ c = "NO_DATA" => FetchFindsEnd(s) \/ FetchDangling(s)
    BY <1>3 DEF FetchFindsEnd, FetchFindsTornRow, FetchDangling
  <2> DEFINE r == Returned(stmt[s], c)
  <2>2. r \in Statement
    BY <1>1 DEF Statement, Returned
  <2>3. /\ r.in = stmt[s].in /\ r.origin = stmt[s].origin /\ r.cursor = stmt[s].cursor
        /\ r.closed = stmt[s].closed /\ r.cached = stmt[s].cached /\ r.owed = stmt[s].owed
        /\ r.ret = c
    BY <1>1 DEF Statement, Returned
  <2>4. stmt' = [stmt EXCEPT ![s] = r]
    BY <2>1
  <2> HIDE DEF r
  <2> QED
    BY <2>1, <2>2, <2>3, <2>4, Replaced DEF QuietChange
<1> QED
  BY <1>2, <1>3 DEF Quiet

(* SQLFetch finds a row.                                                   *)
FetchChange(s) ==
  /\ stmt' \in [Stmts -> Statement]
  /\ \A t \in Stmts \ {s} : stmt'[t] = stmt[t]
  /\ stmt'[s].in = stmt[s].in /\ stmt'[s].origin = stmt[s].origin
  /\ stmt'[s].cursor = stmt[s].cursor /\ stmt'[s].closed = stmt[s].closed
  /\ stmt'[s].owed = stmt[s].owed - 1
  /\ stmt'[s].cached = (IF stmt[s].cached > 0 THEN stmt[s].cached - 1
                        ELSE Least(unread, CacheSize) - 1)
  /\ stmt'[s].ret = "SUCCESS"

LEMMA FetchEffect ==
  ASSUME StatementsInv, NEW s \in Stmts, FetchCached(s) \/ FetchReads(s)
  PROVE  FetchChange(s)
<1> DEFINE c == IF stmt[s].cached > 0 THEN stmt[s].cached - 1 ELSE Least(unread, CacheSize) - 1
           r == OneRow(stmt[s], c)
<1>1. /\ stmt \in [Stmts -> Statement] /\ stmt[s] \in Statement /\ stmt[s].cached \in Nat
      /\ unread \in Nat /\ CacheSize \in Nat \ {0}
  BY StatementsAssumption, HttpSessionAssumption
     DEF StatementsInv, TypeOK, HttpTypeOK, HttpValues, Statement
<1>2. c \in Nat
  BY <1>1 DEF FetchCached, FetchReads, Least
<1>3. stmt' = [stmt EXCEPT ![s] = r]
  <2>1. CASE FetchCached(s)
    BY <2>1 DEF FetchCached
  <2>2. CASE FetchReads(s)
    BY <2>2 DEF FetchReads
  <2> QED
    BY <2>1, <2>2
<1> HIDE DEF c
<1>4. r \in Statement
  <2>1. Returned(stmt[s], "SUCCESS") \in Statement /\ stmt[s].owed - 1 \in Int
    BY <1>1 DEF Statement, Returned
  <2> QED
    BY <1>2, <2>1 DEF Statement, OneRow
<1>5. /\ r.in = stmt[s].in /\ r.origin = stmt[s].origin /\ r.cursor = stmt[s].cursor
      /\ r.closed = stmt[s].closed /\ r.owed = stmt[s].owed - 1 /\ r.cached = c
      /\ r.ret = "SUCCESS"
  BY <1>1 DEF Statement, Returned, OneRow
<1> HIDE DEF r
<1>6. /\ stmt' \in [Stmts -> Statement] /\ stmt'[s] = r
      /\ \A t \in Stmts \ {s} : stmt'[t] = stmt[t]
  BY <1>1, <1>3, <1>4, Replaced
<1> QED
  BY <1>5, <1>6 DEF FetchChange, c

(* A request begins.                                                       *)
StartChange(s) ==
  /\ stmt' \in [Stmts -> Statement]
  /\ \A t \in Stmts \ {s} : stmt'[t] = stmt[t]
  /\ stmt'[s].in = stmt[s].in /\ stmt'[s].origin = stmt[s].origin
  /\ stmt'[s].cursor = stmt[s].cursor
  /\ ~stmt'[s].closed /\ stmt'[s].ret = "RUNNING"

LEMMA StartEffect ==
  ASSUME stmt \in [Stmts -> Statement], NEW s \in Stmts, NEW p \in BOOLEAN, StartRequest(s, p)
  PROVE  StartChange(s)
<1>1. stmt[s] \in Statement
  OBVIOUS
<1> DEFINE r == [Returned(stmt[s], "RUNNING") EXCEPT
                   !.query = TRUE, !.prepared = p, !.closed = FALSE, !.fresh = FALSE]
<1>2. r \in Statement
  BY <1>1 DEF Statement, Returned
<1>3. /\ r.in = stmt[s].in /\ r.origin = stmt[s].origin /\ r.cursor = stmt[s].cursor
      /\ ~r.closed /\ r.ret = "RUNNING"
  BY <1>1 DEF Statement, Returned
<1>4. stmt' = [stmt EXCEPT ![s] = r]
  BY DEF StartRequest
<1> HIDE DEF r
<1> QED
  BY <1>2, <1>3, <1>4, Replaced DEF StartChange

(* A request fails for good.                                               *)
GiveUpChange ==
  /\ stmt' \in [Stmts -> Statement]
  /\ \A t \in Stmts \ {busy} : stmt'[t] = stmt[t]
  /\ stmt'[busy].in = stmt[busy].in /\ stmt'[busy].cursor = stmt[busy].cursor
  /\ stmt'[busy].closed = stmt[busy].closed /\ stmt'[busy].ret = "ERROR"

LEMMA GiveUpEffect ==
  ASSUME stmt \in [Stmts -> Statement], busy \in Stmts, GiveUp
  PROVE  GiveUpChange
<1> DEFINE r == Returned(stmt[busy], "ERROR")
<1>1. stmt[busy] \in Statement
  OBVIOUS
<1>2. r \in Statement
  BY <1>1 DEF Statement, Returned
<1>3. /\ r.in = stmt[busy].in /\ r.cursor = stmt[busy].cursor
      /\ r.closed = stmt[busy].closed /\ r.ret = "ERROR"
  BY <1>1 DEF Statement, Returned
<1>4. stmt' = [stmt EXCEPT ![busy] = r]
  BY DEF GiveUp
<1> HIDE DEF r
<1> QED
  BY <1>2, <1>3, <1>4, Replaced DEF GiveUpChange

(* A response arrives.                                                     *)
Answer ==
  \/ ReceiveErrorStatus
  \/ ReceiveNoResultSet
  \/ \E n \in 0 .. MaxRows : ReceiveRows(n)
  \/ \E n \in 0 .. MaxRows, k \in 0 .. CacheSize : ReceiveThrows(n, k)

AnswerChange ==
  /\ stmt' \in [Stmts -> Statement]
  /\ \A t \in Stmts \ {busy} : stmt'[t] = stmt[t]
  /\ stmt'[busy].in = live' /\ stmt'[busy].origin = request
  /\ stmt'[busy].closed = stmt[busy].closed /\ stmt'[busy].ret # "NO_DATA"
  /\ stmt'[busy].cursor => stmt'[busy].owed = stmt'[busy].cached + unread'

(* What it does to the session.                                            *)
AnswerSession ==
  /\ step = "receive" /\ step' = "idle" /\ busy' = NoStmt
  /\ HttpTypeOK' /\ live' # Null /\ reply' = request /\ ~cut'
  /\ UNCHANGED <<socket, leftover, attempt, runs, request, sender, undefined, tidy>>

LEMMA ResponseTyped ==
  ASSUME HttpTypeOK, NEW r \in Nat, NEW n \in 0 .. MaxRows, NEW k \in Nat,
         ReceiveResponse(r, n, k)
  PROVE  /\ HttpTypeOK' /\ live' \in Addresses /\ live' # Null /\ reply' = r /\ ~cut'
         /\ unread' = (IF n < k THEN 0 ELSE n - k) /\ UNCHANGED <<socket, leftover>>
<1> USE HttpSessionAssumption
<1>1. HttpValues'
  BY DEF HttpTypeOK, HttpValues, ReceiveResponse
<1>2. ended' = TRUE \/ ended' = FALSE
  BY DEF ReceiveResponse
<1>3. HttpFlags'
  BY <1>2 DEF HttpTypeOK, HttpFlags, ReceiveResponse
<1> QED
  BY <1>1, <1>3 DEF HttpTypeOK, ReceiveResponse

LEMMA AnswerEffect ==
  ASSUME StatementsInv, Answer
  PROVE  AnswerChange /\ AnswerSession
<1> USE StatementsAssumption, HttpSessionAssumption
<1>1. step = "receive"
  BY DEF Answer, ReceiveErrorStatus, ReceiveNoResultSet, ReceiveRows, ReceiveThrows
<1>2. /\ busy \in Stmts /\ stmt \in [Stmts -> Statement] /\ stmt[busy] \in Statement
      /\ ~stmt[busy].cursor /\ request \in Nat /\ HttpTypeOK /\ CacheSize \in Nat \ {0}
      /\ 0 \in 0 .. MaxRows
  BY <1>1 DEF StatementsInv, ProgressInv, TypeOK
<1>3. ASSUME NEW n \in 0 .. MaxRows, NEW k \in Nat, ReceiveResponse(request, n, k),
             NEW r \in Statement, stmt' = [stmt EXCEPT ![busy] = r],
             r.in = live', r.origin = request, r.closed = stmt[busy].closed,
             r.ret # "NO_DATA", r.cursor => r.owed = r.cached + (IF n < k THEN 0 ELSE n - k),
             busy' = NoStmt, step' = "idle",
             UNCHANGED <<attempt, runs, request, sender, undefined, tidy>>
      PROVE  AnswerChange /\ AnswerSession
  <2>1. /\ stmt' \in [Stmts -> Statement] /\ stmt'[busy] = r
        /\ \A t \in Stmts \ {busy} : stmt'[t] = stmt[t]
    BY <1>2, <1>3, Replaced
  <2>2. /\ HttpTypeOK' /\ live' # Null /\ reply' = request /\ ~cut'
        /\ unread' = (IF n < k THEN 0 ELSE n - k) /\ UNCHANGED <<socket, leftover>>
    BY <1>2, <1>3, ResponseTyped
  <2>3. AnswerSession
    BY <1>1, <1>3, <2>2 DEF AnswerSession
  <2>4. AnswerChange
    BY <1>3, <2>1, <2>2 DEF AnswerChange
  <2> QED
    BY <2>3, <2>4
<1>4. ASSUME NEW n \in 0 .. MaxRows, NEW k \in Nat, ReceiveResponse(request, n, k)
      PROVE  live' \in Addresses
  BY <1>2, <1>4, ResponseTyped
<1>5. CASE ReceiveErrorStatus
  <2> DEFINE r == Assigned(stmt[busy], "ERROR")
  <2>1. ReceiveResponse(request, 0, CacheSize) /\ stmt' = [stmt EXCEPT ![busy] = r]
        /\ busy' = NoStmt /\ step' = "idle"
        /\ UNCHANGED <<attempt, runs, request, sender, undefined, tidy>>
    BY <1>5 DEF ReceiveErrorStatus
  <2>2. live' \in Addresses
    BY <1>2, <1>4, <2>1
  <2>3. r \in Statement
    BY <1>2, <2>2 DEF Statement, Returned, Assigned
  <2>4. /\ r.in = live' /\ r.origin = request /\ r.closed = stmt[busy].closed
        /\ r.ret # "NO_DATA" /\ ~r.cursor
    BY <1>2 DEF Statement, Returned, Assigned
  <2> HIDE DEF r
  <2> QED
    BY <1>2, <1>3, <2>1, <2>3, <2>4
<1>6. CASE ReceiveNoResultSet
  <2> DEFINE r == [Assigned(stmt[busy], "SUCCESS") EXCEPT !.owed = 0]
  <2>1. ReceiveResponse(request, 0, CacheSize) /\ stmt' = [stmt EXCEPT ![busy] = r]
        /\ busy' = NoStmt /\ step' = "idle"
        /\ UNCHANGED <<attempt, runs, request, sender, undefined, tidy>>
    BY <1>6 DEF ReceiveNoResultSet
  <2>2. live' \in Addresses
    BY <1>2, <1>4, <2>1
  <2>3. r \in Statement
    <3>1. Assigned(stmt[busy], "SUCCESS") \in Statement
      BY <1>2, <2>2 DEF Statement, Returned, Assigned
    <3> QED
      BY <3>1 DEF Statement
  <2>4. /\ r.in = live' /\ r.origin = request /\ r.closed = stmt[busy].closed
        /\ r.ret # "NO_DATA" /\ ~r.cursor
    BY <1>2 DEF Statement, Returned, Assigned
  <2> HIDE DEF r
  <2> QED
    BY <1>2, <1>3, <2>1, <2>3, <2>4
<1>7. ASSUME NEW n \in 0 .. MaxRows, ReceiveRows(n) PROVE AnswerChange /\ AnswerSession
  <2> DEFINE c == Least(n, CacheSize)
             r == [Assigned(stmt[busy], "SUCCESS") EXCEPT
                     !.cached = c, !.owed = n, !.cursor = TRUE]
  <2>1. ReceiveResponse(request, n, CacheSize) /\ stmt' = [stmt EXCEPT ![busy] = r]
        /\ busy' = NoStmt /\ step' = "idle"
        /\ UNCHANGED <<attempt, runs, request, sender, undefined, tidy>>
    BY <1>7 DEF ReceiveRows
  <2>2. live' \in Addresses
    BY <1>2, <1>4, <2>1
  <2>3. c \in Nat /\ n = c + (IF n < CacheSize THEN 0 ELSE n - CacheSize) /\ n \in Int
    BY <1>2 DEF Least
  <2> HIDE DEF c
  <2>4. r \in Statement
    <3>1. Assigned(stmt[busy], "SUCCESS") \in Statement
      BY <1>2, <2>2 DEF Statement, Returned, Assigned
    <3> QED
      BY <2>3, <3>1 DEF Statement
  <2>5. /\ r.in = live' /\ r.origin = request /\ r.closed = stmt[busy].closed
        /\ r.ret # "NO_DATA" /\ r.owed = n /\ r.cached = c
    BY <1>2 DEF Statement, Returned, Assigned
  <2> HIDE DEF r
  <2>6. r.owed = r.cached + (IF n < CacheSize THEN 0 ELSE n - CacheSize)
    BY <2>3, <2>5
  <2> QED
    BY <1>2, <1>3, <2>1, <2>4, <2>5, <2>6
<1>8. ASSUME NEW n \in 0 .. MaxRows, NEW k \in 0 .. CacheSize, ReceiveThrows(n, k)
      PROVE  AnswerChange /\ AnswerSession
  <2> DEFINE r == [Assigned(stmt[busy], "ERROR") EXCEPT !.broken = TRUE]
  <2>1. ReceiveResponse(request, n, k) /\ stmt' = [stmt EXCEPT ![busy] = r]
        /\ busy' = NoStmt /\ step' = "idle"
        /\ UNCHANGED <<attempt, runs, request, sender, undefined, tidy>>
    BY <1>8 DEF ReceiveThrows
  <2>2. k \in Nat
    BY <1>2
  <2>3. live' \in Addresses
    BY <1>4, <2>1, <2>2
  <2>4. r \in Statement
    BY <1>2, <2>3 DEF Statement, Returned, Assigned
  <2>5. /\ r.in = live' /\ r.origin = request /\ r.closed = stmt[busy].closed
        /\ r.ret # "NO_DATA" /\ ~r.cursor
    BY <1>2 DEF Statement, Returned, Assigned
  <2> HIDE DEF r
  <2> QED
    BY <1>3, <2>1, <2>2, <2>4, <2>5
<1> QED
  BY <1>5, <1>6, <1>7, <1>8 DEF Answer

(* A statement is closed or replaced.                                      *)
CloseChange(s) ==
  /\ stmt' \in [Stmts -> Statement]
  /\ \A t \in Stmts \ {s} : stmt'[t] = stmt[t]
  /\ stmt'[s].in = Null /\ ~stmt'[s].cursor
  /\ stmt'[s].closed /\ stmt'[s].ret # "NO_DATA"

LEMMA CloseEffect ==
  ASSUME stmt \in [Stmts -> Statement], NEW s \in Stmts,
         CloseCursor(s) \/ FreeStmtClose(s) \/ Reallocate(s)
  PROVE  CloseChange(s)
<1>1. stmt[s] \in Statement
  OBVIOUS
<1> DEFINE r == IF Reallocate(s) THEN NewStatement ELSE Reset(stmt[s])
<1>2. NewStatement \in Statement /\ Reset(stmt[s]) \in Statement
  <2>1. NewStatement \in Statement
    BY DEF Statement, NewStatement
  <2>2. Reset(stmt[s]) \in Statement
    BY <1>1, <2>1 DEF Statement, Reset
  <2> QED
    BY <2>1, <2>2
<1>3. r.in = Null /\ ~r.cursor /\ r.closed /\ r.ret # "NO_DATA"
  BY <1>1 DEF Statement, NewStatement, Reset
<1>4. stmt' = [stmt EXCEPT ![s] = r]
  BY DEF CloseCursor, FreeStmtClose, Reallocate
<1>5. r \in Statement
  BY <1>2
<1> HIDE DEF r
<1> QED
  BY <1>3, <1>4, <1>5, Replaced DEF CloseChange

(* Every call is one of these.                                             *)
LEMMA CallKinds ==
  ASSUME NEW s \in Stmts, Calls(s)
  PROVE  \/ Quiet(s)
         \/ FetchCached(s) \/ FetchReads(s)
         \/ \E p \in BOOLEAN : StartRequest(s, p)
         \/ CloseCursor(s) \/ FreeStmtClose(s) \/ Reallocate(s)
BY DEF Calls, Quiet, Execute, ExecDirect

-----------------------------------------------------------------------------
(* What the session does: its state keeps its type.                        *)
LEMMA SessionTyped ==
  ASSUME HttpTypeOK
  PROVE  /\ ResetSession => HttpTypeOK'
         /\ SendRequest => HttpTypeOK'
         /\ FailRequest => HttpTypeOK'
         /\ ReadRows(CacheSize) => HttpTypeOK'
         /\ UNCHANGED http => HttpTypeOK'
<1> USE HttpSessionAssumption, StatementsAssumption
<1>1. ASSUME ResetSession PROVE HttpTypeOK'
  <2>1. HttpValues'
    BY <1>1 DEF HttpTypeOK, HttpValues, ResetSession
  <2>2. HttpFlags'
    BY <1>1 DEF HttpTypeOK, HttpFlags, ResetSession
  <2> QED
    BY <2>1, <2>2 DEF HttpTypeOK
<1>2. ASSUME SendRequest PROVE HttpTypeOK'
  <2>1. HttpValues'
    BY <1>2 DEF HttpTypeOK, HttpValues, SendRequest, FreeStream
  <2>2. HttpFlags'
    BY <1>2 DEF HttpTypeOK, HttpFlags, SendRequest, FreeStream
  <2> QED
    BY <2>1, <2>2 DEF HttpTypeOK
<1>3. ASSUME FailRequest PROVE HttpTypeOK'
  <2>1. HttpValues'
    BY <1>3 DEF HttpTypeOK, HttpValues, FailRequest, FreeStream
  <2>2. HttpFlags'
    BY <1>3 DEF HttpTypeOK, HttpFlags, FailRequest, FreeStream
  <2> QED
    BY <2>1, <2>2 DEF HttpTypeOK
<1>4. ASSUME ReadRows(CacheSize) PROVE HttpTypeOK'
  <2>1. HttpValues'
    BY <1>4 DEF HttpTypeOK, HttpValues, ReadRows
  <2>2. HttpFlags'
    BY <1>4 DEF HttpTypeOK, HttpFlags, ReadRows
  <2> QED
    BY <2>1, <2>2 DEF HttpTypeOK
<1>5. UNCHANGED http => HttpTypeOK'
  BY DEF http, HttpTypeOK, HttpValues, HttpFlags
<1> QED
  BY <1>1, <1>2, <1>3, <1>4, <1>5

-----------------------------------------------------------------------------
(* StatementsInv is preserved: the calls that return at once.              *)
LEMMA CallTyped ==
  ASSUME StatementsInv, NEW s \in Stmts, Calls(s)
  PROVE  StatementsInv'
<1>1. stmt \in [Stmts -> Statement] /\ HttpTypeOK
  BY DEF StatementsInv, TypeOK
<1>2. CASE \E p \in BOOLEAN : StartRequest(s, p)
  <2>1. PICK p \in BOOLEAN : StartRequest(s, p)
    BY <1>2
  <2>2. StartChange(s)
    BY <1>1, <2>1, StartEffect
  <2>3. /\ busy' = s /\ step' = "peek" /\ attempt' = 1 /\ runs' = 0 /\ sender' = s
        /\ request < MaxRequests /\ request' = request + 1 /\ ~stmt[s].cursor
        /\ UNCHANGED <<http, undefined>> /\ tidy' \in BOOLEAN
    BY <2>1 DEF StartRequest, StatementsInv, TypeOK
  <2>4. HttpTypeOK'
    BY <1>1, <2>3, SessionTyped
  <2>5. /\ attempt' \in 0 .. RetryCount + 1 /\ runs' \in 0 .. MaxRuns
        /\ request' \in 0 .. MaxRequests
    BY <2>3, StatementsAssumption DEF StatementsInv, TypeOK, MaxRuns
  <2>6. TypeOK'
    BY <2>2, <2>3, <2>4, <2>5 DEF StatementsInv, TypeOK, StartChange
  <2>7. ProgressInv'
    BY <2>2, <2>3, StatementsAssumption DEF ProgressInv, StartChange
  <2> QED
    BY <2>6, <2>7 DEF StatementsInv
<1>3. CASE ~(\E p \in BOOLEAN : StartRequest(s, p))
  <2>1. stmt' \in [Stmts -> Statement]
    BY <1>1, <1>3, CallKinds, QuietEffect, FetchEffect, CloseEffect
       DEF QuietChange, FetchChange, CloseChange
  <2>2. /\ Idle /\ UNCHANGED <<busy, step, attempt, runs, request, sender>>
        /\ undefined' \in BOOLEAN /\ tidy' \in BOOLEAN
    BY <1>3, CallKinds DEF Quiet, Prepare, FetchFindsEnd, FetchFindsTornRow, FetchDangling,
       FetchCached, FetchReads, MayFetch, CloseCursor, FreeStmtClose, Reallocate,
       StatementsInv, TypeOK
  <2>3. ResetSession \/ ReadRows(CacheSize) \/ UNCHANGED http
    BY <1>3, CallKinds DEF Quiet, Prepare, FetchFindsEnd, FetchFindsTornRow, FetchDangling,
       FetchCached, FetchReads, CloseCursor, FreeStmtClose, Reallocate
  <2>4. HttpTypeOK'
    BY <1>1, <2>3, SessionTyped
  <2>5. TypeOK'
    BY <2>1, <2>2, <2>4 DEF StatementsInv, TypeOK
  <2>6. ProgressInv'
    BY <2>2 DEF StatementsInv, ProgressInv, Idle
  <2> QED
    BY <2>5, <2>6 DEF StatementsInv
<1> QED
  BY <1>2, <1>3

(* The exchanges with the server before a response.                        *)
Exchange == Peek \/ PeekDangling \/ Send \/ IOExceptionCaught \/ OtherException

LEMMA SendRequestKinds == ASSUME SendRequestSteps PROVE Exchange \/ Answer
BY DEF SendRequestSteps, Exchange, Answer

LEMMA ExchangeTyped ==
  ASSUME StatementsInv, Exchange
  PROVE  StatementsInv'
<1> USE StatementsAssumption
<1>1. /\ step # "idle" /\ busy \in Stmts /\ sender = busy /\ ~stmt[busy].cursor
      /\ stmt \in [Stmts -> Statement] /\ HttpTypeOK /\ request \in 0 .. MaxRequests
      /\ sender \in Stmts \union {NoStmt} /\ undefined \in BOOLEAN /\ tidy \in BOOLEAN
      /\ attempt \in 0 .. RetryCount + 1 /\ runs \in 0 .. MaxRuns /\ runs <= RetryCount + 1
  BY DEF StatementsInv, TypeOK, ProgressInv, Exchange, Peek, PeekDangling, Send,
     IOExceptionCaught, OtherException
<1>2. HttpTypeOK'
  <2>1. CASE Peek /\ ~ResetSession
    BY <1>1, <2>1 DEF Peek, HttpTypeOK, HttpValues, HttpFlags
  <2>2. CASE ~Peek \/ ResetSession
    BY <1>1, <2>2, SessionTyped DEF Exchange, PeekDangling, Send, IOExceptionCaught, OtherException
  <2> QED
    BY <2>1, <2>2
<1>3. /\ UNCHANGED <<request, sender, tidy>> /\ undefined' \in BOOLEAN
  BY <1>1 DEF Exchange, Peek, PeekDangling, Send, IOExceptionCaught, OtherException
<1>4. ASSUME UNCHANGED <<stmt, busy>>, step' \in {"peek", "send", "receive"},
             attempt' \in 0 .. RetryCount + 1, runs' \in 0 .. MaxRuns, runs' <= RetryCount + 1,
             step' = "peek" => attempt' = 1 /\ runs' = 0, step' = "send" => runs' < attempt',
             step' = "receive" => 1 <= runs' /\ runs' <= attempt'
      PROVE  StatementsInv'
  <2>1. TypeOK'
    BY <1>1, <1>2, <1>3, <1>4 DEF TypeOK
  <2>2. ProgressInv'
    BY <1>1, <1>3, <1>4 DEF ProgressInv
  <2> QED
    BY <2>1, <2>2 DEF StatementsInv
<1>5. CASE Peek \/ PeekDangling
  BY <1>1, <1>4, <1>5 DEF Peek, PeekDangling, StatementsInv, ProgressInv
<1>6. CASE Send
  <2>1. runs < attempt /\ runs' = Least(runs + 1, MaxRuns) /\ step' = "receive"
        /\ UNCHANGED <<stmt, busy, attempt>>
    BY <1>6 DEF Send, StatementsInv, ProgressInv
  <2>2. runs' \in 0 .. MaxRuns /\ 1 <= runs' /\ runs' <= attempt /\ runs' <= RetryCount + 1
    BY <1>1, <2>1 DEF Least, MaxRuns
  <2> QED
    BY <1>1, <1>4, <2>1, <2>2
<1>7. CASE (IOExceptionCaught \/ OtherException) /\ GiveUp
  <2>1. GiveUpChange /\ busy' = NoStmt /\ step' = "idle" /\ UNCHANGED <<attempt, runs>>
    BY <1>1, <1>7, GiveUpEffect DEF GiveUp, IOExceptionCaught, OtherException
  <2>2. TypeOK'
    BY <1>1, <1>2, <1>3, <2>1 DEF TypeOK, GiveUpChange
  <2>3. ProgressInv'
    BY <1>1, <2>1 DEF ProgressInv
  <2> QED
    BY <2>2, <2>3 DEF StatementsInv
<1>8. CASE IOExceptionCaught /\ ~GiveUp
  <2>1. /\ attempt <= RetryCount /\ attempt' = attempt + 1 /\ step' = "send"
        /\ UNCHANGED <<stmt, busy, runs>> /\ step \in {"send", "receive"}
    BY <1>1, <1>8 DEF IOExceptionCaught
  <2>2. runs <= attempt
    BY <1>1, <2>1 DEF StatementsInv, ProgressInv
  <2> QED
    BY <1>1, <1>4, <2>1, <2>2
<1>9. OtherException => GiveUp
  BY DEF OtherException
<1> QED
  BY <1>5, <1>6, <1>7, <1>8, <1>9 DEF Exchange

(* A response.                                                             *)
LEMMA AnswerTyped ==
  ASSUME StatementsInv, Answer
  PROVE  StatementsInv'
<1>1. AnswerChange /\ AnswerSession
  BY AnswerEffect
<1>2. TypeOK'
  BY <1>1 DEF StatementsInv, TypeOK, AnswerChange, AnswerSession
<1>3. ProgressInv'
  BY <1>1 DEF StatementsInv, ProgressInv, AnswerSession
<1> QED
  BY <1>2, <1>3 DEF StatementsInv

LEMMA Stuttering ==
  ASSUME UNCHANGED vars
  PROVE  (StatementsInv => StatementsInv') /\ (TidyInv => TidyInv')
<1>1. StatementsInv => StatementsInv'
  BY DEF vars, http, driver, StatementsInv, TypeOK, HttpTypeOK, HttpValues, HttpFlags, ProgressInv
<1>2. TidyInv => TidyInv'
  BY DEF vars, http, driver, TidyInv, ClosedInv, OwnerInv, WireInv, AllClosed
<1> QED
  BY <1>1, <1>2

LEMMA StatementsInvariant == Spec => []StatementsInv
<1>1. Init => StatementsInv
  <2> SUFFICES ASSUME Init PROVE StatementsInv
    OBVIOUS
  <2>1. NewStatement \in Statement
    BY DEF NewStatement, Statement
  <2>2. HttpTypeOK
    <3>1. HttpValues
      BY HttpSessionAssumption DEF Init, HttpInit, HttpValues
    <3>2. HttpFlags
      BY DEF Init, HttpInit, HttpFlags
    <3> QED
      BY <3>1, <3>2 DEF HttpTypeOK
  <2>3. attempt \in 0 .. RetryCount + 1 /\ runs \in 0 .. MaxRuns /\ request \in 0 .. MaxRequests
    BY StatementsAssumption DEF Init, MaxRuns
  <2>4. TypeOK
    BY <2>1, <2>2, <2>3 DEF Init, TypeOK
  <2>5. ProgressInv
    BY StatementsAssumption DEF Init, ProgressInv
  <2> QED
    BY <2>4, <2>5 DEF StatementsInv
<1>2. StatementsInv /\ [Next]_vars => StatementsInv'
  <2> SUFFICES ASSUME StatementsInv, [Next]_vars PROVE StatementsInv'
    OBVIOUS
  <2>1. CASE SendRequestSteps
    BY <2>1, SendRequestKinds, ExchangeTyped, AnswerTyped
  <2>2. ASSUME NEW s \in Stmts, Calls(s) PROVE StatementsInv'
    BY <2>2, CallTyped
  <2>3. CASE UNCHANGED vars
    BY <2>3, Stuttering
  <2> QED
    BY <2>1, <2>2, <2>3 DEF Next
<1> QED
  BY <1>1, <1>2, PTL DEF Spec

(* Handles, pointers and counters have their types in every reachable      *)
(* state.                                                                  *)
THEOREM StatementsTyped == Spec => []TypeOK
<1>1. StatementsInv => TypeOK
  BY DEF StatementsInv
<1> QED
  BY <1>1, StatementsInvariant, PTL

(* A request is executed RetryCount + 1 times at most.                     *)
THEOREM RetriesAreBounded == Spec => []TriesAreBounded
<1>1. StatementsInv => TriesAreBounded
  BY DEF StatementsInv, ProgressInv, TriesAreBounded
<1> QED
  BY <1>1, StatementsInvariant, PTL

(* A call that sends a request ends with success only on a response: the   *)
(* server has then executed the request, and the statement reads what it   *)
(* answered.                                                               *)
LEMMA SuccessNeedsResponse ==
  ASSUME StatementsInv, Next, busy # NoStmt, busy' = NoStmt, stmt'[busy].ret = "SUCCESS"
  PROVE  runs >= 1 /\ stmt'[busy].in = live' /\ reply' = request
<1>1. /\ step # "idle" /\ busy \in Stmts /\ runs \in Nat
      /\ stmt \in [Stmts -> Statement]
  BY StatementsAssumption DEF StatementsInv, TypeOK, ProgressInv, MaxRuns
<1>2. SendRequestSteps
  BY <1>1, CallKinds DEF Next, Quiet, Idle, Prepare, StartRequest, FetchCached, FetchReads,
     FetchFindsEnd, FetchFindsTornRow, FetchDangling, MayFetch, CloseCursor, FreeStmtClose,
     Reallocate
<1>3. ~Peek /\ ~PeekDangling /\ ~Send
  BY DEF Peek, PeekDangling, Send
<1>4. ~GiveUp
  BY <1>1, GiveUpEffect DEF GiveUpChange
<1>5. ~OtherException /\ ~IOExceptionCaught
  BY <1>4 DEF OtherException, IOExceptionCaught
<1>6. AnswerChange /\ AnswerSession
  BY <1>2, <1>3, <1>5, SendRequestKinds, AnswerEffect DEF Exchange
<1>7. runs >= 1
  BY <1>1, <1>6 DEF StatementsInv, ProgressInv, AnswerSession
<1> QED
  BY <1>6, <1>7 DEF AnswerChange, AnswerSession

(* No call that sends a request reports success without an answer to that  *)
(* request, whatever failed and was tried again before.                    *)
THEOREM SuccessesAreAnswered == Spec => SuccessIsAnswered
<1>1. StatementsInv /\ [Next]_vars =>
        [busy # NoStmt /\ busy' = NoStmt /\ stmt'[busy].ret = "SUCCESS" =>
           runs >= 1 /\ stmt'[busy].in = live' /\ reply' = request]_vars
  <2>1. CASE Next
    BY <2>1, SuccessNeedsResponse
  <2>2. CASE UNCHANGED vars
    BY <2>2
  <2> QED
    BY <2>1, <2>2
<1> QED
  BY <1>1, StatementsInvariant, PTL DEF Spec, SuccessIsAnswered

-----------------------------------------------------------------------------
(* What Statements promises to a tidy application.                         *)

(* The parts of TidyInv, once the application is known to be tidy.         *)
Tidy == ~undefined /\ ClosedInv /\ OwnerInv /\ WireInv

(* Closing, preparing, fetching, and beginning a request.                  *)
LEMMA TidyQuiet ==
  ASSUME StatementsInv, Tidy, NEW s \in Stmts, Quiet(s)
  PROVE  Tidy'
<1>1. QuietChange(s)
  BY QuietEffect DEF StatementsInv, TypeOK
<1>2. ~FetchDangling(s) /\ ~FetchFindsTornRow(s)
  BY DEF Tidy, OwnerInv, FetchDangling, FetchFindsTornRow, MayFetch, Dangling
<1>3. /\ Idle /\ UNCHANGED <<live, reply, socket, cut, leftover, step, busy, sender, undefined>>
      /\ (ended => ended')
  <2>1. ended \in BOOLEAN
    BY DEF StatementsInv, TypeOK, HttpTypeOK, HttpFlags
  <2> QED
    BY <1>2, <2>1 DEF Quiet, Prepare, FetchFindsEnd, MayFetch, ReadRows, http
<1>4. CASE Prepare(s)
  <2>1. UNCHANGED unread
    BY <1>4 DEF Prepare, http
  <2>2. stmt'[s].ret # "NO_DATA"
    BY <1>1, <1>2, <1>4 DEF QuietChange, FetchFindsEnd, Prepare, MayFetch
  <2>3. OwnerInv'
    BY <1>1, <1>3, <2>1, <2>2 DEF Tidy, OwnerInv, QuietChange
  <2>4. ClosedInv' /\ WireInv'
    BY <1>1, <1>3 DEF Tidy, ClosedInv, WireInv, QuietChange, Idle, AllClosed
  <2> QED
    BY <1>3, <2>3, <2>4 DEF Tidy
<1>5. CASE FetchFindsEnd(s)
  <2>1. /\ unread = 0 /\ unread' = 0 /\ stmt[s].cached = 0 /\ stmt[s].cursor
    BY <1>5, StatementsAssumption DEF FetchFindsEnd, MayFetch, ReadRows
  <2>2. OwnerInv'
    BY <1>1, <1>3, <2>1 DEF Tidy, OwnerInv, QuietChange
  <2>3. ClosedInv' /\ WireInv'
    BY <1>1, <1>3 DEF Tidy, ClosedInv, WireInv, QuietChange, Idle, AllClosed
  <2> QED
    BY <1>3, <2>2, <2>3 DEF Tidy
<1> QED
  BY <1>2, <1>4, <1>5 DEF Quiet

LEMMA TidyFetch ==
  ASSUME StatementsInv, Tidy, NEW s \in Stmts, FetchCached(s) \/ FetchReads(s)
  PROVE  Tidy'
<1>1. FetchChange(s)
  BY FetchEffect
<1>2. /\ Idle /\ stmt[s].cursor
      /\ UNCHANGED <<live, reply, socket, cut, leftover, step, busy, sender, undefined>>
      /\ (ended => ended')
  <2>1. ended \in BOOLEAN
    BY DEF StatementsInv, TypeOK, HttpTypeOK, HttpFlags
  <2> QED
    BY <2>1 DEF FetchCached, FetchReads, MayFetch, ReadRows, http
<1>3. /\ unread \in Nat /\ CacheSize \in Nat /\ stmt[s].cached \in Nat /\ stmt[s].owed \in Int
  BY StatementsAssumption, HttpSessionAssumption
     DEF StatementsInv, TypeOK, HttpTypeOK, HttpValues, Statement
<1>4. stmt'[s].owed = stmt'[s].cached + unread'
  <2>1. stmt[s].owed = stmt[s].cached + unread
    BY <1>2 DEF Tidy, OwnerInv
  <2>2. CASE FetchCached(s)
    BY <1>1, <1>3, <2>1, <2>2 DEF FetchChange, FetchCached, http
  <2>3. CASE FetchReads(s)
    BY <1>1, <1>3, <2>1, <2>3 DEF FetchChange, FetchReads, ReadRows, Least
  <2> QED
    BY <2>2, <2>3
<1>5. \A t \in Stmts \ {s} : stmt[t].closed
  BY <1>2 DEF Tidy, ClosedInv
<1>6. OwnerInv'
  BY <1>1, <1>2, <1>4, <1>5 DEF Tidy, OwnerInv, ClosedInv, FetchChange
<1>7. ClosedInv' /\ WireInv'
  BY <1>1, <1>2 DEF Tidy, ClosedInv, WireInv, FetchChange, Idle, AllClosed
<1> QED
  BY <1>2, <1>6, <1>7 DEF Tidy

LEMMA TidyStart ==
  ASSUME StatementsInv, Tidy, NEW s \in Stmts, NEW p \in BOOLEAN, StartRequest(s, p), tidy'
  PROVE  Tidy'
<1>1. StartChange(s)
  BY StartEffect DEF StatementsInv, TypeOK
<1>2. /\ AllClosed /\ step = "idle" /\ step' = "peek" /\ busy' = s /\ sender' = s
      /\ UNCHANGED <<http, undefined>>
  BY DEF StartRequest, Idle
<1>3. \A t \in Stmts : stmt[t].in = Null /\ ~stmt[t].cursor
  BY <1>2 DEF Tidy, ClosedInv, AllClosed
<1>4. OwnerInv'
  BY <1>1, <1>2, <1>3 DEF Tidy, OwnerInv, StartChange
<1>5. ClosedInv'
  BY <1>1, <1>2, <1>3 DEF Tidy, ClosedInv, StartChange, AllClosed
<1>6. WireInv'
  BY <1>2 DEF Tidy, WireInv, http
<1> QED
  BY <1>2, <1>4, <1>5, <1>6 DEF Tidy

LEMMA TidyClose ==
  ASSUME StatementsInv, Tidy, NEW s \in Stmts, tidy',
         CloseCursor(s) \/ FreeStmtClose(s) \/ Reallocate(s)
  PROVE  Tidy'
<1>1. CloseChange(s)
  BY CloseEffect DEF StatementsInv, TypeOK
<1>2. /\ OthersClosed(s) /\ Idle /\ UNCHANGED <<step, undefined>>
  BY DEF CloseCursor, FreeStmtClose, Reallocate, OthersClosed, AllClosed
<1>3. \A t \in Stmts : stmt'[t].in = Null /\ ~stmt'[t].cursor /\ stmt'[t].closed
  BY <1>1, <1>2 DEF Tidy, ClosedInv, CloseChange, OthersClosed
<1>4. ~leftover' /\ (socket' = "closed" \/ ended')
  <2>1. CASE ResetSession
    BY <2>1 DEF ResetSession
  <2>2. CASE Reallocate(s)
    <3>1. AllClosed /\ UNCHANGED <<socket, ended, leftover>>
      BY <2>2 DEF Reallocate, http
    <3> QED
      BY <1>2, <3>1 DEF Tidy, WireInv, Idle
  <2> QED
    BY <2>1, <2>2 DEF CloseCursor, FreeStmtClose
<1>5. OwnerInv'
  BY <1>1, <1>3 DEF Tidy, OwnerInv, CloseChange
<1>6. ClosedInv' /\ WireInv'
  BY <1>2, <1>3, <1>4 DEF ClosedInv, WireInv, Idle
<1> QED
  BY <1>2, <1>5, <1>6 DEF Tidy

(* The steps of sendRequest: nothing points anywhere until the response.   *)
LEMMA TidyExchange ==
  ASSUME StatementsInv, Tidy, Exchange
  PROVE  Tidy'
<1>1. /\ step # "idle" /\ busy \in Stmts /\ sender = busy /\ stmt \in [Stmts -> Statement]
  BY DEF StatementsInv, TypeOK, ProgressInv, Exchange, Peek, PeekDangling, Send,
     IOExceptionCaught, OtherException
<1>2. \A t \in Stmts : stmt[t].in = Null /\ ~stmt[t].cursor
  <2>1. ~stmt[busy].cursor
    BY <1>1 DEF StatementsInv, ProgressInv
  <2> QED
    BY <1>1, <2>1 DEF Tidy, ClosedInv
<1>3. ~PeekDangling
  BY <1>1, <1>2 DEF PeekDangling, Dangling
<1>4. ~undefined' /\ sender' = sender
  BY <1>3 DEF Tidy, Exchange, Peek, Send, IOExceptionCaught, OtherException
<1>5. ASSUME UNCHANGED <<stmt, busy>> PROVE OwnerInv' /\ ClosedInv'
  BY <1>1, <1>2, <1>4, <1>5 DEF Tidy, OwnerInv, ClosedInv
<1>6. CASE Peek
  <2>1. /\ step = "peek" /\ step' = "send" /\ UNCHANGED <<stmt, busy, socket, leftover>>
        /\ (ended => ended')
    BY <1>1, <1>2, <1>6 DEF Peek
  <2>2. WireInv'
    BY <2>1 DEF Tidy, WireInv
  <2> QED
    BY <1>4, <1>5, <2>1, <2>2 DEF Tidy
<1>7. CASE Send
  <2>1. /\ step = "send" /\ step' = "receive" /\ UNCHANGED <<stmt, busy>>
        /\ leftover' = (leftover \/ (socket = "open" /\ ~ended))
    BY <1>7 DEF Send, SendRequest
  <2>2. WireInv'
    BY <2>1 DEF Tidy, WireInv
  <2> QED
    BY <1>4, <1>5, <2>1, <2>2 DEF Tidy
<1>8. CASE IOExceptionCaught \/ OtherException
  <2>1. FailRequest /\ step' \in {"send", "idle"}
    BY <1>8 DEF IOExceptionCaught, OtherException, GiveUp
  <2>2. WireInv'
    BY <2>1 DEF FailRequest, WireInv
  <2>3. CASE GiveUp
    <3>1. GiveUpChange /\ step' = "idle"
      BY <1>1, <2>3, GiveUpEffect DEF GiveUp
    <3>2. OwnerInv'
      BY <1>1, <1>2, <3>1 DEF Tidy, OwnerInv, GiveUpChange
    <3>3. ClosedInv'
      BY <1>1, <1>4, <3>1 DEF Tidy, ClosedInv, GiveUpChange
    <3> QED
      BY <1>4, <2>2, <3>2, <3>3 DEF Tidy
  <2>4. CASE ~GiveUp
    <3>1. UNCHANGED <<stmt, busy>>
      BY <1>8, <2>4 DEF IOExceptionCaught, OtherException
    <3> QED
      BY <1>4, <1>5, <2>2, <3>1 DEF Tidy
  <2> QED
    BY <2>3, <2>4
<1> QED
  BY <1>3, <1>6, <1>7, <1>8 DEF Exchange

(* The response: its stream and its rows belong to whoever asked.          *)
LEMMA TidyAnswer ==
  ASSUME StatementsInv, Tidy, Answer
  PROVE  Tidy'
<1>1. AnswerChange /\ AnswerSession
  BY AnswerEffect
<1>2. step # "idle" /\ busy \in Stmts /\ sender = busy
  BY <1>1 DEF AnswerSession, StatementsInv, TypeOK, ProgressInv
<1>3. \A t \in Stmts \ {busy} : stmt[t].in = Null /\ ~stmt[t].cursor
  BY <1>2 DEF Tidy, ClosedInv
<1>4. OwnerInv'
  BY <1>1, <1>2, <1>3 DEF Tidy, OwnerInv, AnswerChange, AnswerSession
<1>5. ClosedInv'
  BY <1>1, <1>2 DEF Tidy, ClosedInv, AnswerChange, AnswerSession
<1>6. ~stmt'[busy].closed
  BY <1>1, <1>2 DEF Tidy, ClosedInv, AnswerChange
<1>7. WireInv'
  BY <1>1, <1>2, <1>6 DEF Tidy, WireInv, AnswerSession, AllClosed
<1>8. ~undefined'
  BY <1>1 DEF Tidy, AnswerSession
<1> QED
  BY <1>4, <1>5, <1>7, <1>8 DEF Tidy

LEMMA TidyInvariant == Spec => []TidyInv
<1>1. Init => TidyInv
  BY DEF Init, HttpInit, NewStatement, TidyInv, ClosedInv, OwnerInv, WireInv
<1>2. StatementsInv /\ TidyInv /\ [Next]_vars => TidyInv'
  <2> SUFFICES ASSUME StatementsInv, TidyInv, Next, tidy' PROVE Tidy'
    BY Stuttering DEF TidyInv, Tidy
  <2>1. tidy => Tidy
    BY DEF TidyInv, Tidy
  <2>2. CASE SendRequestSteps
    <3>1. tidy
      BY <2>2, SendRequestKinds, AnswerEffect DEF Exchange, Peek, PeekDangling, Send,
         IOExceptionCaught, OtherException, AnswerSession
    <3> QED
      BY <2>1, <2>2, <3>1, SendRequestKinds, TidyExchange, TidyAnswer
  <2>3. ASSUME NEW s \in Stmts, Calls(s) PROVE Tidy'
    <3>1. tidy
      BY <2>3, CallKinds DEF Quiet, Prepare, FetchFindsEnd, FetchFindsTornRow, FetchDangling,
         FetchCached, FetchReads, StartRequest, CloseCursor, FreeStmtClose, Reallocate
    <3> QED
      BY <2>1, <2>3, <3>1, CallKinds, TidyQuiet, TidyFetch, TidyStart, TidyClose
  <2> QED
    BY <2>2, <2>3 DEF Next
<1> QED
  BY <1>1, <1>2, StatementsInvariant, PTL DEF Spec

(* A statement of a tidy application points to the answer to its own       *)
(* request, even when the allocator puts one stream where a freed one was. *)
THEOREM StreamsHaveOneOwner == Spec => []StreamOwner
<1>1. TidyInv => StreamOwner
  <2> SUFFICES ASSUME TidyInv, tidy, NEW s \in Stmts, stmt[s].in = live, live # Null
               PROVE  stmt[s].origin = reply /\ sender = s
    BY DEF StreamOwner
  <2> QED
    BY DEF TidyInv, ClosedInv, OwnerInv
<1> QED
  BY <1>1, TidyInvariant, PTL

(* No row of an open cursor of a tidy application is lost or read twice.   *)
THEOREM RowsAreAccounted == Spec => []RowsAccounted
<1>1. TidyInv => RowsAccounted
  <2> SUFFICES ASSUME TidyInv, tidy, NEW s \in Stmts, stmt[s].cursor
               PROVE  /\ stmt[s].in = live /\ live # Null
                      /\ stmt[s].owed = stmt[s].cached + unread
    BY DEF RowsAccounted
  <2> QED
    BY DEF TidyInv, OwnerInv
<1> QED
  BY <1>1, TidyInvariant, PTL

(* SQL_NO_DATA means that a tidy application has every row, however many   *)
(* statements, requests and retries there are.                             *)
THEOREM EndMeansAllRows == Spec => []EndMeansAll
<1>1. TidyInv => EndMeansAll
  BY DEF TidyInv, OwnerInv, EndMeansAll
<1> QED
  BY <1>1, TidyInvariant, PTL

(* A freed stream is never used by an application that closes every        *)
(* statement before it uses the connection again.                          *)
THEOREM StreamsStayAlive == Spec => []StreamsAlive
<1>1. TidyInv => StreamsAlive
  BY DEF TidyInv, StreamsAlive
<1> QED
  BY <1>1, TidyInvariant, PTL

(* Nor does it ever wait for a response behind the bytes of an older one.  *)
THEOREM WireStaysClean == Spec => []CleanWire
<1>1. TidyInv => CleanWire
  BY DEF TidyInv, WireInv, CleanWire
<1> QED
  BY <1>1, TidyInvariant, PTL
=============================================================================

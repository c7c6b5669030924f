----------------------------- MODULE Statements -----------------------------
(***************************************************************************)
(* The statements of one connection (driver/statement.cpp and the          *)
(* statement calls of driver/odbc.cpp and driver/handles.cpp) and the HTTP *)
(* session they share: preparing, sending a request with retries, reading  *)
(* the reply ahead, closing and freeing.                                   *)
(*                                                                         *)
(* Calls on one connection come one after another, so one call is in       *)
(* progress at a time; only sendRequest takes several steps, one for each  *)
(* of its exchanges with the server.  `in` is a raw pointer into the       *)
(* session: after another request it may point to nothing, or to the       *)
(* stream that was put at the same address.  Rows are counted, cache and   *)
(* block of a result set together, and the replies have the same columns;  *)
(* bindings and descriptors, which no request depends on, are left out.    *)
(***************************************************************************)
EXTENDS HttpSession

CONSTANTS
  Stmts,          (* statement handles of the connection                   *)
  NoStmt,         (* none of them                                          *)
  RetryCount,     (* Connection::retry_count, 3                            *)
  CacheSize,      (* rows decoded ahead at most, 1000                      *)
  MaxRequests     (* SQLExecute and the like per behaviour; a bound        *)

ASSUME StatementsAssumption ==
  /\ NoStmt \notin Stmts
  /\ RetryCount \in Nat
  /\ CacheSize \in Nat \ {0}
  /\ MaxRequests \in Nat

VARIABLES
  stmt,        (* the Statement objects                                    *)
  busy,        (* the statement whose request is under way, or NoStmt      *)
  step,        (* "idle", or where sendRequest is: "peek", "send",         *)
               (* "receive"                                                *)
  attempt,     (* its counter i                                            *)
  runs,        (* times the server has executed the request under way, or  *)
               (* the last one, counted up to MaxRuns                      *)
  request,     (* number of that request                                   *)
  sender,      (* the statement that sent it                               *)
  undefined,   (* a freed stream was used                                  *)
  tidy         (* so far the application has closed every statement after  *)
               (* each request, with or without a cursor, before it used   *)
               (* the connection again                                     *)

driver == <<stmt, busy, step, attempt, runs, request, sender, undefined, tidy>>
vars == <<http, driver>>

Statement == [
  in       : Addresses \union {Null},   (* the pointer `in`                *)
  origin   : Nat,        (* the request whose response it was set to       *)
  cached   : Nat,        (* rows decoded and not yet handed out            *)
  owed     : Int,        (* rows of the last reply less those handed out   *)
  query    : BOOLEAN,    (* query is not empty                             *)
  prepared : BOOLEAN,    (* the driver manager takes it for prepared       *)
  cursor   : BOOLEAN,    (* the driver manager takes a cursor for open     *)
  closed   : BOOLEAN,    (* new or closed, and no request sent since       *)
  fresh    : BOOLEAN,    (* new or closed, and no query set since          *)
  broken   : BOOLEAN,    (* the last reply could not be read, not closed since *)
  ret      : {"NONE", "SUCCESS", "NO_DATA", "ERROR", "RUNNING"} ]

Least(a, b) == IF a < b THEN a ELSE b

(* runs is counted no further than this.                                   *)
MaxRuns == RetryCount + 2

NewStatement == [
  in |-> Null, origin |-> 0, cached |-> 0, owed |-> 0, query |-> FALSE,
  prepared |-> FALSE, cursor |-> FALSE, closed |-> TRUE, fresh |-> TRUE,
  broken |-> FALSE, ret |-> "NONE" ]

(* The state of every object of a connection: handles, pointers, counters  *)
(* and the place in sendRequest.                                           *)
TypeOK ==
  /\ HttpTypeOK
  /\ stmt \in [Stmts -> Statement]
  /\ busy \in Stmts \union {NoStmt}
  /\ step \in {"idle", "peek", "send", "receive"}
  /\ attempt \in 0 .. RetryCount + 1
  /\ runs \in 0 .. MaxRuns
  /\ request \in 0 .. MaxRequests
  /\ sender \in Stmts \union {NoStmt}
  /\ undefined \in BOOLEAN /\ tidy \in BOOLEAN

Init ==
  /\ HttpInit
  /\ stmt = [s \in Stmts |-> NewStatement]
  /\ busy = NoStmt /\ step = "idle" /\ attempt = 0 /\ runs = 0
  /\ request = 0 /\ sender = NoStmt /\ undefined = FALSE
  /\ tidy = TRUE

-----------------------------------------------------------------------------
Idle == step = "idle" /\ ~undefined

(* `in` points to a stream that the session has freed, and the stream that *)
(* it holds now, if any, is somewhere else.                                *)
Dangling(s) == stmt[s].in # Null /\ stmt[s].in # live

(* What a tidy application asks of its other statements before a call on s *)
(* touches the session, and of all before a statement is used anew.        *)
OthersClosed(s) == \A t \in Stmts \ {s} : stmt[t].closed
AllClosed == \A t \in Stmts : stmt[t].closed

(* A call on a statement ends; doWith turns an exception into SQL_ERROR.   *)
Returned(r, code) == [r EXCEPT !.ret = code]

-----------------------------------------------------------------------------
(* SQLPrepare: refused unless the query is empty.                          *)
Prepare(s) ==
  /\ Idle /\ ~stmt[s].cursor
  /\ stmt' = [stmt EXCEPT ![s] =
       IF @.query THEN Returned(@, "ERROR")
       ELSE [Returned(@, "SUCCESS") EXCEPT !.query = TRUE, !.prepared = TRUE,
                                           !.fresh = FALSE]]
  /\ UNCHANGED <<http, busy, step, attempt, runs, request, sender, undefined, tidy>>

(* SQLExecute, and the calls that set a query of their own first:          *)
(* SQLExecDirect, SQLTables, SQLColumns, SQLGetTypeInfo.  A statement whose *)
(* reply could not be read is closed first: what else becomes of it is the *)
(* subject of ResultSet.tla and DataRetrieval.tla.                         *)
StartRequest(s, p) ==
  /\ Idle /\ ~stmt[s].cursor /\ ~stmt[s].broken
  /\ request < MaxRequests
  /\ request' = request + 1
  /\ stmt' = [stmt EXCEPT ![s] = [Returned(@, "RUNNING") EXCEPT
       !.query = TRUE, !.prepared = p, !.closed = FALSE, !.fresh = FALSE]]
  /\ busy' = s /\ step' = "peek" /\ attempt' = 1 /\ runs' = 0
  /\ sender' = s
  /\ tidy' = (tidy /\ AllClosed)
  /\ UNCHANGED <<http, undefined>>

Execute(s) == stmt[s].prepared /\ StartRequest(s, TRUE)
ExecDirect(s) == StartRequest(s, FALSE)

-----------------------------------------------------------------------------
(* sendRequest: if (in && in->peek() != EOF) session->reset()              *)

Peek ==
  /\ step = "peek" /\ ~undefined
  /\ ~Dangling(busy)
  /\ IF stmt[busy].in # Null /\ unread > 0
       THEN ResetSession
       ELSE /\ ended' = (ended \/ stmt[busy].in # Null)
            /\ UNCHANGED <<socket, live, reply, unread, cut, leftover>>
  /\ step' = "send"
  /\ UNCHANGED <<stmt, busy, attempt, runs, request, sender, undefined, tidy>>

(* The stream behind `in` is gone: peek() reads freed memory.  The build   *)
(* may crash, or go on as if there were unread data or none.               *)
PeekDangling ==
  /\ step = "peek" /\ ~undefined
  /\ Dangling(busy)
  /\ undefined' = TRUE
  /\ step' \in {"peek", "send"}
  /\ \/ ResetSession
     \/ UNCHANGED http
  /\ UNCHANGED <<stmt, busy, attempt, runs, request, sender, tidy>>

(* session->sendRequest(request) << prepared_query: the server gets the    *)
(* request and executes it.                                                *)
Send ==
  /\ step = "send" /\ ~undefined
  /\ SendRequest
  /\ runs' = Least(runs + 1, MaxRuns)
  /\ step' = "receive"
  /\ UNCHANGED <<stmt, busy, attempt, request, sender, undefined, tidy>>

(* The call ends with an exception: `in` keeps its value.                  *)
GiveUp ==
  /\ stmt' = [stmt EXCEPT ![busy] = Returned(@, "ERROR")]
  /\ busy' = NoStmt /\ step' = "idle"
  /\ UNCHANGED attempt

(* Variant with a defect: the retries are not counted.                     *)
IOExceptionCaughtForever ==
  /\ step \in {"send", "receive"} /\ ~undefined
  /\ FailRequest
  /\ step' = "send"
  /\ UNCHANGED <<stmt, busy, attempt, runs, request, sender, undefined, tidy>>

(* Variant with a defect: one retry too many.                              *)
IOExceptionCaughtOnceMore ==
  /\ step \in {"send", "receive"} /\ ~undefined
  /\ FailRequest
  /\ IF runs > RetryCount + 1
       THEN GiveUp
       ELSE attempt' = attempt /\ step' = "send" /\ UNCHANGED <<stmt, busy>>
  /\ UNCHANGED <<runs, request, sender, undefined, tidy>>

(* Variant with a defect: the last exception is not thrown on.             *)
IOExceptionSwallowed ==
  /\ step \in {"send", "receive"} /\ ~undefined
  /\ FailRequest
  /\ IF attempt > RetryCount
       THEN /\ stmt' = [stmt EXCEPT ![busy] = Returned(@, "SUCCESS")]
            /\ busy' = NoStmt /\ step' = "idle" /\ UNCHANGED attempt
       ELSE attempt' = attempt + 1 /\ step' = "send" /\ UNCHANGED <<stmt, busy>>
  /\ UNCHANGED <<runs, request, sender, undefined, tidy>>

(* Poco::IOException while the request is sent or while its response is    *)
(* awaited: reset the session and try again, finitely often.               *)
IOExceptionCaught ==
  /\ step \in {"send", "receive"} /\ ~undefined
  /\ FailRequest
  /\ IF attempt > RetryCount
       THEN GiveUp
       ELSE attempt' = attempt + 1 /\ step' = "send" /\ UNCHANGED <<stmt, busy>>
  /\ UNCHANGED <<runs, request, sender, undefined, tidy>>

(* Any other exception, such as a timeout, is not caught.                  *)
OtherException ==
  /\ step \in {"send", "receive"} /\ ~undefined
  /\ FailRequest
  /\ GiveUp
  /\ UNCHANGED <<runs, request, sender, undefined, tidy>>

(* receiveResponse has returned the stream: `in` points to it.             *)
Assigned(r, code) == [Returned(r, code) EXCEPT !.in = live', !.origin = request]

(* A response with another status than 200: its body is read to the end    *)
(* and put into the error message.                                         *)
ReceiveErrorStatus ==
  /\ step = "receive" /\ ~undefined
  /\ ReceiveResponse(request, 0, CacheSize)
  /\ stmt' = [stmt EXCEPT ![busy] = Assigned(@, "ERROR")]
  /\ busy' = NoStmt /\ step' = "idle"
  /\ UNCHANGED <<attempt, runs, request, sender, undefined, tidy>>

(* A response without a result set: ResultSet::init peeks, finds EOF and   *)
(* returns.                                                                *)
ReceiveNoResultSet ==
  /\ step = "receive" /\ ~undefined
  /\ ReceiveResponse(request, 0, CacheSize)
  /\ stmt' = [stmt EXCEPT ![busy] = [Assigned(@, "SUCCESS") EXCEPT !.owed = 0]]
  /\ busy' = NoStmt /\ step' = "idle"
  /\ UNCHANGED <<attempt, runs, request, sender, undefined, tidy>>

(* Variant with a defect: the read-ahead loses the last row it reads.      *)
ReceiveRowsLosingOne(n) ==
  /\ step = "receive" /\ ~undefined
  /\ ReceiveResponse(request, n, CacheSize + 1)
  /\ stmt' = [stmt EXCEPT ![busy] =
       [Assigned(@, "SUCCESS") EXCEPT !.cached = Least(n, CacheSize), !.owed = n,
                                      !.cursor = TRUE]]
  /\ busy' = NoStmt /\ step' = "idle"
  /\ UNCHANGED <<attempt, runs, request, sender, undefined, tidy>>

(* A response with n rows: ResultSet::init fills the cache.  The driver    *)
(* manager sees the columns and takes the cursor for open.                 *)
ReceiveRows(n) ==
  /\ step = "receive" /\ ~undefined
  /\ ReceiveResponse(request, n, CacheSize)
  /\ stmt' = [stmt EXCEPT ![busy] =
       [Assigned(@, "SUCCESS") EXCEPT !.cached = Least(n, CacheSize), !.owed = n,
                                      !.cursor = TRUE]]
  /\ busy' = NoStmt /\ step' = "idle"
  /\ UNCHANGED <<attempt, runs, request, sender, undefined, tidy>>

(* ResultSet::init throws: the header or one of the first rows is torn, or *)
(* the mutator of SQLColumns fails.  k rows have been read and are of no   *)
(* use; what follows them stays in the stream.                             *)
ReceiveThrows(n, k) ==
  /\ step = "receive" /\ ~undefined
  /\ ReceiveResponse(request, n, k)
  /\ stmt' = [stmt EXCEPT ![busy] = [Assigned(@, "ERROR") EXCEPT !.broken = TRUE]]
  /\ busy' = NoStmt /\ step' = "idle"
  /\ UNCHANGED <<attempt, runs, request, sender, undefined, tidy>>

-----------------------------------------------------------------------------
(* SQLFetch.  After an error the application closes the statement before   *)
(* it fetches again; ResultSet.tla shows what becomes of one that does not.*)

MayFetch(s) == Idle /\ stmt[s].cursor /\ stmt[s].ret # "ERROR"

(* A row is handed out and c rows stay in the cache.                       *)
OneRow(r, c) == [Returned(r, "SUCCESS") EXCEPT !.cached = c, !.owed = r.owed - 1]

(* Variant with a defect: the end of the cache is not checked for.         *)
FetchCachedUnchecked(s) ==
  /\ MayFetch(s)
  /\ stmt' = [stmt EXCEPT ![s] = OneRow(@, @.cached - 1)]
  /\ UNCHANGED <<http, busy, step, attempt, runs, request, sender, undefined, tidy>>

(* A row decoded earlier is handed out.                                    *)
FetchCached(s) ==
  /\ MayFetch(s) /\ stmt[s].cached > 0
  /\ stmt' = [stmt EXCEPT ![s] = OneRow(@, @.cached - 1)]
  /\ UNCHANGED <<http, busy, step, attempt, runs, request, sender, undefined, tidy>>

(* Variant with a defect: the row handed out stays in the cache.           *)
FetchReadsTwice(s) ==
  /\ MayFetch(s) /\ stmt[s].cached = 0 /\ ~Dangling(s) /\ unread > 0
  /\ ReadRows(CacheSize)
  /\ stmt' = [stmt EXCEPT ![s] = OneRow(@, Least(unread, CacheSize))]
  /\ UNCHANGED <<busy, step, attempt, runs, request, sender, undefined, tidy>>

(* The cache is empty: read on, up to CacheSize rows, from the stream that *)
(* is at the address now.                                                  *)
FetchReads(s) ==
  /\ MayFetch(s) /\ stmt[s].cached = 0 /\ ~Dangling(s) /\ unread > 0
  /\ ReadRows(CacheSize)
  /\ stmt' = [stmt EXCEPT ![s] = OneRow(@, Least(unread, CacheSize) - 1)]
  /\ UNCHANGED <<busy, step, attempt, runs, request, sender, undefined, tidy>>

(* The stream is at its end, or the socket was closed and its last row is  *)
(* incomplete.                                                             *)
FetchFindsEnd(s) ==
  /\ MayFetch(s) /\ stmt[s].cached = 0 /\ ~Dangling(s) /\ unread = 0
  /\ ReadRows(CacheSize)
  /\ stmt' = [stmt EXCEPT ![s] = Returned(@, "NO_DATA")]
  /\ UNCHANGED <<busy, step, attempt, runs, request, sender, undefined, tidy>>

FetchFindsTornRow(s) ==
  /\ MayFetch(s) /\ stmt[s].cached = 0 /\ ~Dangling(s) /\ unread < CacheSize /\ cut
  /\ ReadRows(CacheSize)
  /\ stmt' = [stmt EXCEPT ![s] = Returned(@, "ERROR")]
  /\ UNCHANGED <<busy, step, attempt, runs, request, sender, undefined, tidy>>

(* The stream has been freed by another statement's request, and nothing   *)
(* that is known is at its address.                                        *)
FetchDangling(s) ==
  /\ MayFetch(s) /\ stmt[s].cached = 0 /\ Dangling(s)
  /\ undefined' = TRUE
  /\ \E c \in {"SUCCESS", "NO_DATA", "ERROR"} :
       stmt' = [stmt EXCEPT ![s] = Returned(@, c)]
  /\ UNCHANGED <<http, busy, step, attempt, runs, request, sender, tidy>>

-----------------------------------------------------------------------------
(* Variant with a defect: `in` keeps pointing to the stream.               *)
ResetKeepsIn(r) ==
  [NewStatement EXCEPT !.in = r.in, !.origin = r.origin, !.query = r.query,
                       !.prepared = r.prepared, !.ret = "SUCCESS"]

(* Statement::reset: all is as in a new statement, but the query stays.    *)
Reset(r) ==
  [NewStatement EXCEPT !.query = r.query, !.prepared = r.prepared, !.ret = "SUCCESS"]

(* Variant with a defect: the session is not reset.                        *)
CloseCursorKeepsSession(s) ==
  /\ Idle /\ stmt[s].cursor
  /\ stmt' = [stmt EXCEPT ![s] = Reset(@)]
  /\ tidy' = (tidy /\ OthersClosed(s))
  /\ UNCHANGED <<http, busy, step, attempt, runs, request, sender, undefined>>

(* SQLCloseCursor; the driver manager asks for an open cursor.             *)
CloseCursor(s) ==
  /\ Idle /\ stmt[s].cursor
  /\ ResetSession
  /\ stmt' = [stmt EXCEPT ![s] = Reset(@)]
  /\ tidy' = (tidy /\ OthersClosed(s))
  /\ UNCHANGED <<busy, step, attempt, runs, request, sender, undefined>>

(* SQLFreeStmt(SQL_CLOSE), with or without a cursor.                       *)
FreeStmtClose(s) ==
  /\ Idle
  /\ ResetSession
  /\ stmt' = [stmt EXCEPT ![s] = Reset(@)]
  /\ tidy' = (tidy /\ OthersClosed(s))
  /\ UNCHANGED <<busy, step, attempt, runs, request, sender, undefined>>

(* SQLFreeHandle or SQLFreeStmt(SQL_DROP), and a new statement in its      *)
(* place.  The destructor leaves the session as it is.                     *)
Reallocate(s) ==
  /\ Idle
  /\ stmt' = [stmt EXCEPT ![s] = NewStatement]
  /\ tidy' = (tidy /\ AllClosed)
  /\ UNCHANGED <<http, busy, step, attempt, runs, request, sender, undefined>>

-----------------------------------------------------------------------------
SendRequestSteps ==
  \/ Peek
  \/ PeekDangling
  \/ Send
  \/ IOExceptionCaught
  \/ OtherException
  \/ ReceiveErrorStatus
  \/ ReceiveNoResultSet
  \/ \E n \in 0 .. MaxRows : ReceiveRows(n)
  \/ \E n \in 0 .. MaxRows, k \in 0 .. CacheSize : ReceiveThrows(n, k)

Calls(s) ==
  \/ Prepare(s)
  \/ Execute(s)
  \/ ExecDirect(s)
  \/ FetchCached(s)
  \/ FetchReads(s)
  \/ FetchFindsEnd(s)
  \/ FetchFindsTornRow(s)
  \/ FetchDangling(s)
  \/ CloseCursor(s)
  \/ FreeStmtClose(s)
  \/ Reallocate(s)

Next == SendRequestSteps \/ \E s \in Stmts : Calls(s)

Spec == Init /\ [][Next]_vars

(* A call that was made runs on: every exchange with the server ends, with *)
(* an answer or with an exception.                                         *)
FairSpec == Spec /\ WF_vars(SendRequestSteps)

-----------------------------------------------------------------------------
(* Properties.                                                             *)

(* In a tidy application whoever points to the stream of the session asked *)
(* for it: no pointer outlives its stream until another reply is at the    *)
(* same address, however requests, failures, closes and reallocations of   *)
(* several statements follow each other (sendRequest, reset).              *)
StreamOwner == tidy => \A s \in Stmts :
  stmt[s].in = live /\ live # Null => stmt[s].origin = reply /\ sender = s

(* The rows that a tidy application is still owed are all in the cache or  *)
(* in the stream of the session: no request, failure or close of any       *)
(* statement takes one from an open cursor, and none is read twice.        *)
RowsAccounted == tidy => \A s \in Stmts : stmt[s].cursor =>
  /\ stmt[s].in = live /\ live # Null
  /\ stmt[s].owed = stmt[s].cached + unread

(* SQL_NO_DATA after the last row and not before: a tidy application has   *)
(* every row of the reply when it is told that there are no more.          *)
EndMeansAll == tidy => \A s \in Stmts : stmt[s].ret = "NO_DATA" => stmt[s].owed = 0

(* A tidy application never makes the driver touch a stream that the       *)
(* session has freed.                                                      *)
StreamsAlive == tidy => ~undefined

(* In a tidy application a response is never awaited on a socket that      *)
(* still carries bytes of an earlier one: otherwise the driver would take  *)
(* them for the header, fail, and send the request, which the server has   *)
(* executed, a second time.                                                *)
CleanWire == tidy /\ step = "receive" => ~leftover

(* The server executes a request once for each try and no more often than  *)
(* the retries allow.                                                      *)
TriesAreBounded == runs <= RetryCount + 1

(* A call that sends a request succeeds only when the server has executed  *)
(* it and its response is the one the statement now reads, also after      *)
(* failures, retries and requests of other statements.                     *)
SuccessIsAnswered ==
  [][busy # NoStmt /\ busy' = NoStmt /\ stmt'[busy].ret = "SUCCESS" =>
       runs >= 1 /\ stmt'[busy].in = live' /\ reply' = request]_vars

(* Every call that sends a request returns, whatever the server and the    *)
(* network do, unless it has used a freed stream: the retries are finite.  *)
RequestsReturn == busy # NoStmt ~> busy = NoStmt \/ undefined

(* Statement::reset is announced to bring the statement back to its        *)
(* initial state, in which a query can be prepared.                        *)
PrepareAfterReset ==
  [][\A s \in Stmts : Prepare(s) /\ stmt[s].fresh => stmt'[s].ret = "SUCCESS"]_vars

=============================================================================

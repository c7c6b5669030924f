---------------------------- MODULE DataRetrieval ----------------------------
(***************************************************************************)
(* How one statement hands a result to the application: SQLFetch with      *)
(* bound columns, SQLGetData, SQLBindCol, the calls that describe columns, *)
(* and the two ways to close a cursor (driver/odbc.cpp, handles.cpp).      *)
(*                                                                         *)
(* How rows go from the stream through cache and block is ResultSet.tla;   *)
(* here they wait in one queue, `ahead`.  A failed request leaves columns  *)
(* and decoded rows to the next one, and rows know which request they came *)
(* from and which cells they have.  A reply that breaks off between two    *)
(* rows is a shorter reply.  The data of a buffer is where it came from:   *)
(* result, row and the return code of the copy.                            *)
(***************************************************************************)
EXTENDS FillOutput, Sequences, FiniteSets

CONSTANTS
  Results,     (* replies: [types |-> types of the columns, rows |-> ...]  *)
  Targets,     (* C types bound and asked for: "char", "number", "default" *)
  BufferSizes, (* lengths of the application's buffers                     *)
  SizeOf(_),   (* characters of a cell that is not NULL                    *)
  IntSize,     (* sizeof of the number asked for                           *)
  Limit,       (* 2^63, the limit of SQLLEN                                *)
  MaxColumns,  (* columns of a result at most                              *)
  MaxResults   (* requests sent per behaviour; a bound                     *)

(* Types of columns: "text" and "int" are in the driver's table, "alien"   *)
(* is not.  A cell is NULL, a text or a text of digits.                    *)
Types == {"text", "int", "alien"}
Cells == {"null", "text", "longtext", "digits"}

ASSUME DataRetrievalAssumption ==
  /\ \A r \in Results :
       /\ r.types \in Seq(Types) /\ Len(r.types) \in 1..MaxColumns
       /\ r.rows \in Seq(Seq(Cells))
  /\ Targets \subseteq {"char", "number", "default"}
  /\ BufferSizes \subseteq Nat
  /\ \A cell \in Cells \ {"null"} : SizeOf(cell) \in Nat
  /\ IntSize \in Nat \ {0}
  /\ Limit \in Nat \ {0}
  /\ MaxColumns \in Nat
  /\ MaxResults \in Nat

VARIABLES
  columns,     (* columns_info: the types of the columns                   *)
  ahead,       (* rows to be handed out: those in the cache, behind them   *)
               (* those in the stream                                      *)
  rows,        (* rows handed out since the statement was closed           *)
  stale,       (* the block was emptied and its iterator not set since     *)
  opened,      (* requests sent so far: the number of the last result      *)
  failed,      (* a request or a fetch threw, and no close since           *)
  current,     (* current_row                                              *)
  bindings,    (* the map from column to target and length                 *)
  buffer,      (* per column, what the application's bound buffer holds    *)
  wanted,      (* columns the application has bound and not taken back     *)
  cursor,      (* driver manager: "closed", "open", "positioned", "after"  *)
  undefined,   (* something that is not there was used                     *)
  ret,         (* return code of the last call                             *)
  call         (* the last call                                            *)

result == <<columns, ahead, rows, stale, opened, failed, current>>
app == <<bindings, buffer, wanted>>
retrievalVars == <<result, app, cursor, undefined, ret, call>>

Columns == 1..MaxColumns

Row(r, n, cells) == [result |-> r, row |-> n, cells |-> cells]
NoRow == Row(0, 0, <<>>)
Empty == [result |-> 0, row |-> 0, ret |-> "none"]

RetrievalInit ==
  /\ columns = <<>> /\ ahead = <<>> /\ rows = 0 /\ stale = FALSE
  /\ opened = 0 /\ failed = FALSE /\ current = NoRow
  /\ bindings = <<>>
  /\ buffer = [c \in Columns |-> Empty]
  /\ wanted = {}
  /\ cursor = "closed" /\ undefined = FALSE
  /\ ret = "success" /\ call = "none"

-----------------------------------------------------------------------------
(* A call ends with a code; doWith turns an exception into SQL_ERROR.      *)
Return(name, code) == call' = name /\ ret' = code
Throw(name) == Return(name, "error")

(* SQL_C_DEFAULT in SQLBindCol: the column's SQL type taken for a C type,  *)
(* which for VARCHAR is none.                                              *)
Default(type) == IF type = "int" THEN "number" ELSE "unknown"

(* One field into one buffer (impl_SQLGetData, the column being in range): *)
(* text is no number, and a target that is no C type of the switch throws. *)
Convert(cell, target, max) ==
  IF cell = "null" THEN "success"
  ELSE IF target = "char" THEN FillString(SizeOf(cell), max, TRUE, 1, Limit, TRUE).ret
  ELSE IF target = "number" /\ cell = "digits" THEN FillNumber(IntSize, max, TRUE).ret
  ELSE "error"

-----------------------------------------------------------------------------
(* SQLExecute and the like.                                                *)
Request ==
  /\ cursor = "closed" /\ ~undefined
  /\ opened < MaxResults
  /\ opened' = opened + 1
  /\ UNCHANGED <<rows, current, app, undefined>>

(* The rows of the reply to that request.                                  *)
RowsOf(r) == [n \in DOMAIN r.rows |-> Row(opened + 1, n, r.rows[n])]

(* ResultSet::init returns early: the reply is empty, or its header has no *)
(* rows or no columns, behind which nothing is taken to follow.  What an   *)
(* earlier request left is still there, and the driver manager opens a     *)
(* cursor if that has columns.                                             *)
ExecuteNoColumns ==
  /\ Request
  /\ cursor' = IF columns = <<>> THEN "closed" ELSE "open"
  /\ Return("execute", "success")
  /\ UNCHANGED <<columns, ahead, stale, failed>>

(* A reply with columns: rows that an earlier request left are handed out  *)
(* before those of the reply.                                              *)
ExecuteTable(r) ==
  /\ Request
  /\ columns' = r.types /\ ahead' = ahead \o RowsOf(r) /\ stale' = FALSE
  /\ cursor' = "open"
  /\ Return("execute", "success")
  /\ UNCHANGED failed

(* No reply: sendRequest throws before ResultSet::init.                    *)
ExecuteRefused ==
  /\ Request
  /\ Throw("execute")
  /\ failed' = TRUE
  /\ UNCHANGED <<columns, ahead, stale, cursor>>

(* The header is torn, or a mutator finds too few columns: columns_info    *)
(* has its new length.                                                     *)
ExecuteTornHeader(r) ==
  /\ Request
  /\ Throw("execute")
  /\ columns' = r.types /\ failed' = TRUE
  /\ UNCHANGED <<ahead, stale, cursor>>

(* readNextBlock throws: the block is too long, a mutator finds too few    *)
(* fields, or a row is torn.  Of the rows left by an earlier request and   *)
(* those of the reply the first k are lost with the block; n rows of the   *)
(* reply have been decoded, none before the others are in the block.       *)
ExecuteThrows(r) ==
  /\ Request
  /\ Throw("execute")
  /\ columns' = r.types /\ stale' = TRUE /\ failed' = TRUE
  /\ \E n \in 0..Len(r.rows), k \in 0..(Len(ahead) + Len(r.rows)) :
       /\ k <= Len(ahead) + n /\ (n > 0 => k >= Len(ahead))
       /\ ahead' = SubSeq(ahead \o RowsOf(r), k + 1, Len(ahead) + n)
  /\ UNCHANGED cursor

-----------------------------------------------------------------------------
(* What the loop over the bindings does to one row: the code of each       *)
(* column, the columns before the first that fails.  The row may have      *)
(* fewer cells than the result has columns, and nothing checks for that.   *)
Code(row, c) ==
  IF c > Len(columns) THEN "error"
  ELSE IF c > Len(row.cells) THEN "undefined"
  ELSE Convert(row.cells[c], bindings[c].target, bindings[c].max)
Failing(row) == {c \in DOMAIN bindings : Code(row, c) \in {"error", "undefined"}}
Reached(row) == {c \in DOMAIN bindings : \A f \in Failing(row) : c < f}

(* The loop comes to a cell that is not there.                             *)
ReadsBeyond(row) ==
  \E c \in Failing(row) : Code(row, c) = "undefined" /\ \A f \in Failing(row) : c <= f

(* Mutants: the code of the last column is returned; an error is not       *)
(* noticed.                                                                *)
LastCode(row) ==
  IF Failing(row) # {} THEN "error"
  ELSE IF Reached(row) = {} THEN "success"
  ELSE Code(row, CHOOSE c \in Reached(row) : \A d \in Reached(row) : d <= c)
CodeOfInfo(row) ==
  IF \E c \in Reached(row) : Code(row, c) = "info" THEN "info" ELSE "success"

FetchCode(row) ==
  IF Failing(row) # {} THEN "error"
  ELSE IF \E c \in Reached(row) : Code(row, c) = "info" THEN "info"
  ELSE "success"

MayFetch == cursor # "closed" /\ ~undefined

(* SQLFetch and SQLFetchScroll(SQL_FETCH_NEXT) with a row: it is consumed  *)
(* before the columns are filled, in their order.                          *)
FetchRow ==
  /\ MayFetch /\ ~stale /\ ahead # <<>>
  /\ ~ReadsBeyond(Head(ahead))
  /\ LET row == Head(ahead)
     IN  /\ current' = row
         /\ buffer' = [c \in Columns |->
              IF c \in Reached(row)
              THEN [result |-> row.result, row |-> row.row, ret |-> Code(row, c)]
              ELSE buffer[c]]
         /\ cursor' = IF FetchCode(row) = "error" THEN cursor ELSE "positioned"
         /\ Return("fetch", FetchCode(row))
  /\ ahead' = Tail(ahead) /\ rows' = rows + 1
  /\ UNCHANGED <<columns, stale, opened, failed, bindings, wanted, undefined>>

(* No more rows: current_row becomes the empty row.                        *)
FetchEnd ==
  /\ MayFetch /\ ~stale /\ ahead = <<>>
  /\ current' = NoRow
  /\ cursor' = "after"
  /\ Return("fetch", "nodata")
  /\ UNCHANGED <<columns, ahead, rows, stale, opened, failed, app, undefined>>

(* Mutant: the row that is current is handed out again after a failure.    *)
FetchThrowsRewinding ==
  /\ cursor \in {"open", "positioned"} /\ ~undefined /\ ~stale
  /\ failed' = TRUE
  /\ Throw("fetch")
  /\ ahead' = <<current>> \o ahead
  /\ UNCHANGED <<columns, rows, stale, opened, current, app, cursor, undefined>>

(* The next block cannot be read: a torn row, a mutator, or a length that  *)
(* is too large.  fetch throws before current_row is assigned, when the    *)
(* old block is gone.  What is left of the rows does not matter, because   *)
(* nothing defined reaches them before the statement is closed.            *)
FetchThrows ==
  /\ cursor \in {"open", "positioned"} /\ ~undefined /\ ~stale
  /\ stale' = TRUE /\ failed' = TRUE
  /\ Throw("fetch")
  /\ UNCHANGED <<columns, ahead, rows, opened, current, app, cursor, undefined>>

(* The iterator points into a block that is gone, or a bound column is     *)
(* read behind the cells of the row: the build may crash, or go on with    *)
(* whatever is there.                                                      *)
FetchUndefined ==
  /\ MayFetch
  /\ stale \/ (ahead # <<>> /\ ReadsBeyond(Head(ahead)))
  /\ undefined' = TRUE
  /\ \E code \in {"success", "info", "error", "nodata"} : Return("fetch", code)
  /\ UNCHANGED <<result, app, cursor>>

(* SQLFetchScroll with another orientation.                                *)
FetchOther ==
  /\ MayFetch
  /\ Throw("scroll")
  /\ UNCHANGED <<result, app, cursor, undefined>>

(* SQLGetData, which the driver manager lets through on a row; the types   *)
(* SQL_C_DEFAULT and SQL_ARD_TYPE are refused.                             *)
GetData(c, target, max) ==
  /\ cursor = "positioned" /\ ~undefined
  /\ IF c > Len(columns)
       THEN Throw("get") /\ UNCHANGED undefined
     ELSE IF c > Len(current.cells)
       THEN undefined' = TRUE /\ \E code \in {"success", "info", "error"} : Return("get", code)
     ELSE Return("get", Convert(current.cells[c], target, max)) /\ UNCHANGED undefined
  /\ UNCHANGED <<result, app, cursor>>

(* SQLBindCol with an indicator.                                           *)
Bind(c, target, max) ==
  /\ ~undefined
  /\ LET type     == columns[c]
         accepted == c <= Len(columns) /\ ~(target = "default" /\ type = "alien")
         cType    == IF target = "default" THEN Default(type) ELSE target
     IN  IF accepted
         THEN /\ bindings' = [b \in DOMAIN bindings \cup {c} |->
                   IF b = c THEN [target |-> cType, max |-> max] ELSE bindings[b]]
              /\ wanted' = wanted \cup {c}
              /\ Return("bind", "success")
         ELSE /\ Throw("bind")
              /\ UNCHANGED <<bindings, wanted>>
  /\ UNCHANGED <<result, buffer, cursor, undefined>>

(* SQLBindCol with a negative length, or with a column out of range.       *)
BindRefused ==
  /\ ~undefined
  /\ Throw("bind")
  /\ UNCHANGED <<result, app, cursor, undefined>>

(* Mutant: the columns that stay bound.                                    *)
KeepUnbound(c) == bindings

WithoutColumn(c) == [b \in DOMAIN bindings \ {c} |-> bindings[b]]

(* SQLBindCol without an indicator.                                        *)
Unbind(c) ==
  /\ ~undefined /\ c <= Len(columns)
  /\ bindings' = WithoutColumn(c)
  /\ wanted' = wanted \ {c}
  /\ Return("bind", "success")
  /\ UNCHANGED <<result, buffer, cursor, undefined>>

(* SQLDescribeCol and SQLColAttribute: nothing but the return code; the    *)
(* name may be cut, the field unknown.                                     *)
Describe(c) ==
  /\ MayFetch
  /\ \E code \in IF c > Len(columns) THEN {"error"}
                 ELSE IF columns[c] = "alien" THEN {"error"}
                 ELSE {"success", "info", "error"} : Return("describe", code)
  /\ UNCHANGED <<result, app, cursor, undefined>>

(* Mutant: the result is replaced when there is a cursor only.             *)
ResetWithCursor ==
  /\ failed' = FALSE /\ UNCHANGED <<opened, current>>
  /\ IF cursor = "closed" THEN UNCHANGED <<columns, ahead, rows, stale>>
     ELSE columns' = <<>> /\ ahead' = <<>> /\ rows' = 0 /\ stale' = FALSE

(* Statement::reset: a new ResultSet.  current_row stays.                  *)
Reset ==
  /\ columns' = <<>> /\ ahead' = <<>> /\ rows' = 0 /\ stale' = FALSE
  /\ failed' = FALSE
  /\ UNCHANGED <<opened, current>>

(* SQLCloseCursor: the bindings stay.                                      *)
CloseCursor ==
  /\ MayFetch
  /\ Reset
  /\ cursor' = "closed"
  /\ Return("closeCursor", "success")
  /\ UNCHANGED <<app, undefined>>

(* SQLFreeStmt(SQL_CLOSE): falls through to SQL_UNBIND.                    *)
Close ==
  /\ ~undefined
  /\ Reset
  /\ cursor' = "closed"
  /\ bindings' = <<>>
  /\ Return("close", "success")
  /\ UNCHANGED <<buffer, wanted, undefined>>

(* SQLFreeStmt(SQL_UNBIND).                                                *)
UnbindAll ==
  /\ ~undefined
  /\ bindings' = <<>>
  /\ wanted' = {}
  /\ Return("unbind", "success")
  /\ UNCHANGED <<result, buffer, cursor, undefined>>

(* What each kind of reply leads to.                                       *)
Execute ==
  \/ ExecuteNoColumns
  \/ \E r \in Results : ExecuteTable(r)
  \/ ExecuteRefused
  \/ \E r \in Results : ExecuteTornHeader(r)
  \/ \E r \in Results : ExecuteThrows(r)

RetrievalNext ==
  \/ Execute
  \/ FetchRow
  \/ FetchEnd
  \/ FetchThrows
  \/ FetchUndefined
  \/ FetchOther
  \/ \E c \in Columns, t \in Targets, m \in BufferSizes : GetData(c, t, m)
  \/ \E c \in Columns, t \in Targets, m \in BufferSizes : Bind(c, t, m)
  \/ BindRefused
  \/ \E c \in Columns : Unbind(c)
  \/ \E c \in Columns : Describe(c)
  \/ CloseCursor
  \/ Close
  \/ UnbindAll

RetrievalSpec == RetrievalInit /\ [][RetrievalNext]_retrievalVars

-----------------------------------------------------------------------------
(* Properties.  They speak of the time before undefined behaviour.         *)

(* A fetch has got a row.                                                  *)
Fetched == call = "fetch" /\ ret \in {"success", "info"} /\ ~undefined

(* A fetch that succeeds has filled every bound column, all from one row,  *)
(* the one that is current; none of them is beyond the columns of the      *)
(* result or the cells of the row, even if columns bound for an earlier,   *)
(* wider result are still bound or a failed request has left narrower rows *)
(* (impl_SQLFetch).                                                        *)
FetchFillsRow ==
  Fetched => \A c \in DOMAIN bindings :
    /\ c <= Len(columns) /\ c <= Len(current.cells)
    /\ buffer[c].result = current.result /\ buffer[c].row = current.row

(* As long as the application closes the statement after a request or a    *)
(* fetch that threw, SQLGetData reads the row that was counted last of the *)
(* result opened last, never one of an earlier result nor the empty row,   *)
(* whatever else has failed (current_row outlives Statement::reset).       *)
PositionedOnFetched ==
  cursor = "positioned" /\ ~failed =>
    current.result = opened /\ current.row = rows /\ rows > 0

(* SQL_SUCCESS_WITH_INFO from a fetch means that a bound column was cut,   *)
(* SQL_SUCCESS that none was, whichever the column and those after it.     *)
InfoTold ==
  Fetched => (ret = "info" <=> \E c \in DOMAIN bindings : buffer[c].ret = "info")

(* The driver writes only into buffers that the application has bound and  *)
(* not taken back, and only cells of the row that becomes current: also    *)
(* when columns bound for a wider result are still bound, and when the     *)
(* fetch fails half-way.                                                   *)
OnlyWantedWritten ==
  [][\A c \in Columns : buffer'[c] # buffer[c] =>
       /\ c \in wanted /\ c <= Len(columns) /\ c <= Len(current'.cells)
       /\ buffer'[c].result = current'.result /\ buffer'[c].row = current'.row]_retrievalVars

(* Whatever fails, what a bound buffer holds is never replaced by an       *)
(* earlier row of its result nor by one of an earlier result: no request   *)
(* or fetch that threw, and no end of the rows, fills it again from a row  *)
(* that it has held (impl_SQLFetch, Statement::fetchRow).                  *)
BuffersAdvance ==
  [][\A c \in Columns :
       buffer'[c] # buffer[c] =>
         \/ buffer'[c].result > buffer[c].result
         \/ buffer'[c].result = buffer[c].result /\ buffer'[c].row > buffer[c].row]_retrievalVars

(* handles.cpp says of SQL_CLOSE "If there is no cursor, then noop."       *)
CloseKeepsBindings ==
  [][call' = "close" /\ cursor = "closed" => bindings' = bindings]_retrievalVars
=============================================================================

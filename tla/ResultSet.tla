----------------------------- MODULE ResultSet ------------------------------
(***************************************************************************)
(* One statement's result set (driver/result_set.cpp) and the calls of     *)
(* statement.cpp and odbc.cpp that fill, read and drop it.                 *)
(*                                                                         *)
(* A reply is a stream of rows.  The driver decodes up to CacheSize rows   *)
(* ahead into current_block_buffer, moves up to row_array_size of them     *)
(* into current_block, and hands the rows of the block out one by one      *)
(* through an iterator.  A row is abstracted to the reply it came with and *)
(* its position there, which is all that order, loss and duplication are   *)
(* about.  The two loops of the code run one iteration per step.           *)
(***************************************************************************)
EXTENDS Integers, Sequences

CONSTANTS
  CacheSize,     (* rows decoded ahead at most: max_block_size, 1000       *)
  ArraySizes,    (* values the application gives SQL_ATTR_ROW_ARRAY_SIZE   *)
  MaxRows,       (* rows the server may put into a reply                   *)
  MaxReplies,    (* replies per behaviour; bounds the model                *)
  ClosesAfterError
    (* TRUE: after a failed call the application closes the cursor before  *)
    (* it uses the statement again.  FALSE: it does whatever the driver    *)
    (* manager lets it do.                                                 *)

ASSUME ResultSetAssumption ==
  /\ CacheSize \in Nat \ {0}
  /\ ArraySizes \subseteq Nat
  /\ MaxRows \in Nat
  /\ MaxReplies \in Nat
  /\ ClosesAfterError \in BOOLEAN

VARIABLES
  (* the stream `in` points to *)
  reply,         (* number of the reply it carries, 0 before the first     *)
  size,          (* rows the server put into that reply                    *)
  avail,         (* rows of it that arrive whole                           *)
  tail,          (* what follows them: "end" or a "torn" row               *)
  pos,           (* rows decoded so far                                    *)
  (* the result set *)
  mutator,       (* "none" (EmptyMutator) or "columns" (ColumnsMutator)    *)
  columns,       (* columns_info is not empty                              *)
  buffer,        (* current_block_buffer                                   *)
  block,         (* current_block.data                                     *)
  iterator,      (* index in block of the next row; Len(block)+1 is end()  *)
  stale,         (* block was cleared after iterator was set               *)
  rows,          (* the count given to SQLRowCount and *rows_fetched_ptr   *)
  (* the statement and the call in progress *)
  arraySize,     (* row_array_size                                         *)
  pc,            (* "idle", or the loop that runs: "block" or "cache"      *)
  call,          (* the call made last: "execute", "fetch", "other"        *)
  code,          (* its return code                                        *)
  (* the driver manager's and the application's view *)
  open,          (* the driver manager knows of an open cursor             *)
  failed,        (* a call failed since the cursor was last closed         *)
  last,          (* the row handed out last                                *)
  got,           (* rows handed out since the last request was answered    *)
  undefined      (* the code has executed undefined behaviour              *)

stream == <<reply, size, avail, tail, pos>>
result == <<mutator, columns, buffer, block, iterator, stale, rows>>
client == <<open, failed, last, got, undefined>>
vars == <<stream, result, arraySize, pc, call, code, client>>

Row(r, p) == [reply |-> r, pos |-> p]
NoRow == Row(0, 0)
Rows == [reply : Nat, pos : Nat]

StreamType ==
  /\ reply \in Nat /\ size \in Nat /\ avail \in Nat /\ pos \in Nat
  /\ tail \in {"end", "torn"}

ResultType ==
  /\ mutator \in {"none", "columns"}
  /\ buffer \in Seq(Rows) /\ block \in Seq(Rows)
  /\ iterator \in Nat \ {0} /\ rows \in Nat
  /\ last \in Rows /\ got \in Nat

CallType ==
  /\ arraySize \in Nat
  /\ pc \in {"idle", "block", "cache"}
  /\ call \in {"execute", "fetch", "other"}
  /\ code \in {"SUCCESS", "NO_DATA", "ERROR", "RUNNING", "CRASH"}

FlagType ==
  /\ columns \in BOOLEAN /\ stale \in BOOLEAN
  /\ open \in BOOLEAN /\ failed \in BOOLEAN /\ undefined \in BOOLEAN

(* Every variable has its type: rows stay rows on their way through cache  *)
(* and block, no counter runs below zero and the iterator never points     *)
(* before begin().                                                         *)
TypeOK == StreamType /\ ResultType /\ CallType /\ FlagType

Init ==
  /\ reply = 0 /\ size = 0 /\ avail = 0 /\ tail = "end" /\ pos = 0
  /\ mutator = "none" /\ columns = FALSE /\ buffer = <<>> /\ block = <<>>
  /\ iterator = 1 /\ stale = FALSE /\ rows = 0
  /\ arraySize = 1
  /\ pc = "idle" /\ call = "other" /\ code = "SUCCESS"
  /\ open = FALSE /\ failed = FALSE /\ undefined = FALSE
  /\ last = NoRow /\ got = 0

-----------------------------------------------------------------------------
(* What the driver manager and the application's own care let through.     *)

Idle == pc = "idle" /\ ~undefined
Careful == ClosesAfterError => ~failed
MayExecute == Idle /\ ~open /\ Careful
MayFetch == Idle /\ open /\ Careful

-----------------------------------------------------------------------------
(* How a call ends.                                                        *)

Return(c) == pc' = "idle" /\ code' = c

(* An exception reaches doWith.                                            *)
Throw == Return("ERROR") /\ failed' = TRUE

(* The stream is gone or no longer good: peek() says EOF from now on.      *)
EndStream ==
  /\ avail' = pos /\ tail' = "end"
  /\ UNCHANGED <<reply, size, pos>>

(* Variant with a defect: the counter runs down.                           *)
HandOutCountingDown(b, i) ==
  /\ last' = b[i]
  /\ iterator' = i + 1
  /\ rows' = rows - 1
  /\ got' = got + 1
  /\ Return("SUCCESS")

(* *iterator++ *)
HandOut(b, i) ==
  /\ last' = b[i]
  /\ iterator' = i + 1
  /\ rows' = rows + 1
  /\ got' = got + 1
  /\ Return("SUCCESS")

-----------------------------------------------------------------------------
(* SQLSetStmtAttr(SQL_ATTR_ROW_ARRAY_SIZE): any value is taken.            *)
SetArraySize(n) ==
  /\ Idle
  /\ arraySize' = n
  /\ call' = "other" /\ code' = "SUCCESS"
  /\ UNCHANGED <<stream, result, pc, client>>

(* Variant with a defect: the rows decoded ahead survive.                  *)
ClearAllButBuffer ==
  /\ mutator' = "none" /\ columns' = FALSE
  /\ buffer' = buffer /\ block' = <<>>
  /\ iterator' = 1 /\ stale' = FALSE /\ rows' = 0

(* result = ResultSet()                                                    *)
ClearResult ==
  /\ mutator' = "none" /\ columns' = FALSE
  /\ buffer' = <<>> /\ block' = <<>>
  /\ iterator' = 1 /\ stale' = FALSE /\ rows' = 0

(* SQLCloseCursor and SQLFreeStmt(SQL_CLOSE): Statement::reset.            *)
CloseCursor ==
  /\ Idle
  /\ EndStream
  /\ ClearResult
  /\ open' = FALSE /\ failed' = FALSE
  /\ call' = "other" /\ Return("SUCCESS")
  /\ UNCHANGED <<arraySize, last, got, undefined>>

(* sendRequest throws before it reaches ResultSet::init: no connection,    *)
(* no retry left, or a status other than 200.  The result set stays.       *)
ExecuteRefused ==
  /\ MayExecute
  /\ call' = "execute" /\ Throw
  /\ EndStream
  /\ UNCHANGED <<result, arraySize, open, last, got, undefined>>

(* A new reply replaces the stream; nothing of the result set is cleared.  *)
NewReply(n, k, t) ==
  /\ MayExecute
  /\ reply < MaxReplies
  /\ reply' = reply + 1
  /\ size' = n /\ avail' = k /\ tail' = t /\ pos' = 0
  /\ mutator' \in {"none", "columns"}
  /\ got' = 0
  /\ call' = "execute"

(* A reply with no result set, or one that breaks off before its first     *)
(* header row is complete, which readSize does not notice: ResultSet::init *)
(* returns early.  The driver manager sees a cursor iff SQLNumResultCols   *)
(* is not zero.                                                            *)
ExecuteNoHeader(n) ==
  /\ NewReply(n, 0, "end")
  /\ Return("SUCCESS")
  /\ open' = columns
  /\ UNCHANGED <<columns, buffer, block, iterator, stale, rows, arraySize, failed, last,
                 undefined>>

(* The reply breaks off among the column names, or ColumnsMutator finds    *)
(* fewer than five of them: columns_info already has its new length when   *)
(* the exception leaves ResultSet::init.                                   *)
ExecuteTornHeader ==
  /\ NewReply(0, 0, "end")
  /\ columns' = TRUE
  /\ Throw
  /\ UNCHANGED <<buffer, block, iterator, stale, rows, arraySize, open, last, undefined>>

(* Variant with a defect: the old rows stay in the block.                  *)
StartBlockUncleared ==
  /\ block' = block /\ stale' = TRUE
  /\ pc' = "block" /\ code' = "RUNNING"

(* readNextBlock starts by emptying the block, which leaves the iterator   *)
(* pointing into nothing until the loop is done.  It then reserves memory  *)
(* for the array size, taken to be there: a size so large that reserve     *)
(* throws would end the call as a torn first row does.                     *)
StartBlock ==
  /\ block' = <<>> /\ stale' = TRUE
  /\ pc' = "block" /\ code' = "RUNNING"

(* A reply with a header: n rows were sent, the first k arrive whole.  The *)
(* connection breaks off between two rows (k < n, tail "end") or within    *)
(* one (tail "torn").                                                      *)
ExecuteTable(n, k, t) ==
  /\ t = "torn" => k < n
  /\ NewReply(n, k, t)
  /\ columns' = TRUE
  /\ StartBlock
  /\ UNCHANGED <<buffer, iterator, rows, arraySize, open, failed, last, undefined>>

-----------------------------------------------------------------------------
(* SQLFetch: Statement::fetchRow, ResultSet::fetch.  Its early return on   *)
(* an empty result is out of reach: without columns there is no cursor and *)
(* the driver manager refuses the call.                                    *)

FetchFromBlock ==
  /\ MayFetch /\ columns /\ ~stale /\ iterator <= Len(block)
  /\ call' = "fetch" /\ HandOut(block, iterator)
  /\ UNCHANGED <<stream, mutator, columns, buffer, block, stale, arraySize, open, failed, undefined>>

FetchNextBlock ==
  /\ MayFetch /\ columns /\ ~stale /\ iterator = Len(block) + 1
  /\ call' = "fetch" /\ StartBlock
  /\ UNCHANGED <<stream, mutator, columns, buffer, iterator, rows, arraySize, client>>

(* The iterator outlived the block it pointed into: the comparison with    *)
(* end() and the row behind it are undefined.  A build may crash, hand out *)
(* what the memory holds, or find "the end".                               *)
FetchUndefined ==
  /\ MayFetch /\ columns /\ stale
  /\ call' = "fetch"
  /\ \E c \in {"SUCCESS", "NO_DATA", "CRASH"} : Return(c)
  /\ undefined' = TRUE
  /\ UNCHANGED <<stream, result, arraySize, open, failed, last, got>>

-----------------------------------------------------------------------------
(* readNextBlock.  Its counter i is Len(block).                            *)

TakeRow ==
  /\ pc = "block" /\ Len(block) < arraySize /\ buffer # <<>>
  /\ block' = Append(block, Head(buffer))
  /\ buffer' = Tail(buffer)
  /\ UNCHANGED <<stream, mutator, columns, iterator, stale, rows, arraySize, pc, call, code,
                 client>>

(* ColumnsMutator::UpdateRow throws on a row with too few fields or an     *)
(* unknown type: the row has left the buffer already.                      *)
UpdateRowFails ==
  /\ pc = "block" /\ Len(block) < arraySize /\ buffer # <<>>
  /\ mutator = "columns"
  /\ buffer' = Tail(buffer)
  /\ Throw
  /\ UNCHANGED <<stream, mutator, columns, block, iterator, stale, rows, arraySize, call,
                 open, last, got, undefined>>

StartCache ==
  /\ pc = "block" /\ Len(block) < arraySize /\ buffer = <<>>
  /\ pc' = "cache"
  /\ UNCHANGED <<stream, result, arraySize, call, code, client>>

(* Variant with a defect: an empty block returns before the iterator is    *)
(* set.                                                                    *)
FinishBlockEarlyReturn ==
  \/ /\ block = <<>>
     /\ open' = TRUE
     /\ Return(IF call = "fetch" THEN "NO_DATA" ELSE "SUCCESS")
     /\ UNCHANGED <<stream, result, arraySize, call, failed, last, got, undefined>>
  \/ /\ block # <<>>
     /\ stale' = FALSE
     /\ open' = TRUE
     /\ IF call = "fetch" THEN HandOut(block, 1)
        ELSE iterator' = 1 /\ Return("SUCCESS") /\ UNCHANGED <<rows, got, last>>
     /\ UNCHANGED <<stream, mutator, columns, buffer, block, arraySize, call, failed,
                    undefined>>

(* readNextBlock is done: the iterator is valid again.  SQLExecute returns *)
(* and SQLFetch looks at the block.                                        *)
FinishBlock ==
  /\ stale' = FALSE
  /\ \/ /\ call = "execute"
        /\ iterator' = 1
        /\ open' = TRUE
        /\ Return("SUCCESS")
        /\ UNCHANGED <<rows, got, last>>
     \/ /\ call = "fetch" /\ block = <<>>
        /\ iterator' = 1
        /\ Return("NO_DATA")
        /\ UNCHANGED <<rows, got, last, open>>
     \/ /\ call = "fetch" /\ block # <<>>
        /\ HandOut(block, 1)
        /\ UNCHANGED open
  /\ UNCHANGED <<stream, mutator, columns, buffer, block, arraySize, call, failed, undefined>>

BlockFull ==
  /\ pc = "block" /\ Len(block) >= arraySize
  /\ FinishBlock

-----------------------------------------------------------------------------
(* readNextBlockCache.  It is called on an empty buffer, so its counters i *)
(* and readed are Len(buffer).                                             *)

ReadRow ==
  /\ pc = "cache" /\ Len(buffer) < CacheSize /\ pos < avail
  /\ buffer' = Append(buffer, Row(reply, pos + 1))
  /\ pos' = pos + 1
  /\ UNCHANGED <<reply, size, avail, tail, mutator, columns, block, iterator, stale, rows,
                 arraySize, pc, call, code, client>>

(* "Incomplete result received."                                           *)
ReadTornRow ==
  /\ pc = "cache" /\ Len(buffer) < CacheSize /\ pos = avail /\ tail = "torn"
  /\ Throw
  /\ EndStream
  /\ UNCHANGED <<result, arraySize, call, open, last, got, undefined>>

(* Variant with a defect: a torn row passes for the end of the stream.     *)
NoMoreWholeRows == Len(buffer) = CacheSize \/ pos = avail

NoMoreRows == Len(buffer) = CacheSize \/ (pos = avail /\ tail = "end")

CacheFilled ==
  /\ pc = "cache" /\ NoMoreRows /\ buffer # <<>>
  /\ pc' = "block"
  /\ UNCHANGED <<stream, result, arraySize, call, code, client>>

(* Variant with a defect: the loop of readNextBlock ignores that the cache *)
(* found nothing.                                                          *)
CacheEmptyIgnored ==
  /\ pc = "cache" /\ NoMoreRows /\ buffer = <<>>
  /\ pc' = "block"
  /\ UNCHANGED <<stream, result, arraySize, call, code, client>>

CacheEmpty ==
  /\ pc = "cache" /\ NoMoreRows /\ buffer = <<>>
  /\ FinishBlock

-----------------------------------------------------------------------------
Loop ==
  \/ TakeRow \/ StartCache \/ BlockFull
  \/ ReadRow \/ ReadTornRow \/ CacheFilled \/ CacheEmpty

Next ==
  \/ \E n \in ArraySizes : SetArraySize(n)
  \/ CloseCursor
  \/ ExecuteRefused
  \/ ExecuteTornHeader
  \/ \E n \in 0 .. MaxRows :
       \/ ExecuteNoHeader(n)
       \/ \E k \in 0 .. n : \E t \in {"end", "torn"} : ExecuteTable(n, k, t)
  \/ FetchFromBlock
  \/ FetchNextBlock
  \/ FetchUndefined
  \/ UpdateRowFails
  \/ Loop

Spec == Init /\ [][Next]_vars

(* A call that runs keeps running: the loops are ordinary sequential code. *)
FairSpec == Spec /\ WF_vars(Loop)

-----------------------------------------------------------------------------
(* Properties.                                                             *)

Before(a, b) == a.reply < b.reply \/ (a.reply = b.reply /\ a.pos < b.pos)

(* Every row handed out comes after the one handed out before it, in the   *)
(* order the server sent them: SQLFetch never repeats a row and never goes *)
(* back, whatever calls failed or were left out, as long as the code stays *)
(* within defined behaviour.                                               *)
DeliveredInOrder == [][last' # last => Before(last, last')]_vars

(* The next row of the stream.                                             *)
Ahead == Row(reply, pos + 1)

InOrder(s) == \A i, j \in 1 .. Len(s) : i < j => Before(s[i], s[j])

(* The rows of the block that are still to be handed out.                  *)
ToHandOut(i) == pc # "idle" \/ (~stale /\ iterator <= i)

(* On their way rows stand in four places: handed out, in the block, in    *)
(* the cache, still in the stream.  Every row of a later place comes after *)
(* every row of an earlier one; this is what makes DeliveredInOrder hold.  *)
OrderInv ==
  /\ InOrder(block)
  /\ InOrder(buffer)
  /\ \A i \in 1 .. Len(block) : \A j \in 1 .. Len(buffer) : Before(block[i], buffer[j])
  /\ \A i \in 1 .. Len(block) : Before(block[i], Ahead)
  /\ \A j \in 1 .. Len(buffer) : Before(buffer[j], Ahead)
  /\ \A i \in 1 .. Len(block) : ToHandOut(i) => Before(last, block[i])
  /\ \A j \in 1 .. Len(buffer) : Before(last, buffer[j])
  /\ Before(last, Ahead)

(* Between calls the iterator points into the current block or to its end, *)
(* unless a call has failed and the cursor was not closed since: fetch     *)
(* compares it with end() and dereferences it without a check.             *)
IteratorValid == pc = "idle" /\ ~failed => ~stale /\ iterator <= Len(block) + 1

(* The n-th row fetched after a request is the n-th row of its reply: the  *)
(* cache, the block and the iterator together skip nothing and mix nothing *)
(* of an earlier reply in.                                                 *)
FetchedIsPrefix == got > 0 => last = Row(reply, got)

(* SQL_NO_DATA is returned only when every row that arrived has been       *)
(* handed out and no torn row follows, unless the application asked for    *)
(* blocks of no rows at all.                                               *)
NoDataOnlyAtEnd ==
  call = "fetch" /\ code = "NO_DATA" => arraySize = 0 \/ (got = avail /\ tail = "end")

(* A reply is being read, and how many rows of the block are handed out.   *)
Reading == pc # "idle" \/ open
Taken == IF pc = "idle" THEN iterator - 1 ELSE 0

(* While a reply is read without an error, what the application has, what  *)
(* is left of the block, the cache and the stream follow each other        *)
(* without a gap; otherwise nothing of an earlier reply is kept.  This is  *)
(* what makes FetchedIsPrefix and NoDataOnlyAtEnd hold.                    *)
PipelineInv ==
  /\ pc # "idle" => code = "RUNNING" /\ ~failed /\ (call = "fetch" => open)
  /\ ~failed /\ Reading =>
       /\ columns
       /\ \A i \in 1 .. Len(block) : i > Taken => block[i] = Row(reply, got + i - Taken)
       /\ \A j \in 1 .. Len(buffer) :
            buffer[j] = Row(reply, got + Len(block) - Taken + j)
       /\ pos = got + Len(block) - Taken + Len(buffer)
  /\ ~failed /\ ~Reading => ~columns /\ block = <<>> /\ buffer = <<>>

(* SQLExecute and SQLFetch return: the loops of readNextBlock and          *)
(* readNextBlockCache end whatever arrives.                                *)
CallsReturn == pc # "idle" ~> pc = "idle"

(* The result set as the cursor of Cursor.tla.                             *)
CursorState == IF failed THEN "failed" ELSE IF open THEN "open" ELSE "closed"

C == INSTANCE Cursor WITH
       state <- CursorState,
       arrived <- IF failed \/ (~open /\ pc = "idle") THEN 0 ELSE avail,
       row <- last,
       answer <- code

(* Under an application that closes the cursor after an error, cache,      *)
(* block and iterator implement the forward-only cursor.                   *)
ImplementsCursor == C!Spec
=============================================================================

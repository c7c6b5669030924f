-------------------------- MODULE ResultSetProofs ---------------------------
(***************************************************************************)
(* Proofs about ResultSet, for every cache size, block size, reply length  *)
(* and number of replies.                                                  *)
(***************************************************************************)
EXTENDS ResultSet, TLAPS

(* What ReadRow puts into the cache is a row.                              *)
LEMMA RowType == ASSUME NEW r \in Nat, NEW p \in Nat PROVE Row(r, p) \in Rows
  BY DEF Row, Rows

(* The empty cache and the empty block.                                    *)
LEMMA NoRows == <<>> \in Seq(Rows)
  OBVIOUS

(* The steps of the two loops and the calls that clear the result set      *)
(* build their sequences of rows with these.                               *)
LEMMA RowSequences ==
  ASSUME NEW s \in Seq(Rows)
  PROVE  /\ \A x \in Rows : Append(s, x) \in Seq(Rows)
         /\ s # <<>> => s[1] \in Rows /\ Head(s) \in Rows /\ Tail(s) \in Seq(Rows)
         /\ \A i \in 1 .. Len(s) : s[i] \in Rows
  OBVIOUS

(* Every step keeps the variables in their types; above all the iterator,  *)
(* the counters and the rows that pass through the cache and the block.    *)
LEMMA TypeStep == TypeOK /\ [Next]_vars => TypeOK'
<1> SUFFICES ASSUME TypeOK, [Next]_vars PROVE TypeOK'
  OBVIOUS
<1> USE ResultSetAssumption DEF TypeOK, StreamType, ResultType, CallType, FlagType, stream, result, client,
        Return, Throw, EndStream, Idle, MayExecute, MayFetch
<1>1. ASSUME NEW n \in ArraySizes, SetArraySize(n) PROVE TypeOK'
  BY <1>1 DEF SetArraySize
<1>2. CASE CloseCursor
  <2>1. ResultType'
    BY NoRows, <1>2 DEF CloseCursor, ClearResult
  <2>2. StreamType' /\ CallType'
    BY <1>2 DEF CloseCursor
  <2>3. FlagType'
    BY <1>2 DEF CloseCursor, ClearResult
  <2> QED
    BY <2>1, <2>2, <2>3
<1>3. CASE ExecuteRefused
  BY <1>3 DEF ExecuteRefused
<1>4. CASE ExecuteTornHeader
  BY <1>4 DEF ExecuteTornHeader, NewReply
<1>5. ASSUME NEW n \in 0 .. MaxRows, ExecuteNoHeader(n) PROVE TypeOK'
  BY <1>5 DEF ExecuteNoHeader, NewReply
<1>6. ASSUME NEW n \in 0 .. MaxRows, NEW k \in 0 .. n, NEW t \in {"end", "torn"},
             ExecuteTable(n, k, t)
      PROVE TypeOK'
  BY NoRows, <1>6 DEF ExecuteTable, NewReply, StartBlock
<1>7. CASE FetchFromBlock
  <2>1. block[iterator] \in Rows
    BY <1>7, RowSequences DEF FetchFromBlock
  <2> QED
    BY <1>7, <2>1 DEF FetchFromBlock, HandOut
<1>8. CASE FetchNextBlock
  BY NoRows, <1>8 DEF FetchNextBlock, StartBlock
<1>9. CASE FetchUndefined
  BY <1>9 DEF FetchUndefined
<1>10. CASE TakeRow
  BY RowSequences, <1>10 DEF TakeRow
<1>11. CASE UpdateRowFails
  BY RowSequences, <1>11 DEF UpdateRowFails
<1>12. CASE StartCache
  BY <1>12 DEF StartCache
<1>13. CASE FinishBlock
  <2>1. block # <<>> => block[1] \in Rows
    BY RowSequences, <1>13
  <2>2. (StreamType /\ CallType /\ FlagType)'
    BY <1>13 DEF FinishBlock, HandOut
  <2>3. ResultType'
    BY <1>13, <2>1 DEF FinishBlock, HandOut
  <2> QED
    BY <2>2, <2>3
<1>14. CASE ReadRow
  BY RowSequences, RowType, <1>14 DEF ReadRow
<1>15. CASE ReadTornRow
  BY <1>15 DEF ReadTornRow
<1>16. CASE CacheFilled
  BY <1>16 DEF CacheFilled
<1>17. CASE UNCHANGED vars
  BY <1>17 DEF vars
<1> QED
  BY <1>1, <1>2, <1>3, <1>4, <1>5, <1>6, <1>7, <1>8, <1>9, <1>10, <1>11, <1>12,
     <1>13, <1>14, <1>15, <1>16, <1>17 DEF Next, Loop, BlockFull, CacheEmpty

(* The result set's variables have their types in every reachable state.   *)
THEOREM TypeCorrect == Spec => []TypeOK
<1>1. Init => TypeOK
  <2>1. Init => StreamType /\ CallType
    BY DEF Init, StreamType, CallType
  <2>3. Init => FlagType
    BY DEF Init, FlagType
  <2>2. Init => ResultType
    BY NoRows, RowType DEF Init, ResultType, NoRow
  <2> QED
    BY <2>1, <2>2, <2>3 DEF TypeOK
<1> QED
  BY <1>1, TypeStep, PTL DEF Spec

-----------------------------------------------------------------------------
(* The iterator.                                                           *)

(* Every step that leaves the iterator dangling leaves a call running or    *)
(* failed.                                                                 *)
LEMMA IteratorStep == TypeOK /\ IteratorValid /\ [Next]_vars => IteratorValid'
<1> SUFFICES ASSUME TypeOK, IteratorValid, [Next]_vars PROVE IteratorValid'
  OBVIOUS
<1> USE DEF TypeOK, ResultType, CallType, FlagType, IteratorValid, stream, result, client,
        Return, Throw, Idle, MayExecute, MayFetch
<1>1. ASSUME NEW n \in ArraySizes, SetArraySize(n) PROVE IteratorValid'
  BY <1>1 DEF SetArraySize
<1>2. CASE CloseCursor
  BY <1>2 DEF CloseCursor, ClearResult
<1>3. CASE ExecuteRefused \/ ExecuteTornHeader \/ UpdateRowFails \/ ReadTornRow
  BY <1>3 DEF ExecuteRefused, ExecuteTornHeader, UpdateRowFails, ReadTornRow
<1>4. ASSUME NEW n \in 0 .. MaxRows, ExecuteNoHeader(n) PROVE IteratorValid'
  BY <1>4 DEF ExecuteNoHeader, NewReply
<1>5. ASSUME NEW n \in 0 .. MaxRows, NEW k \in 0 .. n, NEW t \in {"end", "torn"},
             ExecuteTable(n, k, t)
      PROVE IteratorValid'
  BY <1>5 DEF ExecuteTable, StartBlock
<1>6. CASE FetchUndefined
  BY <1>6 DEF FetchUndefined
<1>7. CASE FetchFromBlock
  BY <1>7 DEF FetchFromBlock, HandOut
<1>8. CASE FetchNextBlock
  BY <1>8 DEF FetchNextBlock, StartBlock
<1>9. CASE TakeRow \/ StartCache \/ ReadRow \/ CacheFilled
  BY <1>9 DEF TakeRow, StartCache, ReadRow, CacheFilled
<1>10. CASE FinishBlock
  BY <1>10 DEF FinishBlock, HandOut
<1>11. CASE UNCHANGED vars
  BY <1>11 DEF vars
<1> QED
  BY <1>1, <1>2, <1>3, <1>4, <1>5, <1>6, <1>7, <1>8, <1>9, <1>10, <1>11
     DEF Next, Loop, BlockFull, CacheEmpty

(* Unless a call has failed since the cursor was closed, SQLFetch finds a  *)
(* valid iterator, whatever sizes and replies the behaviour has.           *)
THEOREM IteratorAlwaysValid == Spec => []IteratorValid
<1>1. Init => IteratorValid
  BY DEF Init, IteratorValid
<1> QED
  BY <1>1, TypeCorrect, IteratorStep, PTL DEF Spec

-----------------------------------------------------------------------------
(* The order of the rows: OrderInv is inductive.                           *)

(* What comes before the next row of the stream comes before the row after *)
(* that one, and before the first row of the next reply.                   *)
LEMMA AheadGrows ==
  ASSUME NEW x \in Rows, NEW r \in Nat, NEW p \in Nat, Before(x, Row(r, p + 1))
  PROVE  Before(x, Row(r, p + 2)) /\ Before(x, Row(r + 1, 1))
  BY DEF Rows, Row, Before

(* The row after the next one comes after it.                              *)
LEMMA AheadAdvances ==
  ASSUME NEW r \in Nat, NEW p \in Nat
  PROVE  Before(Row(r, p + 1), Row(r, p + 2))
  BY DEF Row, Before

(* Steps that move no row: the four places stay as they are and no row of  *)
(* the block becomes due again.                                            *)
LEMMA OrderFrame ==
  ASSUME TypeOK, OrderInv, UNCHANGED <<reply, pos, block, buffer, last>>,
         \A i \in 1 .. Len(block) : ToHandOut(i)' => ToHandOut(i)
  PROVE  OrderInv'
  BY DEF OrderInv, InOrder, Ahead

(* Steps that drop what is in the block, and the next reply as well as     *)
(* the old one keep the rest in order.                                     *)
LEMMA OrderNoBlock ==
  ASSUME TypeOK, OrderInv, block' = <<>>, UNCHANGED <<buffer, last>>,
         \/ UNCHANGED <<reply, pos>>
         \/ reply' = reply + 1 /\ pos' = 0
  PROVE  OrderInv'
<1> USE DEF TypeOK, StreamType, ResultType
<1>1. \A j \in 1 .. Len(buffer) : buffer[j] \in Rows
  BY RowSequences
<1>2. /\ \A j \in 1 .. Len(buffer) : Before(buffer[j], Ahead')
      /\ Before(last, Ahead')
  <2>1. CASE UNCHANGED <<reply, pos>>
    BY <2>1 DEF OrderInv, Ahead
  <2>2. CASE reply' = reply + 1 /\ pos' = 0
    <3>1. Ahead' = Row(reply + 1, 1)
      BY <2>2 DEF Ahead
    <3> QED
      BY <1>1, <3>1, AheadGrows DEF OrderInv, Ahead
  <2> QED
    BY <2>1, <2>2
<1>4. InOrder(block)'
  BY DEF InOrder
<1>5. InOrder(buffer)' /\ \A j \in 1 .. Len(buffer') : Before(last', buffer'[j])
  BY DEF OrderInv, InOrder
<1>6. \A j \in 1 .. Len(buffer') : Before(buffer'[j], Ahead')
  BY <1>2
<1>7. Len(block') = 0
  OBVIOUS
<1> QED
  BY <1>2, <1>4, <1>5, <1>6, <1>7 DEF OrderInv

(* A new reply that leaves block and cache alone.                          *)
LEMMA OrderNewReply ==
  ASSUME TypeOK, OrderInv, UNCHANGED <<block, buffer, last>>,
         reply' = reply + 1, pos' = 0,
         \A i \in 1 .. Len(block) : ToHandOut(i)' => ToHandOut(i)
  PROVE  OrderInv'
<1> USE DEF TypeOK, StreamType, ResultType
<1>1. \A j \in 1 .. Len(buffer) : Before(buffer[j], Ahead')
  BY RowSequences, AheadGrows DEF OrderInv, Ahead
<1>2. \A i \in 1 .. Len(block) : Before(block[i], Ahead')
  BY RowSequences, AheadGrows DEF OrderInv, Ahead
<1>3. Before(last, Ahead')
  BY AheadGrows DEF OrderInv, Ahead
<1> QED
  BY <1>1, <1>2, <1>3 DEF OrderInv, InOrder

(* A row leaves the block for the application.                             *)
LEMMA OrderHandOut ==
  ASSUME TypeOK, OrderInv, UNCHANGED <<reply, pos, block, buffer>>,
         NEW i \in 1 .. Len(block), last' = block[i],
         \A j \in 1 .. Len(block) : ToHandOut(j)' => i < j
  PROVE  OrderInv'
<1>1. \A j \in 1 .. Len(block) : ToHandOut(j)' => Before(last', block[j])
  BY DEF OrderInv, InOrder
<1>2. Ahead' = Ahead
  BY DEF Ahead
<1> QED
  BY <1>1, <1>2 DEF OrderInv, InOrder

(* readNextBlock is done.                                                  *)
LEMMA OrderFinish ==
  ASSUME TypeOK, OrderInv, FinishBlock, pc # "idle"
  PROVE  OrderInv'
<1> USE DEF FinishBlock, stream, Return, HandOut
<1>1. CASE UNCHANGED last
  BY <1>1, OrderFrame DEF ToHandOut
<1>2. CASE block # <<>> /\ HandOut(block, 1)
  <2>1. 1 \in 1 .. Len(block)
    BY <1>2 DEF TypeOK, ResultType
  <2> QED
    BY <1>2, <2>1, OrderHandOut DEF ToHandOut
<1> QED
  BY <1>1, <1>2

(* The first row of the cache leaves it, without a trace...                *)
LEMMA OrderDropRow ==
  ASSUME TypeOK, OrderInv, buffer # <<>>, buffer' = Tail(buffer),
         UNCHANGED <<reply, pos, block, last>>,
         \A i \in 1 .. Len(block) : ToHandOut(i)' => ToHandOut(i)
  PROVE  OrderInv'
<1>1. /\ Len(buffer') = Len(buffer) - 1
      /\ \A j \in 1 .. Len(buffer') : j + 1 \in 1 .. Len(buffer) /\ buffer'[j] = buffer[j + 1]
  BY DEF TypeOK, ResultType
<1>2. InOrder(buffer')
  BY <1>1 DEF OrderInv, InOrder, TypeOK, ResultType
<1>3. Ahead' = Ahead
  BY DEF Ahead
<1> QED
  BY <1>1, <1>2, <1>3 DEF OrderInv, InOrder

(* ... or for the end of the block.                                        *)
LEMMA OrderTakeRow ==
  ASSUME TypeOK, OrderInv, buffer # <<>>, pc # "idle", pc' # "idle",
         buffer' = Tail(buffer), block' = Append(block, Head(buffer)),
         UNCHANGED <<reply, pos, last>>
  PROVE  OrderInv'
<1> USE DEF TypeOK, ResultType
<1>1. /\ Len(buffer') = Len(buffer) - 1
      /\ \A j \in 1 .. Len(buffer') : j + 1 \in 1 .. Len(buffer) /\ buffer'[j] = buffer[j + 1]
  OBVIOUS
<1>2. /\ Len(block') = Len(block) + 1
      /\ \A i \in 1 .. Len(block) : block'[i] = block[i]
      /\ block'[Len(block) + 1] = buffer[1]
      /\ 1 \in 1 .. Len(buffer)
      /\ Len(block) \in Nat
  OBVIOUS
<1>3. InOrder(buffer')
  BY <1>1 DEF OrderInv, InOrder
<1>4. InOrder(block')
  <2> SUFFICES ASSUME NEW i \in 1 .. Len(block'), NEW j \in 1 .. Len(block'), i < j
               PROVE  Before(block'[i], block'[j])
    BY DEF InOrder
  <2>1. CASE j \in 1 .. Len(block)
    BY <1>2, <2>1 DEF OrderInv, InOrder
  <2>2. CASE j = Len(block) + 1
    <3>1. i \in 1 .. Len(block)
      BY <1>2, <2>2
    <3>2. Before(block[i], buffer[1])
      BY <1>2, <3>1 DEF OrderInv
    <3>3. block'[i] = block[i] /\ block'[j] = buffer[1]
      BY <1>2, <2>2, <3>1
    <3> QED
      BY <3>2, <3>3
  <2>3. j \in 1 .. Len(block) \/ j = Len(block) + 1
    <3>1. Len(block') = Len(block) + 1 /\ Len(block) \in Nat
      BY <1>2
    <3> HIDE DEF TypeOK, ResultType
    <3> QED
      BY <3>1
  <2> QED
    BY <2>1, <2>2, <2>3
<1>5. \A i \in 1 .. Len(block') : \A j \in 1 .. Len(buffer') : Before(block'[i], buffer'[j])
  BY <1>1, <1>2 DEF OrderInv, InOrder
<1>6. \A i \in 1 .. Len(block') : Before(block'[i], Ahead) /\ Before(last, block'[i])
  BY <1>2 DEF OrderInv, ToHandOut
<1>7. Ahead' = Ahead
  BY DEF Ahead
<1> QED
  BY <1>1, <1>3, <1>4, <1>5, <1>6, <1>7 DEF OrderInv, InOrder

(* The next row of the stream becomes the last of the cache.               *)
LEMMA OrderReadRow ==
  ASSUME TypeOK, OrderInv, ReadRow
  PROVE  OrderInv'
<1> USE DEF TypeOK, StreamType, ResultType, ReadRow
<1>1. /\ Len(buffer') = Len(buffer) + 1
      /\ \A j \in 1 .. Len(buffer) : buffer'[j] = buffer[j]
      /\ buffer'[Len(buffer) + 1] = Ahead
      /\ Len(buffer) \in Nat
  BY RowType DEF Ahead
<1>2. Ahead' = Row(reply, pos + 2)
  BY DEF Ahead
<1>3. Before(Ahead, Ahead')
  BY <1>2, AheadAdvances DEF Ahead
<1>4. \A j \in 1 .. Len(buffer) : Before(buffer[j], Ahead')
  BY <1>2, RowSequences, AheadGrows DEF OrderInv, Ahead
<1>5. \A i \in 1 .. Len(block) : Before(block[i], Ahead')
  BY <1>2, RowSequences, AheadGrows DEF OrderInv, Ahead
<1>6. Before(last, Ahead')
  BY <1>2, AheadGrows DEF OrderInv, Ahead
<1>7. InOrder(buffer')
  <2> SUFFICES ASSUME NEW i \in 1 .. Len(buffer'), NEW j \in 1 .. Len(buffer'), i < j
               PROVE  Before(buffer'[i], buffer'[j])
    BY DEF InOrder
  <2>1. CASE j \in 1 .. Len(buffer)
    BY <1>1, <2>1 DEF OrderInv, InOrder
  <2>2. CASE j = Len(buffer) + 1
    BY <1>1, <2>2 DEF OrderInv
  <2> QED
    BY <1>1, <2>1, <2>2
<1>8. UNCHANGED <<block, last, pc, stale, iterator>>
  BY DEF client
<1> HIDE DEF TypeOK, StreamType, ResultType, ReadRow
<1>9. \A i \in 1 .. Len(block) : \A j \in 1 .. Len(buffer') : Before(block[i], buffer'[j])
  BY <1>1 DEF OrderInv
<1>10. \A j \in 1 .. Len(buffer') : Before(last, buffer'[j]) /\ Before(buffer'[j], Ahead')
  BY <1>1, <1>3, <1>4 DEF OrderInv
<1> QED
  BY <1>5, <1>6, <1>7, <1>8, <1>9, <1>10 DEF OrderInv, InOrder, ToHandOut

(* Every step keeps the four places where rows stand in order.             *)
LEMMA OrderStep == TypeOK /\ OrderInv /\ [Next]_vars => OrderInv'
<1> SUFFICES ASSUME TypeOK, OrderInv, [Next]_vars PROVE OrderInv'
  OBVIOUS
<1> USE DEF stream, result, client, Return, Throw, EndStream, Idle, MayExecute, MayFetch
<1>1. ASSUME NEW n \in ArraySizes, SetArraySize(n) PROVE OrderInv'
  BY <1>1, OrderFrame DEF SetArraySize, ToHandOut
<1>2. CASE CloseCursor
  <2>1. block' = <<>> /\ buffer' = <<>> /\ UNCHANGED <<reply, pos, last>>
    BY <1>2 DEF CloseCursor, ClearResult
  <2> QED
    BY <2>1 DEF OrderInv, InOrder, Ahead
<1>3. CASE ExecuteRefused
  BY <1>3, OrderFrame DEF ExecuteRefused, ToHandOut
<1>4. CASE FetchUndefined \/ StartCache \/ CacheFilled \/ ReadTornRow
  BY <1>4, OrderFrame DEF FetchUndefined, StartCache, CacheFilled, ReadTornRow,
                          ToHandOut
<1>5. CASE ExecuteTornHeader
  <2>1. UNCHANGED <<block, buffer, last, iterator, stale>> /\ pc' = "idle"
        /\ reply' = reply + 1 /\ pos' = 0
    BY <1>5 DEF ExecuteTornHeader, NewReply
  <2> QED
    BY <1>5, <2>1, OrderNewReply DEF ToHandOut
<1>6. ASSUME NEW n \in 0 .. MaxRows, ExecuteNoHeader(n) PROVE OrderInv'
  <2>1. UNCHANGED <<block, buffer, last, iterator, stale>> /\ pc' = "idle"
        /\ reply' = reply + 1 /\ pos' = 0
    BY <1>6 DEF ExecuteNoHeader, NewReply
  <2> QED
    BY <1>6, <2>1, OrderNewReply DEF ToHandOut
<1>7. ASSUME NEW n \in 0 .. MaxRows, NEW k \in 0 .. n, NEW t \in {"end", "torn"},
             ExecuteTable(n, k, t)
      PROVE OrderInv'
  BY <1>7, OrderNoBlock DEF ExecuteTable, NewReply, StartBlock
<1>8. CASE FetchFromBlock
  <2>1. iterator \in 1 .. Len(block)
    BY <1>8 DEF FetchFromBlock, TypeOK, ResultType
  <2>2. /\ last' = block[iterator]
        /\ UNCHANGED <<reply, pos, block, buffer>>
    BY <1>8 DEF FetchFromBlock, HandOut
  <2>3. \A j \in 1 .. Len(block) : ToHandOut(j)' => iterator < j
    BY <1>8, <2>1 DEF FetchFromBlock, HandOut, ToHandOut, TypeOK, ResultType
  <2> QED
    BY <2>1, <2>2, <2>3, OrderHandOut
<1>9. CASE FetchNextBlock
  BY <1>9, OrderNoBlock DEF FetchNextBlock, StartBlock
<1>10. CASE TakeRow
  BY <1>10, OrderTakeRow DEF TakeRow
<1>11. CASE UpdateRowFails
  <2>1. /\ buffer # <<>> /\ buffer' = Tail(buffer)
        /\ UNCHANGED <<reply, pos, block, last>>
        /\ pc = "block"
    BY <1>11 DEF UpdateRowFails
  <2> QED
    BY <2>1, OrderDropRow DEF ToHandOut
<1>12. CASE BlockFull \/ CacheEmpty
  BY <1>12, OrderFinish DEF BlockFull, CacheEmpty
<1>13. CASE ReadRow
  BY <1>13, OrderReadRow
<1>14. CASE UNCHANGED vars
  BY <1>14, OrderFrame DEF vars, ToHandOut
<1> QED
  BY <1>1, <1>2, <1>3, <1>4, <1>5, <1>6, <1>7, <1>8, <1>9, <1>10, <1>11, <1>12, <1>13, <1>14
     DEF Next, Loop

(* Handed out, block, cache and stream follow each other in every          *)
(* reachable state, after failed calls too.                                *)
THEOREM PlacesInOrder == Spec => []OrderInv
<1>1. Init => OrderInv
  <2>1. Init => block = <<>> /\ buffer = <<>> /\ last = Row(0, 0) /\ reply = 0 /\ pos = 0
    BY DEF Init, NoRow
  <2>2. Before(Row(0, 0), Row(0, 0 + 1))
    BY DEF Before, Row
  <2> QED
    BY <2>1, <2>2 DEF OrderInv, InOrder, Ahead
<1> QED
  BY <1>1, TypeCorrect, OrderStep, PTL DEF Spec

(* Rows reach the application in the order of the server, none twice, for  *)
(* every cache size, block size and reply, with and without a careful      *)
(* application.                                                            *)
THEOREM RowsDeliveredInOrder == Spec => DeliveredInOrder
<1>1. TypeOK /\ OrderInv /\ [Next]_vars => [last' # last => Before(last, last')]_vars
  <2> SUFFICES ASSUME TypeOK, OrderInv, Next, last' # last PROVE Before(last, last')
    BY DEF vars
  <2>1. CASE FetchFromBlock
    BY <2>1 DEF FetchFromBlock, HandOut, OrderInv, ToHandOut, TypeOK, ResultType
  <2>2. CASE BlockFull \/ CacheEmpty
    <3>1. block # <<>> /\ last' = block[1] /\ pc # "idle"
      BY <2>2 DEF BlockFull, CacheEmpty, FinishBlock, HandOut
    <3>2. 1 \in 1 .. Len(block)
      BY <3>1 DEF TypeOK, ResultType
    <3> QED
      BY <3>1, <3>2 DEF OrderInv, ToHandOut
  <2>3. FetchFromBlock \/ BlockFull \/ CacheEmpty \/ UNCHANGED last
    BY DEF Next, Loop, SetArraySize, CloseCursor, ExecuteRefused, ExecuteTornHeader,
           ExecuteNoHeader, ExecuteTable, FetchNextBlock, FetchUndefined,
           UpdateRowFails, TakeRow, StartCache, ReadRow, ReadTornRow, CacheFilled, client
  <2> QED
    BY <2>1, <2>2, <2>3
<1> QED
  BY <1>1, TypeCorrect, PlacesInOrder, PTL DEF Spec, DeliveredInOrder

-----------------------------------------------------------------------------
(***************************************************************************)
(* Under an application that closes the cursor after every error rows are  *)
(* neither skipped nor mixed with those of another reply, SQL_NO_DATA      *)
(* comes after the last row that arrived, and with blocks of at least one  *)
(* row the cache, the block and the iterator cannot be told from a cursor  *)
(* that hands out the rows of the reply one after the other (Cursor).      *)
(***************************************************************************)

(* What the steps start from.                                              *)
Given == TypeOK /\ IteratorValid /\ PipelineInv

(* Where a call returns with an error there is nothing left to show.       *)
LEMMA PipelineError ==
  ASSUME pc' = "idle", failed'
  PROVE  PipelineInv'
  BY DEF PipelineInv

(* Steps that move no row and end or begin no reading.                     *)
LEMMA PipelineFrame ==
  ASSUME Given, UNCHANGED <<reply, pos, columns, buffer, block, iterator, got, open, failed>>,
         (pc = "idle") <=> (pc' = "idle"),
         pc' # "idle" => UNCHANGED <<call, code>>
  PROVE  PipelineInv'
  BY DEF Given, PipelineInv, Reading, Taken

(* Closed cursor, nothing read.                                            *)
LEMMA PipelineClosed ==
  ASSUME ~columns', block' = <<>>, buffer' = <<>>, pc' = "idle", ~open'
  PROVE  PipelineInv'
  BY DEF PipelineInv, Reading

(* The next row of the block goes to the application.                      *)
LEMMA PipelineFetchFromBlock ==
  ASSUME Given, FetchFromBlock
  PROVE  (PipelineInv' /\ last' = Row(reply', got')) \/ failed
<1> SUFFICES ASSUME ~failed PROVE PipelineInv' /\ last' = Row(reply', got')
  OBVIOUS
<1> USE DEF Given, TypeOK, StreamType, ResultType, FetchFromBlock, HandOut, Return, MayFetch,
            Idle, stream
<1>1. Reading /\ Taken = iterator - 1 /\ Reading' /\ Taken' = iterator
  BY DEF Reading, Taken
<1>2. iterator \in 1 .. Len(block) /\ iterator > Taken
  BY <1>1
<1>3. got + iterator - Taken = got + 1
  BY <1>1
<1>4. block[iterator] = Row(reply, got + 1)
  BY <1>1, <1>2, <1>3 DEF PipelineInv
<1>5. \A i \in 1 .. Len(block) : i > Taken' => block[i] = Row(reply, got' + i - Taken')
  <2> SUFFICES ASSUME NEW i \in 1 .. Len(block), i > Taken'
               PROVE  block[i] = Row(reply, got' + i - Taken')
    OBVIOUS
  <2>1. i > Taken /\ got' + i - Taken' = got + i - Taken
    BY <1>1
  <2> QED
    BY <1>1, <2>1 DEF PipelineInv
<1>6. \A j \in 1 .. Len(buffer) : buffer[j] = Row(reply, got' + Len(block) - Taken' + j)
  <2> SUFFICES ASSUME NEW j \in 1 .. Len(buffer)
               PROVE  buffer[j] = Row(reply, got' + Len(block) - Taken' + j)
    OBVIOUS
  <2>1. got' + Len(block) - Taken' + j = got + Len(block) - Taken + j
    BY <1>1
  <2> QED
    BY <1>1, <2>1 DEF PipelineInv
<1>7. columns /\ pos = got' + Len(block) - Taken' + Len(buffer)
  BY <1>1 DEF PipelineInv
<1> QED
  BY <1>1, <1>4, <1>5, <1>6, <1>7 DEF PipelineInv

(* The block is used up and a new one is begun.                            *)
LEMMA PipelineNextBlock ==
  ASSUME Given, FetchNextBlock
  PROVE  PipelineInv' \/ failed
<1> SUFFICES ASSUME ~failed PROVE PipelineInv'
  OBVIOUS
<1> USE DEF Given, TypeOK, StreamType, ResultType, FetchNextBlock, StartBlock, MayFetch, Idle,
            stream, client
<1>1. Reading /\ Taken = Len(block) /\ Reading' /\ Taken' = 0 /\ Len(block') = 0
  BY DEF Reading, Taken
<1>2. \A j \in 1 .. Len(buffer) : buffer[j] = Row(reply, got' + Len(block') - Taken' + j)
  <2> SUFFICES ASSUME NEW j \in 1 .. Len(buffer)
               PROVE  buffer[j] = Row(reply, got' + Len(block') - Taken' + j)
    OBVIOUS
  <2>1. got' + Len(block') - Taken' + j = got + Len(block) - Taken + j
    BY <1>1
  <2> QED
    BY <1>1, <2>1 DEF PipelineInv
<1>3. columns /\ pos = got' + Len(block') - Taken' + Len(buffer)
  BY <1>1 DEF PipelineInv
<1> QED
  BY <1>1, <1>2, <1>3 DEF PipelineInv

(* A row moves from the cache to the block.                                *)
LEMMA PipelineTakeRow ==
  ASSUME Given, TakeRow
  PROVE  PipelineInv'
<1> USE DEF Given, TypeOK, StreamType, ResultType, TakeRow, stream, client
<1>1. Reading /\ Taken = 0 /\ Reading' /\ Taken' = 0 /\ ~failed
  BY DEF Reading, Taken, PipelineInv
<1>2. /\ Len(buffer') = Len(buffer) - 1
      /\ \A j \in 1 .. Len(buffer') : j + 1 \in 1 .. Len(buffer) /\ buffer'[j] = buffer[j + 1]
      /\ Len(block') = Len(block) + 1
      /\ \A i \in 1 .. Len(block) : block'[i] = block[i]
      /\ block'[Len(block) + 1] = buffer[1]
      /\ 1 \in 1 .. Len(buffer)
      /\ Len(block) \in Nat /\ Len(buffer) \in Nat
  OBVIOUS
<1>3. \A i \in 1 .. Len(block') : block'[i] = Row(reply, got + i - 0)
  <2> SUFFICES ASSUME NEW i \in 1 .. Len(block') PROVE block'[i] = Row(reply, got + i - 0)
    OBVIOUS
  <2>1. CASE i \in 1 .. Len(block)
    BY <1>1, <1>2, <2>1 DEF PipelineInv
  <2>2. CASE i = Len(block) + 1
    <3>1. got + Len(block) - 0 + 1 = got + i - 0
      BY <1>2, <2>2
    <3>2. buffer[1] = Row(reply, got + Len(block) - 0 + 1)
      BY <1>1, <1>2 DEF PipelineInv
    <3> QED
      BY <1>2, <2>2, <3>1, <3>2
  <2>3. i \in 1 .. Len(block) \/ i = Len(block) + 1
    BY <1>2
  <2> QED
    BY <2>1, <2>2, <2>3
<1>4. \A j \in 1 .. Len(buffer') : buffer'[j] = Row(reply, got + Len(block') - 0 + j)
  <2> SUFFICES ASSUME NEW j \in 1 .. Len(buffer')
               PROVE  buffer'[j] = Row(reply, got + Len(block') - 0 + j)
    OBVIOUS
  <2>1. got + Len(block') - 0 + j = got + Len(block) - 0 + (j + 1)
    BY <1>2
  <2>2. buffer[j + 1] = Row(reply, got + Len(block) - 0 + (j + 1))
    BY <1>1, <1>2 DEF PipelineInv
  <2> QED
    BY <1>2, <2>1, <2>2
<1>5. columns /\ pos = got + Len(block') - 0 + Len(buffer')
  BY <1>1, <1>2 DEF PipelineInv
<1>6. UNCHANGED <<reply, pos, columns, got, failed, pc, code>>
  OBVIOUS
<1> QED
  BY <1>1, <1>3, <1>4, <1>5, <1>6 DEF PipelineInv

(* A row moves from the stream to the cache.                               *)
LEMMA PipelineReadRow ==
  ASSUME Given, ReadRow
  PROVE  PipelineInv'
<1> USE DEF Given, TypeOK, StreamType, ResultType, ReadRow, client
<1>1. Reading /\ Taken = 0 /\ Reading' /\ Taken' = 0 /\ ~failed
  BY DEF Reading, Taken, PipelineInv
<1>2. /\ Len(buffer') = Len(buffer) + 1
      /\ \A j \in 1 .. Len(buffer) : buffer'[j] = buffer[j]
      /\ buffer'[Len(buffer) + 1] = Row(reply, pos + 1)
      /\ Len(buffer) \in Nat /\ Len(block) \in Nat
  BY RowType
<1>3. pos = got + Len(block) - 0 + Len(buffer)
  BY <1>1 DEF PipelineInv
<1>4. \A j \in 1 .. Len(buffer') : buffer'[j] = Row(reply, got + Len(block) - 0 + j)
  <2> SUFFICES ASSUME NEW j \in 1 .. Len(buffer')
               PROVE  buffer'[j] = Row(reply, got + Len(block) - 0 + j)
    OBVIOUS
  <2>1. CASE j \in 1 .. Len(buffer)
    BY <1>1, <1>2, <2>1 DEF PipelineInv
  <2>2. CASE j = Len(buffer) + 1
    <3>1. pos + 1 = got + Len(block) - 0 + j
      BY <1>2, <1>3, <2>2
    <3> QED
      BY <1>2, <2>2, <3>1
  <2>3. j \in 1 .. Len(buffer) \/ j = Len(buffer) + 1
    BY <1>2
  <2> QED
    BY <2>1, <2>2, <2>3
<1>5. pos' = got + Len(block) - 0 + Len(buffer')
  BY <1>2, <1>3
<1>6. UNCHANGED <<reply, columns, block, got, failed, pc, code>>
  OBVIOUS
<1> QED
  BY <1>1, <1>4, <1>5, <1>6 DEF PipelineInv

(* readNextBlock is done: the block is as long as its rows, the first of   *)
(* them goes to the application if SQLFetch asked for it.                  *)
LEMMA PipelineFinish ==
  ASSUME Given, FinishBlock, pc # "idle", call = "fetch" => open
  PROVE  PipelineInv' /\ (last' = Row(reply', got') \/ UNCHANGED <<last, got>>)
<1> USE DEF Given, TypeOK, StreamType, ResultType, FinishBlock, HandOut, Return, stream
<1>1. Reading /\ Taken = 0 /\ Reading' /\ ~failed /\ pc' = "idle"
      /\ UNCHANGED <<reply, pos, columns, buffer, block, failed>>
  BY DEF Reading, Taken, PipelineInv
<1>2. CASE iterator' = 1 /\ UNCHANGED <<got, last>>
  <2>1. Taken' = 0
    BY <1>1, <1>2 DEF Taken
  <2> QED
    BY <1>1, <1>2, <2>1 DEF PipelineInv
<1>3. CASE block # <<>> /\ HandOut(block, 1)
  <2>1. Taken' = 1 /\ iterator' = 2 /\ 1 \in 1 .. Len(block) /\ got' = got + 1
    BY <1>1, <1>3 DEF Taken
  <2>2. got + 1 - 0 = got'
    BY <2>1
  <2>3. last' = Row(reply, got')
    BY <1>1, <1>3, <2>1, <2>2 DEF PipelineInv
  <2>4. \A i \in 1 .. Len(block) : i > 1 => block[i] = Row(reply, got' + i - 1)
    <3> SUFFICES ASSUME NEW i \in 1 .. Len(block) PROVE block[i] = Row(reply, got' + i - 1)
      OBVIOUS
    <3>1. got' + i - 1 = got + i - 0
      BY <2>1
    <3> QED
      BY <1>1, <3>1 DEF PipelineInv
  <2>5. \A j \in 1 .. Len(buffer) : buffer[j] = Row(reply, got' + Len(block) - 1 + j)
    <3> SUFFICES ASSUME NEW j \in 1 .. Len(buffer)
                 PROVE  buffer[j] = Row(reply, got' + Len(block) - 1 + j)
      OBVIOUS
    <3>1. got' + Len(block) - 1 + j = got + Len(block) - 0 + j
      BY <2>1
    <3> QED
      BY <1>1, <3>1 DEF PipelineInv
  <2>6. columns /\ pos = got' + Len(block) - 1 + Len(buffer)
    BY <1>1, <2>1 DEF PipelineInv
  <2> QED
    BY <1>1, <2>1, <2>3, <2>4, <2>5, <2>6 DEF PipelineInv
<1> QED
  BY <1>2, <1>3

-----------------------------------------------------------------------------
(* The three invariants together, step by step.                            *)

PrefixInv == PipelineInv /\ FetchedIsPrefix /\ NoDataOnlyAtEnd

(* Every step of the driver under a careful application.                   *)
LEMMA PrefixStep ==
  ASSUME ClosesAfterError, Given, PrefixInv, [Next]_vars
  PROVE  PrefixInv'
<1> USE DEF PrefixInv, stream, result, client, Return, Throw, EndStream, MayExecute, MayFetch,
            Idle, Careful
<1>1. ASSUME NEW n \in ArraySizes, SetArraySize(n) PROVE PrefixInv'
  BY <1>1, PipelineFrame DEF SetArraySize, FetchedIsPrefix, NoDataOnlyAtEnd
<1>2. CASE CloseCursor
  BY <1>2, PipelineClosed DEF CloseCursor, ClearResult, FetchedIsPrefix, NoDataOnlyAtEnd
<1>3. CASE ExecuteRefused \/ UpdateRowFails \/ ReadTornRow
  BY <1>3, PipelineError DEF ExecuteRefused, UpdateRowFails, ReadTornRow, FetchedIsPrefix,
                             NoDataOnlyAtEnd
<1>4. CASE ExecuteTornHeader
  BY <1>4, PipelineError DEF ExecuteTornHeader, NewReply, FetchedIsPrefix, NoDataOnlyAtEnd
<1>5. ASSUME NEW n \in 0 .. MaxRows, ExecuteNoHeader(n) PROVE PrefixInv'
  <2>1. ~columns /\ block = <<>> /\ buffer = <<>>
    BY <1>5 DEF ExecuteNoHeader, NewReply, Given, PipelineInv, Reading
  <2> QED
    BY <1>5, <2>1, PipelineClosed DEF ExecuteNoHeader, NewReply, FetchedIsPrefix,
                                      NoDataOnlyAtEnd
<1>6. ASSUME NEW n \in 0 .. MaxRows, NEW k \in 0 .. n, NEW t \in {"end", "torn"},
             ExecuteTable(n, k, t)
      PROVE PrefixInv'
  <2>1. buffer = <<>> /\ ~failed
    BY <1>6 DEF ExecuteTable, NewReply, Given, PipelineInv, Reading
  <2>2. /\ buffer' = <<>> /\ block' = <<>> /\ pos' = 0 /\ got' = 0 /\ columns'
        /\ pc' = "block" /\ code' = "RUNNING" /\ call' = "execute" /\ ~failed'
    BY <1>6, <2>1 DEF ExecuteTable, NewReply, StartBlock
  <2> QED
    BY <2>2 DEF PipelineInv, Reading, Taken, FetchedIsPrefix, NoDataOnlyAtEnd
<1>7. CASE FetchFromBlock
  BY <1>7, PipelineFetchFromBlock DEF FetchFromBlock, HandOut, FetchedIsPrefix, NoDataOnlyAtEnd
<1>8. CASE FetchNextBlock
  BY <1>8, PipelineNextBlock DEF FetchNextBlock, StartBlock, FetchedIsPrefix, NoDataOnlyAtEnd
<1>9. CASE FetchUndefined
  <2>1. FALSE
    BY <1>9 DEF FetchUndefined, Given, IteratorValid
  <2> QED
    BY <2>1
<1>10. CASE TakeRow
  BY <1>10, PipelineTakeRow DEF TakeRow, Given, PipelineInv, FetchedIsPrefix, NoDataOnlyAtEnd
<1>11. CASE StartCache \/ CacheFilled
  BY <1>11, PipelineFrame DEF StartCache, CacheFilled, FetchedIsPrefix, NoDataOnlyAtEnd
<1>12. CASE BlockFull
  <2>1. PipelineInv' /\ (last' = Row(reply', got') \/ UNCHANGED <<last, got>>)
    BY <1>12, PipelineFinish DEF BlockFull, Given, PipelineInv
  <2>2. FetchedIsPrefix'
    BY <1>12, <2>1 DEF BlockFull, FinishBlock, FetchedIsPrefix
  <2>3. block = <<>> => arraySize = 0
    BY <1>12, ResultSetAssumption DEF BlockFull, Given, TypeOK, CallType
  <2>4. NoDataOnlyAtEnd'
    BY <1>12, <2>3 DEF BlockFull, FinishBlock, HandOut, NoDataOnlyAtEnd
  <2> QED
    BY <2>1, <2>2, <2>4
<1>13. CASE CacheEmpty
  <2>1. PipelineInv' /\ (last' = Row(reply', got') \/ UNCHANGED <<last, got>>)
    BY <1>13, PipelineFinish DEF CacheEmpty, Given, PipelineInv
  <2>2. FetchedIsPrefix'
    BY <1>13, <2>1 DEF CacheEmpty, FinishBlock, FetchedIsPrefix
  <2>3. pos = avail /\ tail = "end"
    BY <1>13, ResultSetAssumption DEF CacheEmpty, NoMoreRows
  <2>4. block = <<>> => got = avail
    BY <1>13, <2>3 DEF CacheEmpty, Given, TypeOK, StreamType, ResultType, PipelineInv, Reading,
                       Taken
  <2>5. NoDataOnlyAtEnd'
    BY <1>13, <2>3, <2>4 DEF CacheEmpty, FinishBlock, HandOut, NoDataOnlyAtEnd
  <2> QED
    BY <2>1, <2>2, <2>5
<1>14. CASE ReadRow
  BY <1>14, PipelineReadRow DEF ReadRow, Given, PipelineInv, FetchedIsPrefix, NoDataOnlyAtEnd
<1>15. CASE UNCHANGED vars
  BY <1>15, PipelineFrame DEF vars, FetchedIsPrefix, NoDataOnlyAtEnd
<1> QED
  BY <1>1, <1>2, <1>3, <1>4, <1>5, <1>6, <1>7, <1>8, <1>9, <1>10, <1>11, <1>12, <1>13,
     <1>14, <1>15 DEF Next, Loop

(* All three invariants hold, for every size of cache, block and reply.    *)
LEMMA PrefixInvariant == ASSUME ClosesAfterError PROVE Spec => []PrefixInv
<1>1. Init => PrefixInv
  BY DEF Init, PrefixInv, PipelineInv, Reading, FetchedIsPrefix, NoDataOnlyAtEnd
<1>2. TypeOK /\ IteratorValid /\ PrefixInv /\ [Next]_vars => PrefixInv'
  BY PrefixStep DEF Given, PrefixInv
<1> QED
  BY <1>1, <1>2, TypeCorrect, IteratorAlwaysValid, PTL DEF Spec

(* What the application has, block, cache and stream follow each other     *)
(* without a gap while a reply is read.                                    *)
THEOREM PipelineHasNoGap == ASSUME ClosesAfterError PROVE Spec => []PipelineInv
<1>1. PrefixInv => PipelineInv
  BY DEF PrefixInv
<1> QED
  BY <1>1, PrefixInvariant, PTL

(* The n-th row fetched from a reply is its n-th row, provided that the    *)
(* application closes the cursor after an error.                           *)
THEOREM FetchIsComplete == ASSUME ClosesAfterError PROVE Spec => []FetchedIsPrefix
<1>1. PrefixInv => FetchedIsPrefix
  BY DEF PrefixInv
<1> QED
  BY <1>1, PrefixInvariant, PTL

(* SQL_NO_DATA follows the last row that arrived, unless blocks of no rows *)
(* were asked for.                                                         *)
THEOREM NoDataIsEarned == ASSUME ClosesAfterError PROVE Spec => []NoDataOnlyAtEnd
<1>1. PrefixInv => NoDataOnlyAtEnd
  BY DEF PrefixInv
<1> QED
  BY <1>1, PrefixInvariant, PTL

-----------------------------------------------------------------------------
(* The refinement of Cursor.                                               *)

(* What the step to Cursor needs beside the invariants of the earlier      *)
(* modules.                                                                *)
BlocksInv ==
  /\ arraySize # 0
  /\ pos <= avail
  /\ pc # "idle" /\ call = "execute" => ~open

(* The block size is never zero, nothing is read beyond what arrived, and  *)
(* SQLExecute reads its first block before the cursor is open.             *)
LEMMA BlocksInvariant == ASSUME 0 \notin ArraySizes PROVE Spec => []BlocksInv
<1>1. Init => BlocksInv
  BY DEF Init, BlocksInv
<1>2. TypeOK /\ BlocksInv /\ [Next]_vars => BlocksInv'
  <2> SUFFICES ASSUME TypeOK, BlocksInv, [Next]_vars PROVE BlocksInv'
    OBVIOUS
  <2> USE DEF TypeOK, StreamType, BlocksInv, stream, result, client, Return, Throw, EndStream,
              Idle, MayExecute, MayFetch, StartBlock, HandOut
  <2>1. CASE \E n \in ArraySizes : SetArraySize(n)
    BY <2>1 DEF SetArraySize
  <2>2. CASE CloseCursor \/ ExecuteRefused \/ ExecuteTornHeader
    BY <2>2 DEF CloseCursor, ExecuteRefused, ExecuteTornHeader, NewReply
  <2>3. ASSUME NEW n \in 0 .. MaxRows, ExecuteNoHeader(n) PROVE BlocksInv'
    BY <2>3 DEF ExecuteNoHeader, NewReply
  <2>4. ASSUME NEW n \in 0 .. MaxRows, NEW k \in 0 .. n, NEW t \in {"end", "torn"},
               ExecuteTable(n, k, t)
        PROVE  BlocksInv'
    BY <2>4 DEF ExecuteTable, NewReply
  <2>5. CASE FetchFromBlock \/ FetchNextBlock \/ FetchUndefined
    BY <2>5 DEF FetchFromBlock, FetchNextBlock, FetchUndefined
  <2>6. CASE UpdateRowFails \/ TakeRow \/ StartCache \/ CacheFilled
    BY <2>6 DEF UpdateRowFails, TakeRow, StartCache, CacheFilled
  <2>7. CASE BlockFull \/ CacheEmpty
    BY <2>7 DEF BlockFull, CacheEmpty, FinishBlock
  <2>8. CASE ReadRow \/ ReadTornRow
    BY <2>8 DEF ReadRow, ReadTornRow
  <2>9. CASE UNCHANGED vars
    BY <2>9 DEF vars
  <2> QED
    BY <2>1, <2>2, <2>3, <2>4, <2>5, <2>6, <2>7, <2>8, <2>9 DEF Next, Loop
<1> QED
  BY <1>1, <1>2, TypeCorrect, PTL DEF Spec

(* The end of readNextBlock opens the cursor, hands out the first row of   *)
(* the block, or finds the end of the data.                                *)
LEMMA FinishIsCursorStep ==
  ASSUME TypeOK, PipelineInv, BlocksInv, pc # "idle", FinishBlock,
         block = <<>> => got = avail
  PROVE  C!Next
<1> USE DEF TypeOK, StreamType, ResultType, PipelineInv, Reading, Taken, BlocksInv, CursorState,
            FinishBlock, HandOut, Return, stream
<1>1. CASE call = "execute"
  <2>1. C!Open
    BY <1>1 DEF C!Open
  <2> QED
    BY <2>1 DEF C!Next
<1>2. CASE call = "fetch" /\ block = <<>>
  <2>1. C!End
    BY <1>2 DEF C!End
  <2> QED
    BY <2>1 DEF C!Next
<1>3. CASE call = "fetch" /\ block # <<>>
  <2> DEFINE n == Len(block)
  <2>1. n \in Nat /\ n > 0
    BY <1>3
  <2>2. last' = Row(reply, got + 1)
    <3>1. 1 \in 1 .. n /\ got + 1 - 0 = got + 1
      BY <2>1
    <3>2. \A i \in 1 .. n : i > 0 => block[i] = Row(reply, got + i - 0)
      OBVIOUS
    <3>3. block[1] = Row(reply, got + 1 - 0)
      BY <3>1, <3>2
    <3> QED
      BY <1>3, <3>1, <3>3
  <2>3. got < avail
    BY <2>1
  <2>4. C!Deliver
    BY <1>3, <2>2, <2>3 DEF C!Deliver, Row
  <2> QED
    BY <2>4 DEF C!Next
<1> QED
  BY <1>1, <1>2, <1>3

(* Every step of the driver is a step of the cursor or none at all.        *)
LEMMA CursorStep ==
  ASSUME ClosesAfterError, TypeOK, IteratorValid, PipelineInv, BlocksInv, [Next]_vars
  PROVE  [C!Next]_C!vars
<1> USE DEF stream, result, client, Return, Throw, EndStream, Idle, MayExecute, MayFetch, Careful,
            CursorState
<1>1. CASE \E n \in ArraySizes : SetArraySize(n)
  BY <1>1 DEF SetArraySize, C!Next, C!OtherCall
<1>2. CASE CloseCursor
  BY <1>2 DEF CloseCursor, C!Next, C!Close
<1>3. CASE ExecuteRefused
  BY <1>3 DEF ExecuteRefused, C!Next, C!Fail
<1>4. CASE ExecuteTornHeader
  BY <1>4 DEF ExecuteTornHeader, NewReply, C!Next, C!BadReply
<1>5. ASSUME NEW n \in 0 .. MaxRows, ExecuteNoHeader(n) PROVE C!Next
  <2>1. ~columns
    BY <1>5 DEF ExecuteNoHeader, NewReply, PipelineInv, Reading
  <2>2. C!NoResultSet
    BY <1>5, <2>1 DEF ExecuteNoHeader, NewReply, C!NoResultSet
  <2> QED
    BY <2>2 DEF C!Next
<1>6. ASSUME NEW n \in 0 .. MaxRows, NEW k \in 0 .. n, NEW t \in {"end", "torn"},
             ExecuteTable(n, k, t)
      PROVE  C!Next
  <2>1. C!Request(k)
    BY <1>6 DEF ExecuteTable, NewReply, StartBlock, C!Request
  <2>2. k \in 0 .. MaxRows
    BY ResultSetAssumption
  <2> QED
    BY <2>1, <2>2 DEF C!Next
<1>7. CASE FetchUndefined
  BY <1>7 DEF FetchUndefined, PipelineInv, Reading, IteratorValid
<1>8. CASE FetchFromBlock
  <2>1. last' = Row(reply, got + 1) /\ got < avail
    BY <1>8 DEF FetchFromBlock, HandOut, TypeOK, StreamType, ResultType, PipelineInv, Reading,
                Taken, BlocksInv
  <2>2. C!Deliver
    BY <1>8, <2>1 DEF FetchFromBlock, HandOut, Row, C!Deliver
  <2> QED
    BY <2>2 DEF C!Next
<1>9. CASE FetchNextBlock
  BY <1>9 DEF FetchNextBlock, StartBlock, C!Next, C!Wait
<1>10. CASE UpdateRowFails \/ ReadTornRow
  <2>1. C!Fail
    BY <1>10 DEF UpdateRowFails, ReadTornRow, PipelineInv, C!Fail
  <2> QED
    BY <2>1 DEF C!Next
<1>11. CASE TakeRow \/ StartCache \/ CacheFilled \/ ReadRow
  BY <1>11 DEF TakeRow, StartCache, CacheFilled, ReadRow, C!vars
<1>12. CASE BlockFull
  <2>1. block # <<>>
    BY <1>12 DEF BlockFull, BlocksInv, TypeOK, ResultType, CallType
  <2> QED
    BY <1>12, <2>1, FinishIsCursorStep DEF BlockFull
<1>13. CASE CacheEmpty
  <2>1. block = <<>> => got = avail
    BY <1>13, ResultSetAssumption DEF CacheEmpty, NoMoreRows, PipelineInv, Reading, Taken, TypeOK,
       StreamType, ResultType
  <2> QED
    BY <1>13, <2>1, FinishIsCursorStep DEF CacheEmpty
<1>14. CASE UNCHANGED vars
  BY <1>14 DEF vars, C!vars
<1> QED
  BY <1>1, <1>2, <1>3, <1>4, <1>5, <1>6, <1>7, <1>8, <1>9, <1>10, <1>11, <1>12, <1>13, <1>14
     DEF Next, Loop

(* Cache, block and iterator implement the forward-only cursor, for every  *)
(* size of cache and block and every reply.                                *)
THEOREM ResultSetIsCursor ==
  ASSUME ClosesAfterError, 0 \notin ArraySizes
  PROVE  Spec => ImplementsCursor
<1>1. Init => C!Init
  BY DEF Init, C!Init, CursorState, NoRow, Row, C!NoRow
<1> QED
  BY <1>1, CursorStep, TypeCorrect, IteratorAlwaysValid, PipelineHasNoGap, BlocksInvariant, PTL
     DEF Spec, ImplementsCursor, C!Spec
=============================================================================

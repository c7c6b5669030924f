------------------------------- MODULE Cursor -------------------------------
(***************************************************************************)
(* What SQLExecute, SQLFetch and SQLCloseCursor promise together: a        *)
(* forward-only cursor over the rows of one reply of the server.  The      *)
(* rows come in the order of the reply, each once, none skipped; the end   *)
(* of the data is announced only when every row that arrived was handed    *)
(* out; and once a call has failed the cursor must be closed first.        *)
(*                                                                         *)
(* ResultSet.tla is the code's implementation of this promise, with its    *)
(* cache, its block and its iterator.                                      *)
(***************************************************************************)
EXTENDS Integers

CONSTANTS
  MaxRows,      (* rows a reply may have                                   *)
  MaxReplies    (* number of replies; bounds the model                     *)

VARIABLES
  state,        (* "closed", "open" or "failed"                            *)
  reply,        (* number of the current reply; replies count from 1       *)
  arrived,      (* rows of it that can be decoded                          *)
  got,          (* rows of it handed to the application                    *)
  row,          (* the row handed out last                                 *)
  answer        (* return code of the last call                            *)

vars == <<state, reply, arrived, got, row, answer>>

NoRow == [reply |-> 0, pos |-> 0]

Init ==
  /\ state = "closed"
  /\ reply = 0
  /\ arrived = 0
  /\ got = 0
  /\ row = NoRow
  /\ answer = "SUCCESS"

(* A request is answered.  The call is still at work: it has to decode the *)
(* first rows before it can return.                                        *)
Request(n) ==
  /\ state = "closed"
  /\ reply < MaxReplies
  /\ reply' = reply + 1
  /\ arrived' = n
  /\ got' = 0
  /\ answer' = "RUNNING"
  /\ UNCHANGED <<state, row>>

Open ==
  /\ state = "closed" /\ answer = "RUNNING"
  /\ state' = "open"
  /\ answer' = "SUCCESS"
  /\ UNCHANGED <<reply, arrived, got, row>>

(* A reply without a result set leaves the cursor closed.                  *)
NoResultSet ==
  /\ state = "closed"
  /\ reply < MaxReplies
  /\ reply' = reply + 1
  /\ arrived' = 0
  /\ got' = 0
  /\ answer' = "SUCCESS"
  /\ UNCHANGED <<state, row>>

(* A fetch that has to read further before it can answer.                  *)
Wait ==
  /\ state = "open"
  /\ answer' = "RUNNING"
  /\ UNCHANGED <<state, reply, arrived, got, row>>

Deliver ==
  /\ state = "open"
  /\ got < arrived
  /\ got' = got + 1
  /\ row' = [reply |-> reply, pos |-> got + 1]
  /\ answer' = "SUCCESS"
  /\ UNCHANGED <<state, reply, arrived>>

End ==
  /\ state = "open"
  /\ got = arrived
  /\ answer' = "NO_DATA"
  /\ UNCHANGED <<state, reply, arrived, got, row>>

(* Any call that talks to the server may fail; what had arrived of the     *)
(* reply is given up.                                                      *)
Fail ==
  /\ state # "failed"
  /\ state' = "failed"
  /\ answer' = "ERROR"
  /\ arrived' = 0
  /\ UNCHANGED <<reply, got, row>>

(* A reply that cannot be read from its first byte on.                     *)
BadReply ==
  /\ state = "closed"
  /\ reply < MaxReplies
  /\ state' = "failed"
  /\ reply' = reply + 1
  /\ arrived' = 0
  /\ got' = 0
  /\ answer' = "ERROR"
  /\ UNCHANGED row

Close ==
  /\ state' = "closed"
  /\ answer' = "SUCCESS"
  /\ arrived' = 0
  /\ UNCHANGED <<reply, got, row>>

OtherCall ==
  /\ answer' = "SUCCESS"
  /\ UNCHANGED <<state, reply, arrived, got, row>>

Next ==
  \/ \E n \in 0 .. MaxRows : Request(n)
  \/ Open
  \/ NoResultSet
  \/ Wait
  \/ Deliver
  \/ End
  \/ Fail
  \/ BadReply
  \/ Close
  \/ OtherCall

Spec == Init /\ [][Next]_vars
=============================================================================

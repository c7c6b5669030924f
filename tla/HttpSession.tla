---------------------------- MODULE HttpSession -----------------------------
(***************************************************************************)
(* The HTTP session of a connection (Poco::Net::HTTPClientSession), as far *)
(* as driver/statement.cpp relies on it: one socket, kept alive between    *)
(* requests, and one response stream, which the session owns and frees     *)
(* when the next request is sent.  External code, modelled from its use.   *)
(***************************************************************************)
EXTENDS Integers

CONSTANTS
  MaxRows,     (* rows a response may carry                                *)
  Addresses,   (* where the allocator may put a stream; the address of one *)
               (* that was freed may be that of the next                   *)
  Null         (* the null pointer                                         *)

ASSUME HttpSessionAssumption == MaxRows \in Nat /\ Null \notin Addresses

VARIABLES
  socket,      (* "open" or "closed"                                       *)
  live,        (* address of the response stream that the session holds,   *)
               (* or Null                                                  *)
  reply,       (* number of the request it answers, 0 without a stream     *)
  unread,      (* rows that can still be read from that stream             *)
  ended,       (* its reader has seen EOF                                  *)
  cut,         (* rows of it were lost with the socket                     *)
  leftover     (* the socket still carries bytes of a freed stream         *)

http == <<socket, live, reply, unread, ended, cut, leftover>>

HttpValues ==
  /\ socket \in {"open", "closed"}
  /\ live \in Addresses \union {Null} /\ reply \in Nat
  /\ unread \in 0 .. MaxRows
HttpFlags == ended \in BOOLEAN /\ cut \in BOOLEAN /\ leftover \in BOOLEAN

HttpTypeOK == HttpValues /\ HttpFlags

HttpInit ==
  /\ socket = "closed" /\ live = Null /\ reply = 0
  /\ unread = 0 /\ ended = TRUE /\ cut = FALSE /\ leftover = FALSE

(* reset(): the socket is closed.  The stream stays, but of the rows it    *)
(* had not read it keeps only what its buffer holds.                       *)
ResetSession ==
  /\ socket' = "closed"
  /\ leftover' = FALSE
  /\ unread' \in 0 .. unread
  /\ cut' = (cut \/ unread' < unread)
  /\ UNCHANGED <<live, reply, ended>>

FreeStream ==
  /\ live' = Null /\ reply' = 0
  /\ unread' = 0 /\ ended' = TRUE /\ cut' = FALSE

(* sendRequest frees the old stream and writes to the socket, opening it   *)
(* if need be.  What the old stream had not read stays on the socket.      *)
SendRequest ==
  /\ FreeStream
  /\ socket' = "open"
  /\ leftover' = (leftover \/ (socket = "open" /\ ~ended))

(* sendRequest or receiveResponse throws: both close the socket.           *)
FailRequest ==
  /\ FreeStream
  /\ socket' = "closed"
  /\ leftover' = FALSE

(* receiveResponse finds the header of the response to request r, which it *)
(* cannot behind the bytes of an older response, and allocates its stream. *)
(* Of the n rows that the response carries the caller reads up to k at     *)
(* once; asking for more than there are finds EOF.                         *)
ReceiveResponse(r, n, k) ==
  /\ ~leftover
  /\ live' \in Addresses /\ reply' = r
  /\ unread' = (IF n < k THEN 0 ELSE n - k)
  /\ ended' = (n < k)
  /\ cut' = FALSE
  /\ UNCHANGED <<socket, leftover>>

(* Up to k further rows are read.                                          *)
ReadRows(k) ==
  /\ unread' = IF unread < k THEN 0 ELSE unread - k
  /\ ended' = (ended \/ unread < k)
  /\ UNCHANGED <<socket, live, reply, cut, leftover>>
=============================================================================

---------------------------- MODULE OutputBuffers ----------------------------
(***************************************************************************)
(* An application that reads strings and numbers into one buffer: it calls *)
(* the driver, and when the value was cut it enlarges the buffer to the    *)
(* reported length and calls again.  The driver's side is FillOutput.tla,  *)
(* the application is any ODBC program that follows this usual scheme.     *)
(***************************************************************************)
EXTENDS FillOutput

CONSTANTS
  Unit,       (* bytes of a character: 1 for SQL_C_CHAR, 2 or 4 for        *)
              (* SQL_C_WCHAR                                               *)
  LengthLimit, (* LENGTH holds -LengthLimit .. LengthLimit - 1             *)
  MaxSize,    (* longest string, in characters; a bound                    *)
  NumberSize  (* sizeof of the numbers that are read                       *)

ASSUME OutputBuffersAssumption ==
  /\ Unit \in {1, 2, 4}
  /\ LengthLimit \in Nat \ {0}
  /\ MaxSize \in Nat
  /\ NumberSize \in Nat \ {0}

VARIABLES
  size,      (* size of the value that is read, in characters or bytes     *)
  inBytes,   (* length_in_bytes: FALSE for SQLGetDiagRec and SQLDescribeCol *)
  max,       (* the length of the buffer the application passes            *)
  last,      (* what the last call did                                     *)
  asked      (* what it was asked for: "none", "string", "number", "null"; *)
             (* "grown" while the buffer waits for the repeated call and   *)
             (* "again" after it                                           *)

buffersVars == <<size, inBytes, max, last, asked>>

(* Bytes of memory the application owns behind its pointer.                *)
Room == IF inBytes THEN max ELSE max * Unit

(* Bytes of memory behind value.c_str().                                   *)
Source == IF asked = "number" THEN size ELSE (size + 1) * Unit

BuffersInit ==
  /\ size = 0 /\ inBytes = TRUE
  /\ max = 0
  /\ last = FillNull
  /\ asked = "none"

(* A new string is read.                                                   *)
ReadString(n, b, m, given) ==
  /\ asked # "grown"
  /\ size' = n
  /\ inBytes' = b
  /\ max' = m
  /\ last' = FillString(n, m, given, Unit, LengthLimit, b)
  /\ asked' = "string"

(* A number is read: BufferLength 0 stands for a buffer of the right size. *)
ReadNumber(m, given) ==
  /\ asked # "grown"
  /\ size' = NumberSize
  /\ max' = m
  /\ last' = FillNumber(NumberSize, m, given)
  /\ asked' = "number"
  /\ UNCHANGED inBytes

ReadNull(m) ==
  /\ asked # "grown"
  /\ max' = m
  /\ last' = FillNull
  /\ asked' = "null"
  /\ UNCHANGED <<size, inBytes>>

(* The length the application takes for the repeated call.                 *)
Enlarged == last.length + (IF inBytes THEN Unit ELSE 1)

Grow ==
  /\ asked = "string"
  /\ last.ret = "info"
  /\ Enlarged > max
  /\ Enlarged < LengthLimit
  /\ max' = Enlarged
  /\ asked' = "grown"
  /\ UNCHANGED <<size, inBytes, last>>

ReadAgain ==
  /\ asked = "grown"
  /\ last' = FillString(size, max, TRUE, Unit, LengthLimit, inBytes)
  /\ asked' = "again"
  /\ UNCHANGED <<size, inBytes, max>>

BuffersNext ==
  \/ \E n \in 0..MaxSize, b \in BOOLEAN, m \in -1 .. LengthLimit - 1, given \in BOOLEAN :
       ReadString(n, b, m, given)
  \/ \E m \in -1 .. LengthLimit - 1, given \in BOOLEAN : ReadNumber(m, given)
  \/ \E m \in -1 .. LengthLimit - 1 : ReadNull(m)
  \/ Grow
  \/ ReadAgain

BuffersSpec == BuffersInit /\ [][BuffersNext]_buffersVars

-----------------------------------------------------------------------------
(* A number has as much memory as its type, even if the length says 0.     *)
Owned ==
  IF asked = "number" /\ max = 0 THEN NumberSize
  ELSE IF asked \in {"number", "null"} THEN max
  ELSE Room

(* LENGTH holds a size, the NUL and the factor included.                   *)
Holds(n, b) == (IF b THEN (n + 1) * Unit ELSE n + 1) < LengthLimit
Representable == Holds(size, inBytes)

IsString == asked \in {"string", "again"}

BuffersTypeOK ==
  /\ size \in Nat
  /\ inBytes \in BOOLEAN
  /\ max \in -1 .. LengthLimit - 1
  /\ last.ret \in {"success", "info", "error"}
  /\ last.length \in Int
  /\ last.copied \in Nat
  /\ last.nul \in Nat \cup {NoNul}
  /\ asked \in {"none", "string", "number", "null", "grown", "again"}

(* No call writes behind the memory the application gave, whatever the     *)
(* sizes and however they wrap (fillOutputStringImpl, fillOutputNumber).   *)
NoOverrun ==
  asked # "grown" /\ last.ret # "error" =>
    /\ last.copied > 0 => last.copied <= Owned
    /\ last.nul # NoNul => last.nul + Unit <= Owned

(* No call reads behind the NUL of the value, whatever the sizes and       *)
(* however they wrap.                                                      *)
NoOverread == last.copied <= Source

(* A call that says SQL_SUCCESS has copied nothing or everything, the NUL  *)
(* of a string included; and it says so to every buffer that is long       *)
(* enough.                                                                 *)
SuccessIsWhole ==
  /\ last.ret = "success" /\ last.copied > 0 =>
       \/ last.copied = Source
       \/ IsString /\ ~Representable
  /\ IsString /\ Representable /\ Room >= Source => last.ret = "success"

(* A string that was cut is terminated, its NUL stands at the last place   *)
(* for a character in the buffer, all before it is the value's, and        *)
(* something is missing.                                                   *)
CutIsLongestPrefix ==
  IsString /\ Representable /\ last.ret = "info" /\ Room >= Unit =>
    /\ last.nul % Unit = 0
    /\ last.nul + Unit <= Room
    /\ last.nul + 2 * Unit > Room
    /\ last.nul <= last.copied
    /\ last.nul < size * Unit

(* The length a cut string reports is the one with which the repeated call *)
(* succeeds: the application need not ask a third time.                    *)
RepeatSucceeds ==
  asked = "again" /\ Representable =>
    last.ret = "success" /\ last.copied = Source

=============================================================================

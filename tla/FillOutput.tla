----------------------------- MODULE FillOutput -----------------------------
(***************************************************************************)
(* How the driver copies a value into a buffer of the application (the     *)
(* fillOutput functions of driver/utils.h).                                *)
(*                                                                         *)
(* A string is its size in characters of `unit` bytes.  Its memory holds   *)
(* one more character, the NUL of c_str(), and nothing beyond belongs to   *)
(* it.  A length of type LENGTH is an integer from -limit to limit - 1.    *)
(***************************************************************************)
EXTENDS Integers

(* The conversion of a size to LENGTH (SQLSMALLINT, SQLINTEGER or SQLLEN). *)
Wrap(n, limit) == ((n + limit) % (2 * limit)) - limit

(* What a call did: its return code, the length it reported, the number of *)
(* bytes copied from the start of the value and the first byte of the NUL  *)
(* it wrote after them, or NoNul.                                          *)
NoNul == -1
Filled(ret, length, copied, nul) ==
  [ret |-> ret, length |-> length, copied |-> copied, nul |-> nul]

(* Mutants: the length in characters whatever was asked for; the NUL is    *)
(* not counted.                                                            *)
ReportedInSymbols(symbols, unit, inBytes) == symbols
FitsWithoutNul(symbols, room, unit) == symbols + 1 >= 0 /\ room >= symbols * unit

(* The length reported, before the conversion to LENGTH of the product.    *)
Reported(symbols, unit, inBytes) == IF inBytes THEN symbols * unit ELSE symbols

(* The value and its NUL fit into the room; a negative symbols + 1 is a    *)
(* huge size_t, which no room reaches.                                     *)
Fits(symbols, room, unit) == symbols + 1 >= 0 /\ room >= (symbols + 1) * unit

(* Mutants: as much is copied as there is room for; the NUL is put into    *)
(* the last bytes of the room; the cut of a number is not told.            *)
WholeRoom(symbols, room, unit) == Filled("success", 0, room, NoNul)
CutAtEnd(room, unit) ==
  IF room >= unit THEN Filled("info", 0, room - unit, room - unit)
  ELSE Filled("info", 0, 0, NoNul)
NumberUntold(ret) == "success"

(* The copy of a value that fits, of one that does not.                    *)
Whole(symbols, room, unit) == Filled("success", 0, (symbols + 1) * unit, NoNul)
Cut(room, unit) ==
  IF room >= unit
  THEN Filled("info", 0, room - unit, (room \div unit - 1) * unit)
  ELSE Filled("info", 0, 0, NoNul)

(* fillOutputStringImpl; `given` says that there is an output pointer.     *)
FillString(size, max, given, unit, limit, inBytes) ==
  LET symbols == Wrap(size, limit)
      room    == IF inBytes THEN max ELSE max * unit
      copy    == IF max < 0 THEN Filled("error", 0, 0, NoNul)
                 ELSE IF ~given THEN Filled("success", 0, 0, NoNul)
                 ELSE IF Fits(symbols, room, unit) THEN Whole(symbols, room, unit)
                 ELSE Cut(room, unit)
  IN  [copy EXCEPT !.length = Wrap(Reported(symbols, unit, inBytes), limit)]

(* The return code of a number that was cut: SQL_SUCCESS_WITH_INFO in a    *)
(* bool.                                                                   *)
CutNumber(ret) == ret

(* fillOutputNumber, for a number of `size` bytes.                         *)
FillNumber(size, max, given) ==
  CASE max < 0 -> Filled("error", size, 0, NoNul)
    [] max >= 0 /\ ~given -> Filled("success", size, 0, NoNul)
    [] max >= 0 /\ given /\ (max = 0 \/ max >= size) ->
         Filled("success", size, size, NoNul)
    [] max > 0 /\ given /\ max < size ->
         Filled(CutNumber("info"), size, max, NoNul)

(* fillOutputNULL: only the indicator.                                     *)
NullData == -1
FillNull == Filled("success", NullData, 0, NoNul)
=============================================================================

------------------------------ MODULE Queries ------------------------------
(* Statement::prepareQuery: the text of a query is rewritten before it is   *)
(* sent, first its escape sequences, then the names of its columns.         *)
EXTENDS Meanings, Columns

CONSTANT
  Texts  \* the queries: a text, and what is claimed about it

(* The machines know every piece by name, and what stands for a token       *)
(* without a name and for one of several characters. The types of tokens    *)
(* are their names.                                                         *)
ASSUME QueriesAssumption ==
  /\ NoText \notin Pieces
  /\ \A p \in Pieces \cup {NoText, "run"} : p \in Names /\ UpperOf(p) \in Names
  /\ TokenTypes \subseteq STRING

(* The rewriting of the queries comes to an end.                            *)
ASSUME TextsAssumption == \A q \in Texts : q.text \in Text /\ TabsOutside(q.text)

VARIABLES given, scan, replaced

(* The text of a query is given.text; given.means is the set of the texts   *)
(* that say the same without escape sequences, empty where the driver       *)
(* promises none.                                                           *)
queryVars == <<vars, given, scan, replaced>>

(* What the state machine sees of a token. A run of other characters has no *)
(* name it would know.                                                      *)
Seen(t) ==
  TokenOf(t.type, IF t.text = <<>> THEN NoText ELSE IF Len(t.text) = 1 THEN t.text[1] ELSE "run")

Lexed(text) ==
  LET lexed == Tokens(text)
  IN [i \in DOMAIN lexed |-> Seen(lexed[i])]

QueryInit ==
  /\ given \in Texts
  /\ scan \in BOOLEAN
  /\ replaced = <<>>
  /\ phase = "given" /\ tokens = <<>>
  /\ cur = 1 /\ machines = <<>> /\ read = TRUE /\ out = <<>>

Unread ==
  /\ replaced' = given.text
  /\ phase' = "unchanged"
  /\ UNCHANGED <<given, scan, tokens, cur, machines, read, out>>

(* SQL_ATTR_NOSCAN leaves the text alone.                                   *)
PrepareUnscanned == phase = "given" /\ ~scan /\ Unread

(* So does replaceEscapeSequences at a closing brace too many: it returns   *)
(* the query at once, and no column of it is unquoted.                      *)
EscapeStray == phase = "given" /\ scan /\ Stray(given.text) /\ Unread

(* replacement_map is empty, so that the forbidden sequences are none.      *)
Escape ==
  /\ phase = "given" /\ scan /\ ~Stray(given.text)
  /\ replaced' = ReplaceEscapes(given.text)
  /\ tokens' = Lexed(replaced')
  /\ phase' = "start"
  /\ UNCHANGED <<given, scan, cur, machines, read, out>>

UnquoteColumns == phase # "given" /\ Next /\ UNCHANGED <<given, scan, replaced>>

QueryNext == PrepareUnscanned \/ EscapeStray \/ Escape \/ UnquoteColumns

QuerySpec == QueryInit /\ [][QueryNext]_queryVars
(* A call that has begun to read tokens goes on.                            *)
FairQuerySpec == QuerySpec /\ WF_queryVars(UnquoteColumns)

-----------------------------------------------------------------------------
(* Escape sequences the driver knows, nested or not, are replaced by what   *)
(* they mean, and what it does not know is copied as it is (up to spaces).  *)
EscapesKeepMeaning ==
  phase \in {"start", "unchanged"} /\ scan /\ given.means # {} =>
    WithoutSpaces(replaced) \in given.means

(* ut/escape_sequences_ut.cpp:207 of a date literal: "SELECT {d             *)
(* '2017-01-01'}" becomes "SELECT toDate('2017-01-01')".                    *)
DatesAreConverted ==
  phase = "start" =>
    \A s \in Strings :
      given.text = <<"SELECT", SPACE, LCURLY, "D", SPACE, s, RCURLY>> =>
        replaced = <<"SELECT", SPACE, "toDate", LPARENT, s, RPARENT>>

(* The lexer and the machines come to an end, for texts without the one     *)
(* character that the lexer does not pass.                                  *)
Passable == \A i \in 1..Len(given.text) : given.text[i] # VerticalTab
PrepareReturns == phase = "start" /\ Passable ~> phase \in {"done", "unchanged"}
=============================================================================

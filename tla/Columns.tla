------------------------------ MODULE Columns ------------------------------
(* unquoteColumns of escaping/escape_sequences.cpp: a state machine reads   *)
(* the tokens of a query and splits the quoted names of columns, "entity.x" *)
(* into "entity"."x". Every SELECT behind the first starts a machine of its *)
(* own, which reads on from the same lexer and returns to the one before    *)
(* it. One action is one turn of the loop of StateMachine::run.             *)
EXTENDS Integers, Sequences, FiniteSets

CONSTANTS
  Names,         \* how a token reads; NoText stands for a token without
  FunctionTypes, \* the token types of function_list
  Upper,         \* a function from the names with lower case letters
  ColumnNames,   \* the upper-case names that match COLUMN_REGEX
  Dotted         \* the names like "entity.x" that match COLUMN_WITH_POINT_REGEX

TableKeywords == {"FROM", "JOIN"}

UpperOf(p) == IF p \in DOMAIN Upper THEN Upper[p] ELSE p

VARIABLES
  phase,     \* "start", "running", and "done" or "unchanged"
  tokens,    \* what the lexer makes of the query
  cur,       \* the current token; EOS is behind the last one
  machines,  \* the machines that run, the innermost last
  read,      \* read_from_state of the innermost machine
  out        \* modified_query: places of tokens, and which are split

vars == <<phase, tokens, cur, machines, read, out>>

NoText == ""
Blank  == " "
Comma  == ","

(* What the machines know by itself is in upper case and no column, and it  *)
(* is no function either. A name with a dot has ENTITY, TAGS or METRIC in it.*)
Separators == {"(", ")", Comma, Blank}
ASSUME ColumnsAssumption ==
  /\ \A k \in TableKeywords \cup Separators \cup {"SELECT", "AS", NoText} :
       UpperOf(k) = k /\ k \notin ColumnNames
  /\ \A d \in Dotted : UpperOf(d) \in ColumnNames
  /\ FunctionTypes \cap {"(", ")", Blank, "OTHER"} = {}

(* A token: its type, its text, its text in upper case, whether the text    *)
(* matches COLUMN_REGEX and COLUMN_WITH_POINT_REGEX. Only a character that  *)
(* no case of the lexer knows makes a token without text.                   *)
TokenOf(type, raw) ==
  [type |-> type, raw |-> raw, word |-> UpperOf(raw),
   column |-> UpperOf(raw) \in ColumnNames, dotted |-> raw \in Dotted]

Token ==
  {t \in [type : STRING, raw : Names, word : Names, column : BOOLEAN, dotted : BOOLEAN] :
     /\ t = TokenOf(t.type, t.raw)
     /\ t.type \in Separators => t.raw = t.type
     /\ t.raw = NoText => t.type = "OTHER"}

(* A machine: how many parentheses are open, currentState with the place of *)
(* its token and nextIsColumnOrFunction, and alliesList.                    *)
States  == {"Select", "Column", "Allies", "FunctionOrClause", "Table"}
Machine == [level : Int, state : States, at : Nat, fresh : BOOLEAN, allies : SUBSET Names]

NewMachine(p) == [level |-> 0, state |-> "Select", at |-> p, fresh |-> FALSE, allies |-> {}]

Has(p)      == p \in 1..Len(tokens)
IsSelect(p) == Has(p) /\ tokens[p].word = "SELECT"
IsType(p, types) == Has(p) /\ tokens[p].type \in types

(* What the next Consume returns: the lexer stays before what it cannot     *)
(* pass, and at the end.                                                    *)
Following(p) == IF Has(p) /\ tokens[p].raw # NoText THEN p + 1 ELSE p

-----------------------------------------------------------------------------
(* nextState of the five states. The word is looked up in upper case among  *)
(* allies that were added as they read.                                     *)
SuccessorKind(m, t) ==
  LET known == t.word \in m.allies
      table == t.word \in TableKeywords
      Other == IF t.column THEN "Column" ELSE "FunctionOrClause"
  IN CASE m.state = "Select" -> Other
       [] m.state = "Column" ->
            IF table THEN "Table"
            ELSE IF t.word \in {"AS", Comma} THEN "Column"
            ELSE IF t.column /\ (~m.fresh \/ known) THEN "Allies" ELSE Other
       [] m.state = "Allies" ->
            IF t.word = Comma \/ known THEN "Allies" ELSE IF table THEN "Table" ELSE Other
       [] m.state = "FunctionOrClause" ->
            IF t.word = Comma THEN "FunctionOrClause"
            ELSE IF known THEN "Allies" ELSE IF table THEN "Table" ELSE Other
       [] m.state = "Table" ->
            IF t.word = "AS" \/ t.column \/ table \/ tokens[m.at].word \in TableKeywords
            THEN "Table" ELSE "FunctionOrClause"

(* A mutant for the runs: the name of a column is no ally.                   *)
SuccessorForgets(m, p) ==
  [m EXCEPT !.state = SuccessorKind(m, tokens[p]), !.at = p,
            !.fresh = m.state = "Column" /\ tokens[p].word = Comma]

Successor(m, p) ==
  LET kind == SuccessorKind(m, tokens[p])
  IN [m EXCEPT !.state = kind, !.at = p,
               !.fresh = m.state = "Column" /\ tokens[p].word = Comma,
               !.allies = IF kind = "Allies" THEN m.allies \cup {tokens[p].raw} ELSE m.allies]

(* ColumnState::convert splits, the others leave the text alone.            *)
SplitsTables(m, p) == read /\ m.state \in {"Column", "Table"} /\ tokens[p].dotted  \* mutant
Splits(m, p) == read /\ m.state = "Column" /\ tokens[p].dotted

-----------------------------------------------------------------------------
Depth == Len(machines)
Top   == machines[Depth]
WithTop(m) == [machines EXCEPT ![Depth] = m]

(* The condition of the loop, and the break behind a closing parenthesis.   *)
AtEnd == ~Has(cur) \/ Top.level < 0

Init ==
  /\ phase = "start"
  /\ tokens \in Seq(Token)
  /\ cur = 1
  /\ machines = <<>>
  /\ read = TRUE
  /\ out = <<>>

StartMachine ==
  /\ phase = "start" /\ IsSelect(1)
  /\ phase' = "running"
  /\ machines' = <<NewMachine(1)>>
  /\ UNCHANGED <<tokens, cur, read, out>>

(* Only what begins with SELECT is touched.                                 *)
ReturnUnchanged ==
  /\ phase = "start" /\ ~IsSelect(1)
  /\ phase' = "unchanged"
  /\ UNCHANGED <<tokens, cur, machines, read, out>>

(* The first half of a turn: the current token is appended.                 *)
LevelOfClosed ==  \* mutant: opening parentheses are not counted
  Top.level + (IF ~read /\ tokens[cur].type = ")" THEN -1 ELSE 0)

LevelBehind == Top.level + (IF read THEN 0
                            ELSE IF tokens[cur].type = "(" THEN 1
                            ELSE IF tokens[cur].type = ")" THEN -1 ELSE 0)

AppendWithoutOpening ==  \* mutant: an opening parenthesis is counted but not appended
  out' = IF tokens[cur].raw = NoText \/ (~read /\ tokens[cur].type = "(") THEN out
         ELSE Append(out, [pos |-> cur, split |-> Splits(Top, cur)])

AppendCurrent ==
  out' = IF tokens[cur].raw = NoText THEN out
         ELSE Append(out, [pos |-> cur, split |-> Splits(Top, cur)])

Turn ==
  /\ phase = "running" /\ ~AtEnd
  /\ AppendCurrent
  /\ UNCHANGED <<phase, tokens>>

(* A closing parenthesis too many ends the machine.                         *)
CloseMachine ==
  /\ Turn
  /\ LevelBehind < 0
  /\ machines' = WithTop([Top EXCEPT !.level = LevelBehind])
  /\ UNCHANGED <<cur, read>>

(* The second half: a SELECT starts another machine,                        *)
EnterSubquery ==
  /\ Turn
  /\ LevelBehind >= 0
  /\ IsSelect(Following(cur))
  /\ machines' = Append(WithTop([Top EXCEPT !.level = LevelBehind]),
                        NewMachine(Following(cur)))
  /\ cur' = Following(cur)
  /\ read' = TRUE

(* a name, a comma or a function changes the state,                         *)
ChangesState(p) == IsType(p, {"IDENT", Comma} \cup FunctionTypes)

ChangeState ==
  /\ Turn
  /\ LevelBehind >= 0
  /\ ~IsSelect(Following(cur))
  /\ ChangesState(Following(cur))
  /\ machines' = WithTop(Successor([Top EXCEPT !.level = LevelBehind], Following(cur)))
  /\ cur' = Following(cur)
  /\ read' = TRUE

(* and anything else is passed.                                             *)
PassOver ==
  /\ Turn
  /\ LevelBehind >= 0
  /\ ~IsSelect(Following(cur))
  /\ ~ChangesState(Following(cur))
  /\ machines' = WithTop([Top EXCEPT !.level = LevelBehind])
  /\ cur' = Following(cur)
  /\ read' = FALSE

(* A machine returns. The one before it counts a parenthesis as closed and  *)
(* reads on, before it looks at its own level.                              *)
ReturnWithoutConsume ==  \* mutant: the outer machine does not read on
  /\ phase = "running" /\ AtEnd /\ Depth > 1
  /\ machines' = [SubSeq(machines, 1, Depth - 1) EXCEPT ![Depth - 1].level = @ - 1]
  /\ read' = FALSE
  /\ UNCHANGED <<phase, tokens, cur, out>>

ReturnToOuter ==
  /\ phase = "running" /\ AtEnd /\ Depth > 1
  /\ machines' = [SubSeq(machines, 1, Depth - 1) EXCEPT
                    ![Depth - 1] = [machines[Depth - 1] EXCEPT
                                      !.level = machines[Depth - 1].level - 1]]
  /\ cur' = Following(cur)
  /\ read' = FALSE
  /\ UNCHANGED <<phase, tokens, out>>

Finish ==
  /\ phase = "running" /\ AtEnd /\ Depth = 1
  /\ phase' = "done"
  /\ UNCHANGED <<tokens, cur, machines, read, out>>

Next ==
  \/ StartMachine \/ ReturnUnchanged
  \/ CloseMachine \/ EnterSubquery \/ ChangeState \/ PassOver
  \/ ReturnToOuter \/ Finish

Spec == Init /\ [][Next]_vars

-----------------------------------------------------------------------------
TypeOK ==
  /\ phase \in {"start", "running", "done", "unchanged"}
  /\ tokens \in Seq(Token)
  /\ cur \in Nat \ {0}
  /\ machines \in Seq(Machine)
  /\ read \in BOOLEAN
  /\ out \in Seq([pos : Nat \ {0}, split : BOOLEAN])

(* No token is appended twice or before an earlier one, however the machines*)
(* are nested.                                                              *)
InOrder == \A i \in 1..(Len(out) - 1) : out[i].pos < out[i + 1].pos

(* What was passed without being appended stands right behind a closing     *)
(* parenthesis, alone or with more that is lost: a machine that reads on    *)
(* when it should have ended has consumed it.                               *)
Kept(p) == \E i \in 1..Len(out) : out[i].pos = p

LostBehindParenthesis ==
  \A p \in 1..(cur - 1) :
    phase = "running" /\ Has(p) /\ ~Kept(p)
      => p > 1 /\ (tokens[p - 1].type = ")" \/ ~Kept(p - 1))

-----------------------------------------------------------------------------
(* Places in the tokens of a query. Open counts the parentheses a place is  *)
(* in; a place stands behind the last one before it that is not a space.    *)
Places == 1..Len(tokens)
Open(p) == Cardinality({i \in 1..p : tokens[i].type = "("})
             - Cardinality({i \in 1..p : tokens[i].type = ")"})
StandsBehind(b, p) ==
  /\ b \in 1..(p - 1) /\ tokens[b].type # Blank
  /\ \A i \in (b + 1)..(p - 1) : tokens[i].type = Blank

(* No parenthesis is closed that was not opened, and a SELECT in            *)
(* parentheses stands directly behind the opening one.                      *)
Parenthesised == \A p \in Places : Open(p) >= 0
SubqueriesAlone ==
  \A p \in Places : IsSelect(p) /\ p > 1 /\ Open(p) > 0
                      => \E b \in Places : StandsBehind(b, p) /\ tokens[b].type = "("
WellFormed == Parenthesised /\ SubqueriesAlone

(* The query that is sent is the whole query.                               *)
QueryIsWhole == phase = "done" /\ WellFormed => \A p \in Places : Kept(p)

(* The SELECT that a place belongs to.                                      *)
Owns(s, p) == /\ s < p /\ IsSelect(s) /\ Open(s) = Open(p)
              /\ \A i \in s..p : Open(i) >= Open(s)
              /\ \A r \in (s + 1)..(p - 1) : IsSelect(r) => Open(r) # Open(s)

(* What a machine looks at: not the token right behind the parenthesis of a *)
(* subquery, which is copied as it is.                                      *)
ClosesSubquery(c) ==
  /\ IsType(c, {")"})
  /\ \E r \in 1..(c - 1) : /\ IsSelect(r) /\ Open(r) = Open(c) + 1
                            /\ \A i \in r..(c - 1) : Open(i) >= Open(r)
IsRead(q) == ChangesState(q) /\ ~IsSelect(q) /\ ~ClosesSubquery(q - 1)

IsSplit(p) == \E i \in 1..Len(out) : out[i].pos = p /\ out[i].split

(* FROM or JOIN that a machine looks at, with something of the same SELECT  *)
(* before it that a machine looked at: neither the FROM of SELECT * nor one *)
(* right behind a subquery, where the code does split the name.             *)
AnnouncesTable(b) ==
  /\ IsRead(b) /\ tokens[b].word \in TableKeywords
  /\ \E s \in Places : \E q \in (s + 1)..(b - 1) : IsRead(q) /\ Owns(s, q) /\ Owns(s, b)

(* The name of a table is not split behind a FROM or JOIN that announces it.*)
TablesOfColumnsAreNotSplit ==
  phase = "done" /\ WellFormed =>
    \A b, p \in Places : StandsBehind(b, p) /\ AnnouncesTable(b) => ~IsSplit(p)

(* The name p behind AS is the alias of what stands before AS, c; a later   *)
(* place of the same SELECT uses it.                                        *)
DeclaresAlias(c, p) ==
  /\ IsType(p, {"IDENT"}) /\ tokens[p].column
  /\ \E a \in Places : StandsBehind(a, p) /\ StandsBehind(c, a) /\ tokens[a].word = "AS"

UsesAlias(p, q) ==
  p < q /\ tokens[q].word = tokens[p].raw /\ \E s \in Places : Owns(s, p) /\ Owns(s, q)

(* An alias of a column that was split is not split itself, neither where it*)
(* is declared nor, if it is in upper case, where the same SELECT uses it;  *)
(* uses of an alias in another case are split like columns.                 *)
AliasesAreNotSplit ==
  phase = "done" /\ WellFormed =>
    \A c, p \in Places : IsSplit(c) /\ DeclaresAlias(c, p) =>
      ~IsSplit(p) /\ \A q \in Places : UsesAlias(p, q) => ~IsSplit(q)
=============================================================================

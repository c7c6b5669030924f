------------------------------- MODULE Lexer -------------------------------
(* The lexer of escaping/lexer.cpp over texts that are sequences of         *)
(* pieces: a name with its quotes, a number, a string literal and every     *)
(* other character is a piece. Keywords stand in upper case, with one       *)
(* function for each way the code treats one, but for SQL_TSI_QUARTER, the  *)
(* only name that is in all three maps.                                     *)
EXTENDS Naturals, Sequences, FiniteSets, FiniteSetsExt

CONSTANTS
  Pieces,    \* what a text is a sequence of
  Strings,   \* string literals
  Numbers,
  Operators  \* characters no case of the lexer knows: = * + and backquotes

Quotes == {"quote",       \* a double quote that no name follows,
           "quoteMY"}     \* and one with a name that a blank follows
VerticalTab == "vtab"  \* white space to isspace, but to no case of the lexer

SPACE   == " "
COMMA   == ","
LPARENT == "("
RPARENT == ")"
LCURLY  == "{"
RCURLY  == "}"
Delimiters == {SPACE, LPARENT, RPARENT, LCURLY, RCURLY, COMMA}

(* function_declare.h: what replaces the name of a function.               *)
FunctionMap == [ABS |-> "abs", CONCAT |-> "concat", CURDATE |-> "today",
                EXTRACT |-> "EXTRACT", TIMESTAMPADD |-> "dateAdd"]

(* literal_map and units_map of escape_sequences.cpp.                      *)
LiteralMap == [SQL_TSI_DAY |-> "'day'"]
UnitsMap   == [SQL_TSI_DAY |-> "day"]

Keywords == DOMAIN FunctionMap \cup DOMAIN LiteralMap
              \cup {"FN", "D", "T", "TS", "CONVERT", "LOCATE", "LTRIM", "CURRENT_TIMESTAMP"}

Text == Seq(Pieces)

(* What a piece begins with tells what it is.                               *)
Fixed == {VerticalTab} \cup Quotes \cup Delimiters \cup Keywords
ASSUME LexerAssumption ==
  /\ Strings \cup Delimiters \cup Keywords \subseteq Pieces
  /\ Strings \cap (Numbers \cup Operators \cup Fixed) = {}
  /\ Numbers \cap (Operators \cup Fixed) = {}
  /\ Operators \cap Fixed = {}

(* The type of a token that is one piece. A quote that opens and does not    *)
(* close is an invalid token.                                               *)
Type(p) ==
  CASE p \in Delimiters \cup Keywords -> p
    [] p \in Strings                  -> "STRING"
    [] p \in Numbers                  -> "NUMBER"
    [] p \in Operators \cup {VerticalTab} -> "OTHER"
    [] p \in Quotes                   -> "INVALID"
    [] OTHER                          -> "IDENT"

(* The first position from i on where the text has a piece in S, or no      *)
(* piece any more.                                                          *)
FirstIn(text, i, S) ==
  Min({j \in i..Len(text) : text[j] \in S} \cup {Len(text) + 1})

EndOfText(text) == [type |-> "EOS", text |-> <<>>, next |-> Len(text) + 1]

(* A mutant for the runs: an invalid character is reported but not passed.   *)
TokenAtInvalidStays(text, at) ==
  IF Type(text[at]) = "INVALID" THEN [type |-> "OTHER", text |-> <<>>, next |-> at]
  ELSE [type |-> Type(text[at]), text |-> <<text[at]>>, next |-> at + 1]

(* Lexer::NextToken: the token at i and where the lexer stands after it.    *)
(* What no case knows runs to the next white space, a vertical tab is not   *)
(* passed, and an open quote at the end is dropped.                              *)
TokenAt(text, at) ==
  LET end == IF Type(text[at]) = "OTHER" THEN FirstIn(text, at, {SPACE, VerticalTab}) ELSE at + 1
  IN [type |-> Type(text[at]), text |-> SubSeq(text, at, end - 1), next |-> end]

TokenFrom(text, at) ==
  IF at > Len(text) \/ (at = Len(text) /\ text[at] \in Quotes)
  THEN EndOfText(text) ELSE TokenAt(text, at)

NextToken(text, i, emitSpace) ==
  TokenFrom(text, IF emitSpace THEN i
                  ELSE Min({j \in i..Len(text) : text[j] # SPACE} \cup {Len(text) + 1}))

-----------------------------------------------------------------------------
(* A lexer is the position behind the last token read, whether spaces are   *)
(* tokens, and the tokens read ahead, which keep the form they were read    *)
(* in.                                                                      *)
NewLexer == [at |-> 1, emitSpace |-> FALSE, ahead |-> <<>>]

SetEmitSpaces(lex, value) == [lex EXCEPT !.emitSpace = value]

ReadOne(lex, token) ==
  [at |-> token.next, emitSpace |-> lex.emitSpace, ahead |-> Append(lex.ahead, token)]

(* LookAhead(n - 1): the lexer with n tokens read ahead, one or two.         *)
AtLeast(text, lex, n) ==
  IF Len(lex.ahead) >= n THEN lex ELSE ReadOne(lex, NextToken(text, lex.at, lex.emitSpace))
Ahead(text, lex)    == AtLeast(text, lex, 1)
TwoAhead(text, lex) == AtLeast(text, Ahead(text, lex), 2)

(* Peek, LookAhead(1) and Consume.                                          *)
Peek(text, lex)    == Ahead(text, lex).ahead[1]
Second(text, lex)  == TwoAhead(text, lex).ahead[2]
WithoutFirst(lex) == [lex EXCEPT !.ahead = Tail(@)]
Consume(text, lex) == WithoutFirst(Ahead(text, lex))

(* while (Match(SPACE)): the spaces read ahead are dropped, and if nothing  *)
(* else was read ahead the next token that is none is.                      *)
SkipSpaces(text, lex) ==
  LET words == {i \in DOMAIN lex.ahead : lex.ahead[i].type # SPACE}
  IN IF words # {} THEN [lex EXCEPT !.ahead = SubSeq(@, Min(words), Len(@))]
     ELSE ReadOne([lex EXCEPT !.ahead = <<>>], NextToken(text, lex.at, FALSE))

-----------------------------------------------------------------------------
(* All tokens of a text, spaces included, from each of its places on. A     *)
(* token without text is the last: the lexer does not get past it.          *)
TokensFrom(text) ==
  LET from[i \in 1..(Len(text) + 1)] ==
        LET token == NextToken(text, i, TRUE)
        IN IF token.type = "EOS" THEN <<>>
           ELSE IF token.next = i THEN <<token>>
           ELSE <<token>> \o from[token.next]
  IN from

Tokens(text) == TokensFrom(text)[1]
=============================================================================

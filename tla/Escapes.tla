------------------------------ MODULE Escapes ------------------------------
(* The rewriting of ODBC escape sequences, escaping/escape_sequences.cpp.   *)
(* Every operator takes the whole outermost sequence, seq, because the code *)
(* returns it from wherever it gives up, the loops that it may call, and    *)
(* the lexer; what it returns is the text it contributes and the lexer      *)
(* behind it.                                                               *)
EXTENDS Lexer

CONSTANT WithoutMilliseconds  \* a function from the literals that have
                              \* milliseconds to what is left of them

(* What the rewriting itself writes are pieces, and no blanks.               *)
ASSUME EscapesAssumption ==
  /\ \A s \in DOMAIN WithoutMilliseconds : s \in Strings /\ WithoutMilliseconds[s] \in Strings
  /\ {"now", "position", "replaceRegexpOne", "'^s'", "''"} \subseteq Pieces
  /\ \A f \in DOMAIN FunctionMap : FunctionMap[f] \in Pieces
  /\ \A l \in DOMAIN LiteralMap : LiteralMap[l] \in Pieces
  /\ \A u \in DOMAIN UnitsMap : UnitsMap[u] \in Pieces

Result(out, lex)  == [out |-> out, lex |-> lex]
After(out, part) == Result(out \o part.out, part.lex)

Spaced(part) == Result(part.out, SetEmitSpaces(part.lex, TRUE))

(* processEscapeSequencesImpl, and its call from within another sequence,   *)
(* behind which spaces are tokens again.                                    *)
Sequence(seq, loops, lex) ==
  IF Peek(seq, lex).type = LCURLY THEN loops.sequence[<<>>][Consume(seq, lex)]
  ELSE Result(seq, Ahead(seq, lex))

NestedSequence(seq, loops, lex) ==
  Spaced(Sequence(seq, loops, SetEmitSpaces(lex, FALSE)))

(* processParentheses: up to the matching parenthesis, with the nested      *)
(* sequences rewritten. Spaces stay tokens behind it.                       *)
ParenthesesFrom(seq, loops, lex) ==
  After(Peek(seq, lex).text, loops.parentheses[Consume(seq, lex)])
Parentheses(seq, loops, lex) == ParenthesesFrom(seq, loops, SetEmitSpaces(lex, TRUE))

ParenthesesTurn(seq, loops, lex) ==
  LET token      == Peek(seq, lex)
      With(part) == After(part.out, loops.parentheses[part.lex])
  IN CASE token.type = RPARENT -> Result(token.text, Consume(seq, lex))
       [] token.type = LPARENT -> With(Parentheses(seq, loops, lex))
       [] token.type = LCURLY -> With(NestedSequence(seq, loops, lex))
       [] token.type \in {"EOS", "INVALID"} -> Result(<<>>, Ahead(seq, lex))
       [] OTHER -> With(Result(token.text, Consume(seq, lex)))

(* A part, behind its name if it has one, and the blanks that follow it.    *)
Behind(seq, name, part) == Result(name \o part.out, SkipSpaces(seq, part.lex))

(* processIdentOrFunction; <<>> is "not an argument". CURRENT_TIMESTAMP is  *)
(* not consumed.                                                            *)
IdentOrFunctionAt(seq, loops, lex) ==
  LET token == Peek(seq, lex)
      two   == TwoAhead(seq, lex)
      Call(name, l) == Behind(seq, name, Parentheses(seq, loops, Consume(seq, l)))
  IN CASE token.type = LCURLY -> Behind(seq, <<>>, NestedSequence(seq, loops, lex))
       [] token.type \in DOMAIN FunctionMap -> Call(<<FunctionMap[token.type]>>, lex)
       [] token.type = LPARENT -> Behind(seq, <<>>, Parentheses(seq, loops, lex))
       [] token.type = "IDENT" /\ Second(seq, lex).type = LPARENT -> Call(token.text, two)
       [] token.type = "IDENT" /\ Second(seq, lex).type # LPARENT ->
            Behind(seq, token.text, Result(<<>>, Consume(seq, two)))
       [] token.type \in {"NUMBER", "STRING"} ->
            Behind(seq, token.text, Result(<<>>, Consume(seq, lex)))
       [] token.type = "CURRENT_TIMESTAMP" -> Result(<<"now", LPARENT, RPARENT>>, lex)
       [] OTHER -> Result(<<>>, lex)

IdentOrFunction(seq, loops, lex) == IdentOrFunctionAt(seq, loops, SkipSpaces(seq, lex))

-----------------------------------------------------------------------------
(* A function with special arguments is a chain of steps. A step that fails *)
(* leaves the lexer where it is, and so do the steps behind it.             *)
Chain(lex) == [ok |-> TRUE, lex |-> lex, args |-> <<>>]

Expect(seq, c, type) ==
  IF c.ok /\ Peek(seq, c.lex).type = type THEN [c EXCEPT !.lex = Consume(seq, c.lex)]
  ELSE [c EXCEPT !.ok = FALSE]

Added(c, arg) == [ok |-> arg.out # <<>>, lex |-> arg.lex, args |-> Append(c.args, arg.out)]
Argument(seq, loops, c) == IF c.ok THEN Added(c, IdentOrFunction(seq, loops, c.lex)) ELSE c

(* An argument that is dropped and may be missing.                          *)
Dropped(seq, loops, c) ==
  IF c.ok THEN [c EXCEPT !.lex = IdentOrFunction(seq, loops, c.lex).lex] ELSE c

Spaces(seq, c) == IF c.ok THEN [c EXCEPT !.lex = SkipSpaces(seq, c.lex)] ELSE c
Skip(seq, c)   == IF c.ok THEN [c EXCEPT !.lex = Consume(seq, c.lex)] ELSE c
Unit(seq, c) ==
  IF c.ok
  THEN [ok |-> Peek(seq, c.lex).type \in DOMAIN UnitsMap, lex |-> Consume(seq, c.lex),
        args |-> <<Peek(seq, c.lex).type>>]
  ELSE c

Contribution(seq, c, out) == Result(IF c.ok THEN out ELSE seq, c.lex)

DateAdd(seq, c) ==
  Contribution(seq, c,
    <<FunctionMap["TIMESTAMPADD"], LPARENT, UnitsMap[c.args[1]], COMMA, SPACE>>
      \o c.args[2] \o <<COMMA, SPACE>> \o c.args[3] \o <<RPARENT>>)

TimestampAddTo(seq, loops, unit) ==
  DateAdd(seq,
    Expect(seq, Spaces(seq,
      Argument(seq, loops, Expect(seq, Spaces(seq,
        Argument(seq, loops, Expect(seq, unit, COMMA))), COMMA))), RPARENT))

TimestampAdd(seq, loops, lex) ==
  TimestampAddTo(seq, loops, Unit(seq, Expect(seq, Chain(lex), LPARENT)))

(* A mutant for the runs: the arguments of position stay in order.          *)
PositionInOrder(seq, c) ==
  Contribution(seq, c, <<"position", LPARENT>> \o c.args[1] \o <<COMMA>> \o c.args[2] \o <<RPARENT>>)

Position(seq, c) ==
  Contribution(seq, c, <<"position", LPARENT>> \o c.args[2] \o <<COMMA>> \o c.args[1] \o <<RPARENT>>)

(* The separators are consumed whatever they are, and the third argument    *)
(* may be missing.                                                          *)
Locate(seq, loops, lex) ==
  Position(seq,
    Skip(seq, Dropped(seq, loops, Skip(seq,
      Argument(seq, loops, Skip(seq, Argument(seq, loops, Expect(seq, Chain(lex), LPARENT))))))))

Trimmed(seq, c) ==
  Contribution(seq, c,
    <<"replaceRegexpOne", LPARENT>> \o c.args[1] \o <<COMMA, SPACE, "'^s'", COMMA, SPACE, "''", RPARENT>>)

LTrim(seq, loops, lex) ==
  Trimmed(seq, Skip(seq, Argument(seq, loops, Expect(seq, Chain(lex), LPARENT))))

(* processFunction. A function that is only renamed is followed by a copy   *)
(* of the rest of the sequence.                                             *)
Named(seq, loops, fn, lex) ==
  CASE fn = "TIMESTAMPADD" -> TimestampAdd(seq, loops, lex)
    [] fn = "LOCATE"       -> Locate(seq, loops, lex)
    [] fn = "LTRIM"        -> LTrim(seq, loops, lex)
    [] fn \in DOMAIN FunctionMap \ {"TIMESTAMPADD"} ->
         After(<<FunctionMap[fn]>>, loops.copy[fn][SetEmitSpaces(lex, TRUE)])
    [] fn = "CURRENT_TIMESTAMP" ->
         Result(<<"now", LPARENT, RPARENT>>,
                IF Peek(seq, lex).type = LPARENT THEN Parentheses(seq, loops, lex).lex
                ELSE Ahead(seq, lex))
    [] OTHER -> Result(seq, lex)

Function(seq, loops, lex) == Named(seq, loops, Peek(seq, lex).type, Consume(seq, lex))

CopyTurn(seq, loops, lex, name) ==
  LET token      == Peek(seq, lex)
      piece      == IF name # "EXTRACT" /\ token.type \in DOMAIN LiteralMap
                    THEN <<LiteralMap[token.type]>> ELSE token.text
      With(part) == After(part.out, loops.copy[name][part.lex])
  IN CASE token.type \in {RCURLY, "EOS", "INVALID"} ->
            Result(<<>>, SetEmitSpaces(Ahead(seq, lex), FALSE))
       [] token.type = LCURLY       -> With(NestedSequence(seq, loops, lex))
       [] token.type = "EXTRACT" -> With(Function(seq, loops, lex))
       [] OTHER                  -> With(Result(piece, Consume(seq, lex)))

(* processDate, and processDateTime with removeMilliseconds.                *)
Date(seq, lex) ==
  IF Peek(seq, lex).type = "STRING" THEN Result(Peek(seq, lex).text, Consume(seq, lex))
  ELSE Result(seq, Ahead(seq, lex))

DateTime(seq, lex) ==
  LET date == Date(seq, lex)
  IN IF Peek(seq, lex).type = "STRING" /\ date.out[1] \in DOMAIN WithoutMilliseconds
     THEN Result(<<WithoutMilliseconds[date.out[1]]>>, date.lex) ELSE date

(* The loop of processEscapeSequencesImpl.                                  *)
SequenceAt(seq, loops, lex, out) ==
  LET token      == Peek(seq, lex)
      after      == Consume(seq, lex)
      With(part) == loops.sequence[out \o part.out][part.lex]
  IN CASE token.type = "FN" -> With(Function(seq, loops, after))
       [] token.type = "D"  -> With(Date(seq, after))
       [] token.type = "TS" -> With(DateTime(seq, after))
       [] token.type = RCURLY  -> Result(out, after)
       [] OTHER             -> Result(seq, after)

SequenceTurn(seq, loops, lex, out) == SequenceAt(seq, loops, SkipSpaces(seq, lex), out)

-----------------------------------------------------------------------------
(* The three loops call each other, and their next turn is a call as well.  *)
(* A turn that is not the last has read a piece of the sequence, so that    *)
(* they are no deeper than it is long, but for a vertical tab, which is     *)
(* never passed: there the code does not return, and the last level has no  *)
(* loops to call.                                                           *)
TokenTypes ==
  Delimiters \cup Keywords \cup {"STRING", "NUMBER", "IDENT", "OTHER", "INVALID", "EOS"}
LexToken == [type : TokenTypes, text : Text, next : Nat]
Lexers   == [at : Nat, emitSpace : BOOLEAN, ahead : Seq(LexToken)]

Turns(seq, loops) ==
  [sequence    |-> [out \in Text |-> [lex \in Lexers |-> SequenceTurn(seq, loops, lex, out)]],
   parentheses |-> [lex \in Lexers |-> ParenthesesTurn(seq, loops, lex)],
   copy        |-> [name \in DOMAIN FunctionMap |->
                      [lex \in Lexers |-> CopyTurn(seq, loops, lex, name)]]]

Levels(seq) ==
  LET level[n \in 0..(Len(seq) + 1)] == IF n = 0 THEN <<>> ELSE Turns(seq, level[n - 1])
  IN level

Rewritten(seq) == Sequence(seq, Levels(seq)[Len(seq) + 1], NewLexer).out

-----------------------------------------------------------------------------
(* replaceEscapeSequences up to unquoteColumns. Level counts the braces     *)
(* before and at a position; what stands between the first brace and the    *)
(* one that closes it is rewritten, and then what follows.                  *)
Level(text, i) == Cardinality({j \in 1..i : text[j] = LCURLY})
                    - Cardinality({j \in 1..i : text[j] = RCURLY})

Stray(text) == \E i \in 1..Len(text) : Level(text, i) < 0

(* No turn passes a vertical tab: with one inside of a sequence the code     *)
(* would not return.                                                        *)
TabsOutside(text) == \A i \in 1..Len(text) : text[i] = VerticalTab => Level(text, i) = 0

ReplaceFrom(text) ==
  LET from[i \in 1..(Len(text) + 1)] ==
        LET open  == FirstIn(text, i, {LCURLY})
            close == Min({j \in open..Len(text) : Level(text, j) = 0} \cup {Len(text) + 1})
        IN IF close > Len(text) THEN SubSeq(text, i, Len(text))
           ELSE SubSeq(text, i, open - 1) \o Rewritten(SubSeq(text, open, close))
                  \o from[close + 1]
  IN from

ReplaceEscapes(text) == IF Stray(text) THEN text ELSE ReplaceFrom(text)[1]
=============================================================================

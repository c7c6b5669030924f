------------------------------ MODULE Meanings ------------------------------
(* What the driver promises of a query with escape sequences: rules for     *)
(* what its parts mean, none of which knows of blanks, of lexers or of      *)
(* loops. The names are those of the maps as they are compiled in; the unit *)
(* tests (ut/escape_sequences_ut.cpp) expect those of an earlier dialect,   *)
(* toInt64 of CONVERT, addDays of TIMESTAMPADD, toDate and toDateTime.      *)
EXTENDS Escapes

(* The pieces of a text that are no blanks, from each of its places on.      *)
Words(text) ==
  LET from[i \in 1..(Len(text) + 1)] ==
        IF i > Len(text) THEN <<>>
        ELSE IF text[i] = SPACE THEN from[i + 1] ELSE <<text[i]>> \o from[i + 1]
  IN from

WithoutSpaces(text) == Words(text)[1]

(* A phrase is a text of some kind, without blanks, and the text that says  *)
(* the same without escape sequences.                                       *)
Phrase(kind, text, means) == [kind |-> kind, text |-> text, means |-> means]
Of(X, kind) == {y \in X : y.kind = kind}

Piece(p, means) == Phrase("piece", <<p>>, <<means>>)
Joins(x, part, rest) == x.text = part.text \o rest.text /\ x.means = part.means \o rest.means

-----------------------------------------------------------------------------
(* Each rule says when phrase x follows from the phrases X. First what      *)
(* stands behind an opening parenthesis, with the closing one, and both.    *)
InsideRule(x, X) ==
  /\ x.kind = "inside"
  /\ \/ x = Phrase("inside", <<RPARENT>>, <<RPARENT>>)
     \/ \E rest \in Of(X, "inside") :
          \/ /\ x.text # <<>> /\ x.text[1] \notin {LPARENT, RPARENT, LCURLY, RCURLY}
             /\ Joins(x, Piece(x.text[1], x.text[1]), rest)
          \/ \E part \in Of(X, "group") \cup Of(X, "sequence") : Joins(x, part, rest)

GroupRule(x, X) ==
  x.kind = "group" /\ \E rest \in Of(X, "inside") : Joins(x, Piece(LPARENT, LPARENT), rest)

(* What stands behind the name of a function that is only renamed, up to    *)
(* the end of the sequence. The literals behind EXTRACT keep their names.   *)
CopyRule(x, X) ==
  /\ x.kind \in {"copy", "extract"}
  /\ \/ x = Phrase(x.kind, <<>>, <<>>)
     \/ \E rest \in Of(X, x.kind) :
          \/ /\ x.text # <<>> /\ x.text[1] \notin {LCURLY, RCURLY}
             /\ x.kind = "copy" => x.text[1] # "EXTRACT"
             /\ Joins(x, Piece(x.text[1], IF x.kind = "copy" /\ x.text[1] \in DOMAIN LiteralMap
                                          THEN LiteralMap[x.text[1]] ELSE x.text[1]), rest)
          \/ \E part \in Of(X, "sequence") : Joins(x, part, rest)
     \/ x.kind = "copy" /\ \E rest \in Of(X, "extract") : Joins(x, Piece("EXTRACT", "EXTRACT"), rest)

(* An argument of a function with special arguments.                        *)
ArgumentRule(x, X) ==
  /\ x.kind = "argument"
  /\ \/ /\ Len(x.text) = 1 /\ Type(x.text[1]) \in {"NUMBER", "STRING", "IDENT"}
        /\ x.means = x.text
     \/ \E part \in Of(X, "group") \cup Of(X, "sequence") :
          x = Phrase("argument", part.text, part.means)
     \/ \E part \in Of(X, "group") :
          \/ \E f \in DOMAIN FunctionMap : Joins(x, Piece(f, FunctionMap[f]), part)
          \/ /\ x.text # <<>> /\ Type(x.text[1]) = "IDENT"
             /\ Joins(x, Piece(x.text[1], x.text[1]), part)

(* The sequences.                                                           *)
Trim(s) == IF s \in DOMAIN WithoutMilliseconds THEN WithoutMilliseconds[s] ELSE s
Now     == <<"now", LPARENT, RPARENT>>

LiteralRule(x) ==
  \E s \in Strings :
    \/ x = Phrase("sequence", <<LCURLY, "D", s, RCURLY>>, <<s>>)
    \/ x = Phrase("sequence", <<LCURLY, "TS", s, RCURLY>>, <<Trim(s)>>)

IsCall(x, text, means) == x = Phrase("sequence", <<LCURLY, "FN">> \o text \o <<RCURLY>>, means)

RenamedRule(x, X) ==
  \E f \in DOMAIN FunctionMap \ {"TIMESTAMPADD"} :
    \E copy \in Of(X, IF f = "EXTRACT" THEN "extract" ELSE "copy") :
      IsCall(x, <<f>> \o copy.text, <<FunctionMap[f]>> \o copy.means)

NowRule(x, X) ==
  \/ IsCall(x, <<"CURRENT_TIMESTAMP">>, Now)
  \/ \E part \in Of(X, "group") : IsCall(x, <<"CURRENT_TIMESTAMP">> \o part.text, Now)

SpecialRule(x, X) ==
  \E a \in Of(X, "argument") :
    \/ IsCall(x, <<"LTRIM", LPARENT>> \o a.text \o <<RPARENT>>,
              <<"replaceRegexpOne", LPARENT>> \o a.means \o <<COMMA, "'^s'", COMMA, "''", RPARENT>>)
    \/ \E b \in Of(X, "argument") :
         \/ \E unit \in DOMAIN UnitsMap :
              IsCall(x, <<"TIMESTAMPADD", LPARENT, unit, COMMA>> \o a.text \o <<COMMA>> \o b.text \o <<RPARENT>>,
                     <<"dateAdd", LPARENT, UnitsMap[unit], COMMA>> \o a.means \o <<COMMA>> \o b.means
                        \o <<RPARENT>>)
         \/ \E c \in Of(X, "argument") :
              IsCall(x, <<"LOCATE", LPARENT>> \o a.text \o <<COMMA>> \o b.text \o <<COMMA>> \o c.text
                          \o <<RPARENT>>,
                     <<"position", LPARENT>> \o b.means \o <<COMMA>> \o a.means \o <<RPARENT>>)

-----------------------------------------------------------------------------
(* Whole texts, where blanks stand between pieces, but not before a         *)
(* parenthesis of a sequence: there the code takes no call for one.         *)
Outermost(q) == Len(q) > 1 /\ Level(q, Len(q)) = 0 /\ \A i \in 1..(Len(q) - 1) : Level(q, i) > 0

Readable(q) ==
  \A i \in 1..Len(q) :
    /\ Type(q[i]) \notin {"OTHER", "INVALID"}
    /\ i > 1 /\ q[i] = LPARENT => q[i - 1] # SPACE

(* Sequences the driver does not know.                                      *)
Starts == {"FN", "D", "TS"}
Functions == DOMAIN FunctionMap \cup {"LOCATE", "LTRIM", "CURRENT_TIMESTAMP"}

Unknown(w) ==
  \/ Len(w) > 1 /\ w[2] \notin Starts \cup {RCURLY}
  \/ Len(w) > 2 /\ w[2] \in {"D", "TS"} /\ w[3] \notin Strings \cup Starts
  \/ /\ Len(w) > 3 /\ w[2] = "FN" /\ w[3] \notin Functions /\ Type(w[3]) # "OTHER"
     /\ w[4] \notin Starts

QueryRule(x, X) ==
  /\ x.kind = "query"
  /\ \/ x = Phrase("query", <<>>, <<>>)
     \/ /\ x.means = WithoutSpaces(x.text)
        /\ \A i \in 1..Len(x.text) : Level(x.text, i) > 0
     \/ \E rest \in Of(X, "query") :
          \/ /\ x.text # <<>> /\ x.text[1] \notin {LCURLY, RCURLY}
             /\ Joins(x, Phrase("piece", <<x.text[1]>>, WithoutSpaces(<<x.text[1]>>)), rest)
          \/ \E n \in 1..Len(x.text) :
               LET q == SubSeq(x.text, 1, n)
                   w == WithoutSpaces(q)
               IN /\ Outermost(q)
                  /\ \/ Unknown(w) /\ Joins(x, Phrase("sequence", q, w), rest)
                     \/ Readable(q) /\ \E part \in Of(X, "sequence") :
                          part.text = w /\ Joins(x, Phrase("sequence", q, part.means), rest)

-----------------------------------------------------------------------------
Follows(x, X) ==
  \/ InsideRule(x, X) \/ GroupRule(x, X) \/ CopyRule(x, X) \/ ArgumentRule(x, X)
  \/ LiteralRule(x) \/ RenamedRule(x, X) \/ NowRule(x, X) \/ SpecialRule(x, X)
  \/ QueryRule(x, X)

(* A derivation: every phrase of it follows from shorter ones. A text or an  *)
(* argument may be as long as the sequence or the group it is.              *)
Shorter(D, x) ==
  {y \in D : \/ Len(y.text) < Len(x.text)
             \/ x.kind \in {"query", "argument"} /\ y.kind \in {"sequence", "group"}}

Derivation(D) ==
  \A x \in D : /\ x.text \in Text /\ x.means \in Text
              /\ Follows(x, Shorter(D, x))

(* A text with a closing brace too many is left alone.                      *)
Promises(D, text, means) ==
  IF Stray(text) THEN means = WithoutSpaces(text)
  ELSE Derivation(D) /\ Phrase("query", text, means) \in D

Promised(text, means) == \E D : Promises(D, text, means)
=============================================================================

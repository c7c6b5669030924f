----------------------------- MODULE MCQueries -----------------------------
(* Queries with escape sequences and queries with columns: see the .cfg.    *)
EXTENDS Queries, SequencesExt, TLC

MCStrings == {"'s'", "'s.5'", "'day'", "''", "'^s'"}
MCWithoutMilliseconds == "'s.5'" :> "'s'"
MCOperators == {"*", "+", "="}
MCColumnNames == {"\"ENTITY.X\"", "\"TAGS.Y\""}
MCUpper  == "\"entity.x\"" :> "\"ENTITY.X\""
MCDotted == {"\"ENTITY.X\"", "\"TAGS.Y\"", "\"entity.x\""}

(* The pieces the queries are made of, and those the rewriting writes.      *)
MCWords == {"SELECT", "FROM", "AS", "JOIN", "WHERE", "IN", "AND", "CAST", "T", "X"}
Written == {"abs", "concat", "today", "dateAdd", "day", "now", "position", "replaceRegexpOne"}
MCPieces == Fixed \cup MCStrings \cup {"1", "-1"} \cup MCOperators \cup MCDotted \cup MCWords \cup Written
MCNames  == MCPieces \cup {NoText, "run"}

-----------------------------------------------------------------------------
(* Expressions, built with their text, what they mean, the parts they are    *)
(* made of, and the derivation of their meaning.                            *)
Whole(parts) == [text  |-> FlattenSeq([i \in DOMAIN parts |-> parts[i].text]),
                 means |-> FlattenSeq([i \in DOMAIN parts |-> parts[i].means])]
Rests(kind, parts) ==
  {LET rest == Whole(SubSeq(parts, i, Len(parts))) IN Phrase(kind, rest.text, rest.means) :
   i \in 1..(Len(parts) + 1)}

Literally(text) == [i \in DOMAIN text |-> Piece(text[i], text[i])]
Value(p) == [text |-> <<p>>, parts |-> Literally(<<p>>), proof |-> {Phrase("argument", <<p>>, <<p>>)}]
Cast ==
  LET text == <<"CAST", "(", "X", ")">>
  IN [text |-> text, parts |-> Literally(text),
      proof |-> {Phrase("argument", text, text), Phrase("group", Tail(text), Tail(text))}
                  \cup (Rests("inside", Literally(<<"X", ")">>)) \ {Phrase("inside", <<>>, <<>>)})]

(* A sequence, from its text, its meaning and what it follows from.          *)
Known1(text, means, proof) ==
  LET words == WithoutSpaces(text)
      this  == Phrase("sequence", words, means)
  IN [text |-> text, means |-> means, parts |-> <<this>>,
      proof |-> proof \cup {this, Phrase("argument", words, means)}]

Lit(k, s, m) == Known1(<<"{", k, " ", s, "}">>, <<m>>, {})
Fn(text, means, proof) == Known1(<<"{", "FN", " ">> \o text \o <<"}">>, means, proof)
Renamed(kind, f, args, parts, proof) ==
  Fn(<<f>> \o args, <<FunctionMap[f]>> \o Whole(parts).means, proof \cup Rests(kind, parts))

Group(parts) == Literally(<<"(">>) \o parts \o Literally(<<")">>)
Round(text) == <<"(">> \o text \o <<")">>
M(a) == Whole(a.parts).means

Known(A) ==
  {Lit("D", "'s'", "'s'"), Lit("TS", "'s.5'", "'s'"), Lit("TS", "'s'", "'s'"),
   Fn(<<"CURRENT_TIMESTAMP">>, Now, {}),
   Fn(<<"CURRENT_TIMESTAMP", "(", "1", ")">>, Now,
      {Phrase("group", <<"(", "1", ")">>, <<"(", "1", ")">>)}
        \cup (Rests("inside", Literally(<<"1", ")">>)) \ {Phrase("inside", <<>>, <<>>)}))}
  \cup {Renamed("copy", "ABS", Round(a.text), Group(a.parts), a.proof) : a \in A}
  \cup {Renamed("copy", "CONCAT", Round(a.text \o <<",">> \o b.text),
                Group(a.parts \o Literally(<<",">>) \o b.parts), a.proof \cup b.proof) : a, b \in A}
  \cup {Fn(<<"TIMESTAMPADD", "(", "SQL_TSI_DAY", ",">> \o a.text \o <<",">> \o b.text \o <<")">>,
           <<"dateAdd", "(", "day", ",">> \o M(a) \o <<",">> \o M(b) \o <<")">>,
           a.proof \cup b.proof) : a, b \in A}
  \cup {Fn(<<"LOCATE", "(">> \o a.text \o <<",">> \o b.text \o <<",", "1", ")">>,
           <<"position", "(">> \o M(b) \o <<",">> \o M(a) \o <<")">>,
           a.proof \cup b.proof \cup Value("1").proof) : a, b \in A}
  \cup {Fn(<<"LTRIM", "(">> \o a.text \o <<")">>,
           <<"replaceRegexpOne", "(">> \o M(a) \o <<",", "'^s'", ",", "''", ")">>, a.proof) : a \in A}

Simple == {Value("X"), Value("-1"), Cast}
Day(m) == <<Piece("SQL_TSI_DAY", m)>>
Units  ==
  LET round   == Round(<<"SQL_TSI_DAY">>)
      extract == Literally(<<"EXTRACT">> \o round \o <<")">>)
  IN {Renamed("copy", "ABS", round, Group(Day("'day'")), {}),
      Renamed("extract", "EXTRACT", round, Group(Day("SQL_TSI_DAY")), {}),
      Fn(<<"ABS">> \o Whole(Group(Front(extract))).text,
         <<"abs">> \o Whole(Group(Front(extract))).text,
         Rests("extract", Tail(extract))
           \cup {Phrase("copy", Whole(e).text, Whole(e).text) : e \in {extract, Literally(<<"(">>) \o extract}})}
Flat   == Known(Simple) \cup Units
Nested == Known(Simple \cup Known({Value("X")}))

(* What the driver does not know, with what it knows inside.                *)
Unchanged(text) == [text |-> text, means |-> WithoutSpaces(text), proof |-> {}]
UnknownAlone ==
  {Unchanged(<<"{", "T", " ", "'s'", "}">>), Unchanged(<<"{", "X", "}">>),
   Unchanged(<<"{", "D", " ", "X", "}">>),
   Unchanged(<<"{", "FN", " ", "X", "(", "1", ")", "}">>)}
Strange ==
  UnknownAlone
  \cup {Unchanged(<<"{", "FN", " ", "CONVERT", "(">> \o e.text \o <<")", "}">>) : e \in Flat}
  \cup {Unchanged(<<"{", "T", " ">> \o e.text \o <<"}">>) : e \in Flat}

(* With blanks between all pieces, but none before a parenthesis: behind a   *)
(* group of the same sequence the code takes no blank there for a call.     *)
Spread(text) ==
  FlattenSeq([i \in 1..Len(text) |->
                IF i = Len(text) \/ text[i + 1] = "(" THEN <<text[i]>> ELSE <<text[i], " ">>])

(* A query, from its parts and the derivations of the sequences among them.  *)
Query(parts, proof) ==
  [text |-> Whole(parts).text, means |-> Whole(parts).means,
   proof |-> proof \cup Rests("query", parts)]

Plain(text) == [i \in DOMAIN text |-> Phrase("piece", <<text[i]>>, WithoutSpaces(<<text[i]>>))]
Select(e) == Query(Plain(<<"SELECT", " ">>) \o <<e>> \o Plain(<<" ", "FROM", " ", "T">>), e.proof)
Unclosed(text) == <<Phrase("open", text, WithoutSpaces(text))>>

EscapeQueries ==
  {Select(e) : e \in Flat \cup Nested \cup Strange}
  \cup {Select([e EXCEPT !.text = Spread(e.text)]) : e \in Flat \cup Nested}
  \cup {Query(<<d>> \o Plain(<<" ", ",">>) \o <<e>> \o Plain(<<" ", "FROM", " ", "T">>),
              d.proof \cup e.proof) : d, e \in Known({Value("X")}) \cup UnknownAlone}
  \cup {Query(Plain(<<"SELECT", " ", "X", " ">>) \o Unclosed(t), {}) :
        t \in {<<"{">> \o Front(e.text) : e \in Flat} \cup {<<"{", "FN", " ", "ABS">>}}
  \cup {Query(Unclosed(<<"SELECT", " ">> \o e.text \o <<"}">>), {}) : e \in Flat}

(* The driver promises what the queries claim.                              *)
ASSUME PromiseAssumption == \A q \in EscapeQueries : Promises(q.proof, q.text, q.means)

-----------------------------------------------------------------------------
(* Queries of columns: every sequence of some words, and longer ones.       *)
Claimless(words) ==
  [text |-> Front(FlattenSeq([i \in 1..Len(words) |-> <<words[i], " ">>])), means |-> {}]

QueryWords == {"X", "\"ENTITY.X\"", "\"entity.x\"", ",", "(", ")", "FROM", "AS", "SELECT", "*"}
ShortQueries ==
  {Claimless(<<"SELECT">> \o s) :
   s \in UNION {[1..n -> QueryWords] : n \in 0..3} \cup [1..4 -> QueryWords \ {"X", "\"entity.x\"", "*"}]}

E == "\"ENTITY.X\""
Items == {<<"X">>, <<E>>, <<E, "AS", E>>, <<"\"entity.x\"", "AS", E, ",", E>>, <<"*">>,
          <<"ABS", "(", E, ")", ",", E>>}
Sub(items) == <<"(", "SELECT">> \o items \o <<"FROM", E, ")">>
Sources == {<<E>>, <<E, E>>, <<E, "JOIN", E>>}
             \cup {Sub(i) : i \in Items} \cup {Sub(i) \o <<",", E>> : i \in Items}
             \cup {<<"(", "SELECT", "X", "SELECT", "X", ")", "X", ",", E>>,
                   <<"(", "SELECT", "X", "FROM">> \o Sub(<<E>>) \o <<")", "X">>}
Tails == {<<>>, <<"WHERE", E, "=", "(", E, ")">>, <<"WHERE", "X", "IN">> \o Sub(<<E>>) \o <<"AND", E>>,
          <<"SELECT", E, "FROM", E>>, <<"X", "quote">>, <<"quoteMY", "X", "quote">>,
          <<"X", "vtab">>}
A == "\"TAGS.Y\""
Aliased == {<<E, "AS", A>>, <<E, "AS", A, ",", A>>, <<"(", E, "AS", A, ")", ",", A>>}
Within(w) == {w, <<"(", "(", "SELECT">> \o w \o <<")", ")">>, <<"(", "SELECT">> \o w \o <<"SELECT">> \o w \o <<")">>}
AliasWords ==
  {i \o <<"FROM">> \o s \o t :
     i \in UNION {Within(w) : w \in Aliased},
     s \in {<<E>>, <<E, "AS", A>>, Sub(<<A>>), Sub(<<E, "AS", A, ",", A>>)},
     t \in {<<>>, <<"WHERE", A>>, <<"JOIN", E, "X", A>>, <<"SELECT", A, "FROM", A>>}}

LongWords == {i \o <<"FROM">> \o s \o t : i \in Items, s \in Sources, t \in Tails} \cup AliasWords

(* With blanks between names only.                                          *)
Tight(words) ==
  LET Apart(i) == i < Len(words) /\ words[i] \notin Delimiters /\ words[i + 1] \notin Delimiters
  IN [text  |-> FlattenSeq([i \in 1..Len(words) |->
                              IF Apart(i) THEN <<words[i], " ">> ELSE <<words[i]>>]),
      means |-> {}]

LongQueries == UNION {{Claimless(<<"SELECT">> \o w), Tight(<<"SELECT">> \o w)} : w \in LongWords}
Joined == [text |-> <<"SELECT", " ", E, "*", "(", E, " ", "+", " ", E, ")", " ", "FROM", " ", E>>, means |-> {}]

AllTexts ==
  {[text |-> q.text, means |-> {q.means}] : q \in EscapeQueries}
  \cup ShortQueries \cup LongQueries \cup {Joined, Claimless(<<"X">>)}

(* The query of the unit test.                                              *)
TestTexts == {[text |-> <<"SELECT", " ", "{", "D", " ", "'s'", "}">>, means |-> {}]}
=============================================================================

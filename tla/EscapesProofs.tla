---------------------------- MODULE EscapesProofs ---------------------------
(***************************************************************************)
(* Proofs about the lexer and the rewriting of escape sequences, for texts *)
(* of any length over any pieces. The loops of escape_sequences.cpp call   *)
(* each other; the model gives each level of calls to the level below. The *)
(* lexer never goes back, and a turn reads a token before it calls a loop, *)
(* so that there are always levels enough for what is left of the text.    *)
(***************************************************************************)
EXTENDS Meanings, SequenceTheorems, FiniteSetTheorems, WellFoundedInduction,
  TLAPS

(* A set of numbers that is not empty has a least one.                     *)
LEMMA LeastNumber ==
  ASSUME NEW T \in SUBSET Nat, T # {}
  PROVE  \E n \in T : \A m \in T : n <= m
<1> DEFINE U == {1..n : n \in T}
<1>1. U \subseteq FiniteSubsetsOf(Nat) /\ U # {}
  <2>1. \A n \in T : 1..n \in FiniteSubsetsOf(Nat)
    BY FS_Interval DEF FiniteSubsetsOf
  <2> QED
    BY <2>1
<1>2. IsWellFoundedOn(StrictSubsetOrdering(Nat), FiniteSubsetsOf(Nat))
  BY FS_StrictSubsetOrderingWellFounded
<1>3. PICK X \in U : \A Y \in U : ~ (<<Y, X>> \in StrictSubsetOrdering(Nat))
  <2> HIDE DEF U
  <2> QED
    BY <1>1, <1>2, WFMin
<1>4. PICK n \in T : X = 1..n
  OBVIOUS
<1>5. ASSUME NEW m \in T, m < n PROVE FALSE
  <2>1. 1..m \in U
    BY DEF U
  <2>2. 1..m \in SUBSET Nat /\ 1..n \in SUBSET Nat
    OBVIOUS
  <2>3. 1..m \subseteq 1..n /\ 1..m # 1..n
    <3>1. n \in 1..n /\ n \notin 1..m
      BY <1>5
    <3> QED
      BY <3>1, <1>5
  <2>4. <<1..m, 1..n>> \in StrictSubsetOrdering(Nat)
    BY <2>2, <2>3 DEF StrictSubsetOrdering
  <2> QED
    BY <2>4, <2>1, <1>3, <1>4
<1> QED
  BY <1>5

-----------------------------------------------------------------------------
(* Texts: sequences of pieces.                                             *)
LEMMA ListIsSeq ==
  ASSUME NEW S, NEW p \in S
  PROVE  <<p>> \in Seq(S)
OBVIOUS

LEMMA ConsFacts ==
  ASSUME NEW S, NEW p \in S, NEW a \in Seq(S)
  PROVE  /\ <<p>> \o a \in Seq(S)
         /\ Len(<<p>> \o a) = Len(a) + 1
         /\ (<<p>> \o a)[1] = p
         /\ <<p>> \o a # <<>>
OBVIOUS

LEMMA TextClosed ==
  /\ <<>> \in Text
  /\ \A p \in Pieces : <<p>> \in Text
  /\ \A a, b \in Text : a \o b \in Text
<1>1. <<>> \in Text
  BY DEF Text
<1>2. \A p \in Pieces : <<p>> \in Text
  BY ListIsSeq DEF Text
<1>3. \A a, b \in Text : a \o b \in Text
  BY DEF Text
<1> QED
  BY <1>1, <1>2, <1>3

LEMMA TextPlaces ==
  /\ \A a \in Text : Len(a) \in Nat /\ \A i \in 1..Len(a) : a[i] \in Pieces
  /\ \A a, b \in Text :
       /\ Len(a \o b) = Len(a) + Len(b)
       /\ \A i \in 1..Len(a) : (a \o b)[i] = a[i]
       /\ \A i \in 1..Len(b) : (a \o b)[Len(a) + i] = b[i]
BY DEF Text

LEMMA TextEmpty == \A a \in Text : <<>> \o a = a /\ a \o <<>> = a
BY DEF Text

-----------------------------------------------------------------------------
(* Induction on the places of a text, from the last one down.               *)
LEMMA DownwardInduction ==
  ASSUME NEW N \in Nat, NEW S, N + 1 \in S, \A i \in 1..N : i + 1 \in S => i \in S
  PROVE  1..(N + 1) \subseteq S
<1> DEFINE T == {d \in Nat : d <= N /\ N + 1 - d \notin S}
<1>1. T = {}
  <2> SUFFICES ASSUME T # {} PROVE FALSE
    OBVIOUS
  <2>1. PICK d \in T : \A c \in T : d <= c
    <3>1. T \in SUBSET Nat
      OBVIOUS
    <3> HIDE DEF T
    <3> QED
      BY <3>1, LeastNumber
  <2>2. d # 0
    OBVIOUS
  <2>3. d - 1 \notin T /\ d \in 1..N /\ N + 1 - d \notin S
    BY <2>1, <2>2
  <2>4. N + 1 - (d - 1) \in S
    BY <2>3
  <2>5. N + 1 - d \in 1..N /\ N + 1 - (d - 1) = N + 1 - d + 1
    BY <2>3
  <2> QED
    BY <2>3, <2>4, <2>5
<1>2. ASSUME NEW i \in 1..(N + 1) PROVE i \in S
  <2>1. N + 1 - i \in Nat /\ N + 1 - i <= N /\ N + 1 - (N + 1 - i) = i
    OBVIOUS
  <2>2. N + 1 - i \notin T
    BY <1>1
  <2> QED
    BY <2>1, <2>2
<1> QED
  BY <1>2

-----------------------------------------------------------------------------
(* The first word from a place on.                                         *)
LEMMA MinIsLeast ==
  ASSUME NEW S \in SUBSET Nat, S # {}
  PROVE  Min(S) \in S /\ \A n \in S : Min(S) <= n
<1>1. \E n \in S : \A m \in S : n <= m
  BY LeastNumber
<1> QED
  BY <1>1 DEF Min

First(seq, i) == Min({j \in i..Len(seq) : seq[j] # SPACE} \cup {Len(seq) + 1})

LEMMA FirstFacts ==
  ASSUME NEW seq \in Text, NEW i \in 1..(Len(seq) + 1)
  PROVE  /\ First(seq, i) \in i..(Len(seq) + 1)
         /\ First(seq, i) <= Len(seq) => seq[First(seq, i)] # SPACE
         /\ i <= Len(seq) /\ seq[i] # SPACE => First(seq, i) = i
         /\ i <= Len(seq) /\ seq[i] = SPACE => First(seq, i) = First(seq, i + 1)
         /\ First(seq, Len(seq) + 1) = Len(seq) + 1
<1> DEFINE N == Len(seq)
           S(k) == {j \in k..N : seq[j] # SPACE} \cup {N + 1}
<1>1. N \in Nat
  BY TextPlaces
<1> HIDE DEF N
<1>2. ASSUME NEW k \in 1..(N + 1)
      PROVE  Min(S(k)) \in S(k) /\ (\A n \in S(k) : Min(S(k)) <= n) /\ Min(S(k)) \in k..(N + 1)
  <2>1. S(k) \in SUBSET Nat /\ S(k) # {} /\ S(k) \subseteq k..(N + 1)
    BY <1>1
  <2> HIDE DEF S
  <2> QED
    BY <2>1, MinIsLeast
<1>3. \A k : First(seq, k) = Min(S(k))
  BY DEF First, N
<1>4. i \in 1..(N + 1)
  BY DEF N
<1>5. First(seq, i) \in i..(N + 1)
  BY <1>2, <1>3, <1>4
<1>6. First(seq, i) <= N => seq[First(seq, i)] # SPACE
  <2>1. Min(S(i)) \in S(i)
    BY <1>2, <1>4
  <2> QED
    BY <2>1, <1>3, <1>1
<1>7. i <= N /\ seq[i] # SPACE => First(seq, i) = i
  <2> SUFFICES ASSUME i <= N, seq[i] # SPACE PROVE First(seq, i) = i
    OBVIOUS
  <2>1. i \in S(i)
    BY <1>4
  <2>2. Min(S(i)) <= i
    <3> HIDE DEF S
    <3> QED
      BY <2>1, <1>2, <1>4
  <2> QED
    BY <2>2, <1>5, <1>3, <1>4, <1>1
<1>8. i <= N /\ seq[i] = SPACE => First(seq, i) = First(seq, i + 1)
  <2> SUFFICES ASSUME i <= N, seq[i] = SPACE PROVE First(seq, i) = First(seq, i + 1)
    OBVIOUS
  <2>1. S(i) = S(i + 1)
    <3>1. \A j \in i..N : j = i \/ j \in (i + 1)..N
      BY <1>4, <1>1
    <3>2. \A j \in (i + 1)..N : j \in i..N
      BY <1>4, <1>1
    <3> QED
      BY <3>1, <3>2
  <2> HIDE DEF S
  <2> QED
    BY <2>1, <1>3
<1>9. First(seq, N + 1) = N + 1
  <2>1. N + 1 \in 1..(N + 1)
    BY <1>1
  <2>2. Min(S(N + 1)) \in (N + 1)..(N + 1)
    <3> HIDE DEF S
    <3> QED
      BY <2>1, <1>2
  <2> QED
    BY <2>2, <1>3, <1>1
<1> QED
  BY <1>5, <1>6, <1>7, <1>8, <1>9 DEF N
Kinds == {"STRING", "NUMBER", "OTHER", "INVALID", "IDENT"}

LEMMA NamesAreApart ==
  /\ Kinds \cap (Delimiters \cup Keywords) = {}
  /\ Quotes \cap (Delimiters \cup Keywords) = {}
  /\ Keywords \cap Delimiters = {}
  /\ VerticalTab \notin Quotes \cup Delimiters \cup Keywords
  /\ SPACE # COMMA /\ SPACE # LPARENT /\ SPACE # RPARENT /\ SPACE # LCURLY /\ SPACE # RCURLY
  /\ COMMA # LPARENT /\ COMMA # RPARENT /\ COMMA # LCURLY /\ COMMA # RCURLY
  /\ LPARENT # RPARENT /\ LPARENT # LCURLY /\ LPARENT # RCURLY
  /\ RPARENT # LCURLY /\ RPARENT # RCURLY /\ LCURLY # RCURLY
<1>1. DOMAIN FunctionMap = {"ABS", "CONCAT", "CURDATE", "EXTRACT", "TIMESTAMPADD"}
  BY DEF FunctionMap
<1>2. DOMAIN LiteralMap = {"SQL_TSI_DAY"}
  BY DEF LiteralMap
<1>3. Keywords = {"ABS", "CONCAT", "CURDATE", "EXTRACT", "TIMESTAMPADD", "SQL_TSI_DAY",
                  "FN", "D", "T", "TS", "CONVERT", "LOCATE", "LTRIM", "CURRENT_TIMESTAMP"}
  BY <1>1, <1>2, Zenon DEF Keywords
<1>4. Kinds \cap Keywords = {} /\ Quotes \cap Keywords = {}
  BY <1>3 DEF Kinds, Quotes
<1>5. Kinds \cap Delimiters = {} /\ Quotes \cap Delimiters = {}
  BY Zenon DEF Kinds, Quotes, Delimiters, SPACE, COMMA, LPARENT, RPARENT, LCURLY, RCURLY
<1>6. Keywords \cap Delimiters = {}
  BY <1>3, Zenon DEF Delimiters, SPACE, COMMA, LPARENT, RPARENT, LCURLY, RCURLY
<1>7. VerticalTab \notin Quotes \cup Delimiters \cup Keywords
  <2>1. VerticalTab \notin Quotes /\ VerticalTab \notin Keywords
    BY <1>3 DEF VerticalTab, Quotes
  <2>2. VerticalTab \notin Delimiters
    BY Zenon DEF VerticalTab, Delimiters, SPACE, COMMA, LPARENT, RPARENT, LCURLY, RCURLY
  <2> QED
    BY <2>1, <2>2
<1>8. /\ SPACE # COMMA /\ SPACE # LPARENT /\ SPACE # RPARENT /\ SPACE # LCURLY /\ SPACE # RCURLY
      /\ COMMA # LPARENT /\ COMMA # RPARENT /\ COMMA # LCURLY /\ COMMA # RCURLY
      /\ LPARENT # RPARENT /\ LPARENT # LCURLY /\ LPARENT # RCURLY
      /\ RPARENT # LCURLY /\ RPARENT # RCURLY /\ LCURLY # RCURLY
  BY Zenon DEF SPACE, COMMA, LPARENT, RPARENT, LCURLY, RCURLY
<1> QED
  BY <1>4, <1>5, <1>6, <1>7, <1>8, Zenon

LEMMA TypeFacts ==
  ASSUME NEW p \in Pieces
  PROVE  /\ Type(p) \in TokenTypes
         /\ Type(p) \notin {"OTHER", "INVALID"} => p \notin Quotes
         /\ p \in Delimiters \cup Keywords => Type(p) = p
         /\ Type(p) \in Delimiters \cup Keywords => Type(p) = p
         /\ Type(p) \in Kinds <=> p \notin Delimiters \cup Keywords
         /\ p \in Strings <=> Type(p) = "STRING"
<1> DEFINE Word == p \in Delimiters \cup Keywords
           Other == p \in Operators \cup {VerticalTab}
<1>1. /\ Word => ~(p \in Strings) /\ ~(p \in Numbers) /\ ~Other /\ ~(p \in Quotes)
      /\ p \in Strings => ~(p \in Numbers) /\ ~Other /\ ~(p \in Quotes)
      /\ p \in Numbers => ~Other /\ ~(p \in Quotes)
      /\ Other => ~(p \in Quotes)
  <2>1. /\ p \in Strings => p \notin Numbers \cup Operators \cup Fixed
        /\ p \in Numbers => p \notin Operators \cup Fixed
        /\ p \in Operators => p \notin Fixed
    BY LexerAssumption, Zenon
  <2>2. p \in Delimiters \cup Keywords => p \notin Quotes \cup {VerticalTab}
    <3>1. VerticalTab \notin Delimiters \cup Keywords
      BY NamesAreApart, Zenon
    <3> QED
      BY <3>1, NamesAreApart, Zenon
  <2>3. p = VerticalTab => p \notin Quotes
    BY NamesAreApart, Zenon
  <2> QED
    BY <2>1, <2>2, <2>3, Zenon DEF Fixed
<1>2. Type(p) = IF Word THEN p ELSE IF p \in Strings THEN "STRING"
                ELSE IF p \in Numbers THEN "NUMBER" ELSE IF Other THEN "OTHER"
                ELSE IF p \in Quotes THEN "INVALID" ELSE "IDENT"
  BY <1>1, Zenon DEF Type
<1> HIDE DEF Word, Other
<1>3. CASE Word
  <2>1. Type(p) = p
    BY <1>2, <1>3
  <2>2. p \notin Kinds
    BY <1>3, NamesAreApart, Zenon DEF Word
  <2>3. p # "STRING"
    BY <2>2, Zenon DEF Kinds
  <2> QED
    BY <1>1, <1>3, <2>1, <2>2, <2>3, Zenon DEF Word, TokenTypes
<1>4. CASE ~Word
  <2>1. Type(p) \in Kinds
    BY <1>2, <1>4 DEF Kinds
  <2>2. Type(p) \notin Delimiters \cup Keywords
    BY <2>1, NamesAreApart, Zenon
  <2>3. Type(p) \in TokenTypes
    BY <2>1, Zenon DEF Kinds, TokenTypes
  <2>4. Type(p) = "STRING" <=> p \in Strings
    BY <1>2, <1>4
  <2>5. p \in Quotes => Type(p) = "INVALID"
    BY <1>1, <1>2, <1>4
  <2>6. p \notin Delimiters \cup Keywords
    BY <1>4 DEF Word
  <2> QED
    BY <2>1, <2>2, <2>3, <2>4, <2>5, <2>6
<1> QED
  BY <1>3, <1>4

LEMMA NextTokenFrom ==
  ASSUME NEW seq, NEW i
  PROVE  NextToken(seq, i, TRUE) = TokenFrom(seq, i)
         /\ NextToken(seq, i, FALSE) = TokenFrom(seq, First(seq, i))
BY DEF NextToken, First

-----------------------------------------------------------------------------
(* The levels of the loops are what their recursive definition says.        *)
LEMMA LevelsRecursion ==
  ASSUME NEW seq, Len(seq) \in Nat
  PROVE  \A n \in 1..(Len(seq) + 1) : Levels(seq)[n] = Turns(seq, Levels(seq)[n - 1])
<1> DEFINE N == Len(seq) + 1
           Rise(g, n) == IF n = 0 THEN <<>> ELSE Turns(seq, g[n - 1])
           IsIt(g, k) == g = [n \in 0..k |-> Rise(g, n)]
           T == {k \in Nat : k <= N /\ ~ \E g : IsIt(g, k)}
<1>0. N \in Nat
  OBVIOUS
<1> HIDE DEF N
<1>1. T = {}
  <2> SUFFICES ASSUME T # {} PROVE FALSE
    OBVIOUS
  <2>1. PICK k \in T : \A c \in T : k <= c
    <3> HIDE DEF T
    <3>1. T \in SUBSET Nat
      BY DEF T
    <3> QED
      BY <3>1, LeastNumber
  <2>2. k \in Nat /\ k <= N /\ ~ \E g : IsIt(g, k)
    <3> HIDE DEF IsIt
    <3> QED
      BY <2>1 DEF T
  <2>3. CASE k = 0
    <3> DEFINE g == [n \in 0..0 |-> <<>>]
    <3>1. \A n \in 0..0 : Rise(g, n) = <<>>
      OBVIOUS
    <3>2. IsIt(g, 0)
      BY <3>1
    <3> QED
      BY <3>2, <2>2, <2>3
  <2>4. CASE k # 0
    <3>1. k - 1 \in Nat /\ k - 1 <= N /\ k - 1 \notin T
      <4> HIDE DEF T
      <4>1. k - 1 \in Nat /\ ~(k <= k - 1) /\ k - 1 <= N
        BY <2>2, <2>4, <1>0
      <4> QED
        BY <4>1, <2>1
    <3>2. PICK g : IsIt(g, k - 1)
      <4>1. \E g : IsIt(g, k - 1)
        <5> HIDE DEF IsIt
        <5> QED
          BY <3>1 DEF T
      <4> QED
        BY <4>1
    <3> DEFINE h == [n \in 0..k |-> IF n = k THEN Rise(g, k) ELSE g[n]]
    <3>3. \A n \in 0..(k - 1) : h[n] = g[n] /\ g[n] = Rise(g, n)
      <4>1. \A n \in 0..(k - 1) : g[n] = Rise(g, n)
        BY <3>2
      <4>2. \A n \in 0..(k - 1) : n \in 0..k /\ n # k
        BY <3>1
      <4>3. \A n \in 0..(k - 1) : h[n] = g[n]
        BY <4>2
      <4> QED
        BY <4>1, <4>3
    <3>4. h[k] = Rise(g, k)
      BY <2>2
    <3>5. \A n \in 0..k : h[n] = Rise(h, n)
      <4> HIDE DEF h
      <4> TAKE n \in 0..k
      <4>1. CASE n = k
        <5>1. k - 1 \in 0..(k - 1)
          BY <3>1
        <5>2. h[k - 1] = g[k - 1]
          BY <5>1, <3>3
        <5> QED
          BY <4>1, <5>2, <3>4
      <4>2. CASE n # k
        <5>1. n \in 0..(k - 1)
          BY <4>2, <2>2
        <5>2. n # 0 => n - 1 \in 0..(k - 1)
          BY <5>1, <3>1
        <5>3. n # 0 => h[n - 1] = g[n - 1]
          BY <5>2, <3>3
        <5> QED
          BY <5>1, <5>3, <3>3
      <4> QED
        BY <4>1, <4>2
    <3>6. IsIt(h, k)
      BY <3>5
    <3> QED
      BY <3>6, <2>2
  <2> QED
    BY <2>3, <2>4
<1>2. PICK g : IsIt(g, N)
  <2>1. N \notin T
    BY <1>1
  <2>2. \E g : IsIt(g, N)
    <3> HIDE DEF IsIt
    <3> QED
      BY <2>1, <1>0 DEF T
  <2> QED
    BY <2>2
<1> HIDE DEF T
<1>3. Levels(seq) = [n \in 0..N |-> Rise(Levels(seq), n)]
  BY <1>2 DEF Levels, N
<1>4. \A n \in 0..N : Levels(seq)[n] = Rise(Levels(seq), n)
  <2> DEFINE L == Levels(seq)
  <2> HIDE DEF L
  <2>1. L = [n \in 0..N |-> Rise(L, n)]
    BY <1>3 DEF L
  <2>2. \A n \in 0..N : L[n] = Rise(L, n)
    BY <2>1
  <2> QED
    BY <2>2 DEF L
<1>5. \A n \in 1..N : n \in 0..N /\ n # 0
  BY <1>0
<1> QED
  BY <1>4, <1>5 DEF N

(* A turn of a loop calls the loops one level below.                        *)
LEMMA LoopTurns ==
  ASSUME NEW seq, Len(seq) \in Nat, NEW n \in 1..(Len(seq) + 1)
  PROVE  /\ \A lex \in Lexers : Levels(seq)[n].parentheses[lex] = ParenthesesTurn(seq, Levels(seq)[n - 1], lex)
         /\ \A lex \in Lexers, name \in DOMAIN FunctionMap :
              Levels(seq)[n].copy[name][lex] = CopyTurn(seq, Levels(seq)[n - 1], lex, name)
         /\ \A lex \in Lexers, written \in Text :
              Levels(seq)[n].sequence[written][lex] = SequenceTurn(seq, Levels(seq)[n - 1], lex, written)
<1>1. Levels(seq)[n] = Turns(seq, Levels(seq)[n - 1])
  BY LevelsRecursion
<1> DEFINE l == Levels(seq)[n - 1]
<1> HIDE DEF l
<1>2. \A lex \in Lexers : Turns(seq, l).parentheses[lex] = ParenthesesTurn(seq, l, lex)
  BY DEF Turns
<1>3. \A lex \in Lexers, name \in DOMAIN FunctionMap :
        Turns(seq, l).copy[name][lex] = CopyTurn(seq, l, lex, name)
  BY DEF Turns
<1>4. \A lex \in Lexers, written \in Text :
        Turns(seq, l).sequence[written][lex] = SequenceTurn(seq, l, lex, written)
  BY DEF Turns
<1> QED
  BY <1>1, <1>2, <1>3, <1>4 DEF l

LEMMA ResultParts ==
  ASSUME NEW o, NEW lex
  PROVE  Result(o, lex).out = o /\ Result(o, lex).lex = lex
BY DEF Result

LEMMA MarkFacts ==
  ASSUME NEW p \in Delimiters
  PROVE  p \in Pieces /\ Type(p) = p /\ p \notin Kinds \cup {"EOS"} /\ p \notin Keywords
<1>1. p \in Pieces
  BY LexerAssumption, Zenon
<1>2. p # "EOS"
  BY Zenon DEF Delimiters, SPACE, COMMA, LPARENT, RPARENT, LCURLY, RCURLY
<1>3. Type(p) = p
  BY <1>1, TypeFacts, Zenon
<1>4. p \notin Kinds /\ p \notin Keywords
  BY NamesAreApart, Zenon
<1> QED
  BY <1>1, <1>2, <1>3, <1>4

LEMMA AllMarks ==
  /\ SPACE \in Delimiters /\ COMMA \in Delimiters /\ LPARENT \in Delimiters
  /\ RPARENT \in Delimiters /\ LCURLY \in Delimiters /\ RCURLY \in Delimiters
BY DEF Delimiters

(* What the code writes are words.                                          *)
LEMMA MapFacts ==
  /\ \A f \in DOMAIN FunctionMap : FunctionMap[f] \in Pieces /\ FunctionMap[f] # SPACE
  /\ \A f \in DOMAIN LiteralMap : LiteralMap[f] \in Pieces /\ LiteralMap[f] # SPACE
  /\ \A f \in DOMAIN UnitsMap : UnitsMap[f] \in Pieces /\ UnitsMap[f] # SPACE
  /\ DOMAIN FunctionMap = {"ABS", "CONCAT", "CURDATE", "EXTRACT", "TIMESTAMPADD"}
  /\ DOMAIN LiteralMap = {"SQL_TSI_DAY"} /\ DOMAIN UnitsMap = {"SQL_TSI_DAY"}
  /\ DOMAIN LiteralMap \subseteq Keywords /\ DOMAIN FunctionMap \subseteq Keywords
  /\ FunctionMap["EXTRACT"] = "EXTRACT" /\ FunctionMap["TIMESTAMPADD"] = "dateAdd"
<1>1. /\ DOMAIN FunctionMap = {"ABS", "CONCAT", "CURDATE", "EXTRACT", "TIMESTAMPADD"}
      /\ FunctionMap["EXTRACT"] = "EXTRACT" /\ FunctionMap["TIMESTAMPADD"] = "dateAdd"
  BY DEF FunctionMap
<1>2. DOMAIN LiteralMap = {"SQL_TSI_DAY"} /\ LiteralMap["SQL_TSI_DAY"] = "'day'"
  BY DEF LiteralMap
<1>3. DOMAIN UnitsMap = {"SQL_TSI_DAY"} /\ UnitsMap["SQL_TSI_DAY"] = "day"
  BY DEF UnitsMap
<1>4. \A f \in DOMAIN FunctionMap : FunctionMap[f] \in {"abs", "concat", "today", "EXTRACT", "dateAdd"}
  BY DEF FunctionMap
<1>5. SPACE \notin {"abs", "concat", "today", "EXTRACT", "dateAdd", "'day'", "day"}
  BY Zenon DEF SPACE
<1>6. \A f \in DOMAIN FunctionMap : FunctionMap[f] # SPACE
  BY <1>4, <1>5
<1>7. \A f \in DOMAIN LiteralMap : LiteralMap[f] # SPACE
  BY <1>2, <1>5
<1>8. \A f \in DOMAIN UnitsMap : UnitsMap[f] # SPACE
  BY <1>3, <1>5
<1>9. DOMAIN LiteralMap \subseteq Keywords /\ DOMAIN FunctionMap \subseteq Keywords
  BY Zenon DEF Keywords
<1>10. /\ \A f \in DOMAIN FunctionMap : FunctionMap[f] \in Pieces
       /\ \A f \in DOMAIN LiteralMap : LiteralMap[f] \in Pieces
       /\ \A f \in DOMAIN UnitsMap : UnitsMap[f] \in Pieces
  BY EscapesAssumption, Zenon
<1> QED
  BY <1>1, <1>2, <1>3, <1>6, <1>7, <1>8, <1>9, <1>10, Zenon

LEMMA TwoTokens ==
  ASSUME NEW a, NEW b
  PROVE  /\ Append(<<a>>, b) = <<a, b>> /\ Len(<<a, b>>) = 2 /\ <<a, b>>[2] = b
         /\ Tail(<<a, b>>) = <<b>> /\ Len(<<a>>) = 1
<1> DEFINE S == {a, b}
           x == <<a>>
           y == <<a, b>>
<1>1. Append(<<a>>, b) = <<a, b>>
  <2>1. x \in Seq(S) /\ b \in S /\ Len(x) = 1 /\ x[1] = a
    OBVIOUS
  <2>2. y \in Seq(S) /\ Len(y) = 2 /\ y[1] = a /\ y[2] = b
    OBVIOUS
  <2> HIDE DEF S, x, y
  <2>3a. Append(x, b) \in Seq(S)
    BY <2>1
  <2>3b. Len(Append(x, b)) = 2
    BY <2>1
  <2>3c. Append(x, b)[1] = a /\ Append(x, b)[2] = b
    <3>1. \A i \in 1..Len(x) : Append(x, b)[i] = x[i]
      BY <2>1, AppendProperties
    <3>2. Append(x, b)[Len(x) + 1] = b
      BY <2>1, AppendProperties, Zenon
    <3>3. 1 \in 1..Len(x) /\ Len(x) + 1 = 2
      BY <2>1
    <3> QED
      BY <2>1, <3>1, <3>2, <3>3
  <2>4. Append(x, b) = y
    BY <2>2, <2>3a, <2>3b, <2>3c, SeqEqual
  <2> QED
    BY <2>4 DEF x, y
<1>2. Len(<<a, b>>) = 2 /\ <<a, b>>[2] = b /\ Len(<<a>>) = 1
  OBVIOUS
<1>3. Tail(<<a, b>>) = <<b>>
  OBVIOUS
<1> QED
  BY <1>1, <1>2, <1>3

(* How many of the first i pieces are p.                                    *)
Count(t, p, i) == Cardinality({j \in 1..i : t[j] = p})

LEMMA LevelCounts ==
  ASSUME NEW t, NEW i
  PROVE  Level(t, i) = Count(t, LCURLY, i) - Count(t, RCURLY, i)
BY DEF Level, Count

CountMoves(t, p, i) ==
  /\ Count(t, p, i) \in Nat
  /\ Count(t, p, i + 1) = IF t[i + 1] = p THEN Count(t, p, i) + 1 ELSE Count(t, p, i)

LEMMA CountMove ==
  ASSUME NEW t, NEW p, NEW i \in Nat
  PROVE  CountMoves(t, p, i)
<1> DEFINE S(k) == {j \in 1..k : t[j] = p}
<1>1. IsFiniteSet(S(i)) /\ Cardinality(S(i)) \in Nat
  <2>1. IsFiniteSet(1..i) /\ S(i) \in SUBSET (1..i)
    BY FS_Interval
  <2>2. IsFiniteSet(S(i))
    BY <2>1, FS_Subset
  <2> QED
    BY <2>2, FS_CardinalityType
<1>2. Count(t, p, i + 1) = IF t[i + 1] = p THEN Count(t, p, i) + 1 ELSE Count(t, p, i)
  <2>1. i + 1 \notin S(i)
    OBVIOUS
  <2>2. CASE t[i + 1] = p
    <3>1. S(i + 1) = S(i) \cup {i + 1}
      BY <2>2
    <3>2. Cardinality(S(i) \cup {i + 1}) = Cardinality(S(i)) + 1
      <4> HIDE DEF S
      <4> QED
        BY <1>1, <2>1, FS_AddElement
    <3> QED
      BY <2>2, <3>1, <3>2 DEF Count
  <2>3. CASE t[i + 1] # p
    <3>1. S(i + 1) = S(i)
      BY <2>3
    <3> QED
      BY <2>3, <3>1 DEF Count
  <2> QED
    BY <2>2, <2>3
<1> QED
  BY <1>1, <1>2 DEF CountMoves, Count

(* Where the next sequence behind position i opens, where it closes, and    *)
(* what becomes of the text from there on.                                  *)
Opening(t, i) == FirstIn(t, i, {LCURLY})
Closing(t, i) == Min({j \in Opening(t, i)..Len(t) : Level(t, j) = 0} \cup {Len(t) + 1})
Replacing(t, g, i) ==
  IF Closing(t, i) > Len(t) THEN SubSeq(t, i, Len(t))
  ELSE SubSeq(t, i, Opening(t, i) - 1) \o Rewritten(SubSeq(t, Opening(t, i), Closing(t, i)))
         \o g[Closing(t, i) + 1]

LEMMA FirstInFacts ==
  ASSUME NEW t \in Text, NEW i \in 1..(Len(t) + 1), NEW S
  PROVE  /\ FirstIn(t, i, S) \in i..(Len(t) + 1)
         /\ \A j \in i..Len(t) : t[j] \in S => FirstIn(t, i, S) <= j
         /\ FirstIn(t, i, S) <= Len(t) => t[FirstIn(t, i, S)] \in S
<1> DEFINE N == Len(t)
           T == {j \in i..N : t[j] \in S} \cup {N + 1}
           k == FirstIn(t, i, S)
<1>1. N \in Nat
  BY TextPlaces
<1>2. T \in SUBSET Nat /\ T # {}
  BY <1>1
<1>3. k \in T /\ \A n \in T : k <= n
  <2> HIDE DEF T
  <2>1. Min(T) \in T /\ \A n \in T : Min(T) <= n
    BY <1>2, MinIsLeast
  <2> QED
    BY <2>1 DEF FirstIn, T
<1> HIDE DEF k
<1>4. k \in i..(N + 1)
  BY <1>1, <1>3
<1>5. \A j \in i..N : t[j] \in S => k <= j
  BY <1>3
<1>6. k <= N => t[k] \in S
  BY <1>1, <1>3
<1> QED
  BY <1>4, <1>5, <1>6 DEF k

LEMMA ClosingFacts ==
  ASSUME NEW t \in Text, NEW i \in 1..(Len(t) + 1)
  PROVE  /\ Closing(t, i) \in Opening(t, i)..(Len(t) + 1)
         /\ Opening(t, i) \in i..(Len(t) + 1)
         /\ \A j \in Opening(t, i)..Len(t) : Level(t, j) = 0 => Closing(t, i) <= j
         /\ Closing(t, i) <= Len(t) => Level(t, Closing(t, i)) = 0
<1> DEFINE N == Len(t)
           o == Opening(t, i)
           T == {j \in o..N : Level(t, j) = 0} \cup {N + 1}
           k == Closing(t, i)
<1>1. N \in Nat /\ o \in i..(N + 1)
  BY TextPlaces, FirstInFacts DEF Opening
<1> HIDE DEF o
<1>2. T \in SUBSET Nat /\ T # {}
  BY <1>1
<1>3. k \in T /\ \A n \in T : k <= n
  <2> HIDE DEF T
  <2>1. Min(T) \in T /\ \A n \in T : Min(T) <= n
    BY <1>2, MinIsLeast
  <2> QED
    BY <2>1 DEF Closing, T, o
<1> HIDE DEF k
<1>4. k \in o..(N + 1)
  BY <1>1, <1>3
<1>5. \A j \in o..N : Level(t, j) = 0 => k <= j
  BY <1>3
<1>6. k <= N => Level(t, k) = 0
  BY <1>1, <1>3
<1> QED
  BY <1>1, <1>4, <1>5, <1>6 DEF k, o

(* ReplaceFrom is what its recursive definition says.                       *)
LEMMA ReplaceRecursion ==
  ASSUME NEW t \in Text
  PROVE  \A i \in 1..(Len(t) + 1) : ReplaceFrom(t)[i] = Replacing(t, ReplaceFrom(t), i)
<1> DEFINE N == Len(t)
           Step(g, i) == Replacing(t, g, i)
           IsIt(g, k) == g = [i \in k..(N + 1) |-> Step(g, i)]
           T == {d \in Nat : d <= N /\ ~ \E g : IsIt(g, N + 1 - d)}
<1>0. N \in Nat
  BY TextPlaces
<1>1. ASSUME NEW k \in 1..(N + 1), NEW g, NEW h, \A j \in (k + 1)..(N + 1) : g[j] = h[j],
             NEW i \in k..(N + 1)
      PROVE  Step(g, i) = Step(h, i)
  <2>1. CASE Closing(t, i) > N
    BY <2>1 DEF Replacing
  <2>2. CASE ~(Closing(t, i) > N)
    <3> DEFINE c == Closing(t, i) + 1
    <3>1. i \in 1..(N + 1)
      BY <1>0
    <3>2. Closing(t, i) \in Opening(t, i)..(N + 1) /\ Opening(t, i) \in i..(N + 1)
      BY <3>1, ClosingFacts
    <3>3. c \in (k + 1)..(N + 1)
      BY <1>0, <2>2, <3>1, <3>2
    <3>4. g[c] = h[c]
      BY <1>1, <3>3
    <3> QED
      BY <3>4 DEF Replacing
  <2> QED
    BY <2>1, <2>2
<1>2. T = {}
  <2> SUFFICES ASSUME T # {} PROVE FALSE
    OBVIOUS
  <2>1. PICK d \in T : \A c \in T : d <= c
    <3> HIDE DEF T
    <3>1. T \in SUBSET Nat
      BY DEF T
    <3> QED
      BY <3>1, LeastNumber
  <2>2. d \in 0..N /\ ~ \E g : IsIt(g, N + 1 - d)
    <3> HIDE DEF IsIt, N
    <3>2. d \in Nat /\ d <= N /\ ~ \E g : IsIt(g, N + 1 - d)
      BY <2>1 DEF T
    <3> QED
      BY <1>0, <3>2
  <2> DEFINE k == N + 1 - d
  <2>3. ASSUME NEW g, d # 0 => IsIt(g, k + 1)
        PROVE  FALSE
    <3>1. k \in 1..(N + 1)
      BY <1>0, <2>2
    <3> DEFINE h == [i \in k..(N + 1) |-> IF i = k THEN Step(g, k) ELSE g[i]]
    <3>2. \A i \in (k + 1)..(N + 1) : h[i] = g[i]
      <4> HIDE DEF Step, k
      <4> QED
        BY <1>0, <3>1
    <3>3. \A i \in (k + 1)..(N + 1) : g[i] = Step(g, i)
      <4>1. CASE d = 0
        <5>1. (k + 1)..(N + 1) = {}
          BY <1>0, <4>1
        <5> QED
          BY <5>1
      <4>2. CASE d # 0
        <5> HIDE DEF Step, k
        <5> QED
          BY <2>3, <4>2
      <4> QED
        BY <4>1, <4>2
    <3>4. h[k] = Step(g, k)
      <4> HIDE DEF Step, k
      <4> QED
        BY <1>0, <3>1
    <3> HIDE DEF h
    <3>5. \A i \in k..(N + 1) : Step(h, i) = Step(g, i)
      <4> HIDE DEF Step, k
      <4> QED
        BY <1>1, <3>1, <3>2
    <3>6. \A i \in k..(N + 1) : h[i] = Step(h, i)
      <4> HIDE DEF Step
      <4> TAKE i \in k..(N + 1)
      <4>1. CASE i = k
        BY <3>4, <3>5, <4>1
      <4>2. CASE i # k
        <5>1. i \in (k + 1)..(N + 1)
          <6> HIDE DEF k
          <6> QED
            BY <1>0, <3>1, <4>2
        <5> QED
          BY <3>2, <3>3, <3>5, <5>1
      <4> QED
        BY <4>1, <4>2
    <3>7. IsIt(h, k)
      <4>1. h = [i \in k..(N + 1) |-> h[i]]
        BY DEF h
      <4> QED
        BY <3>6, <4>1
    <3> QED
      BY <2>2, <3>7
  <2>4. CASE d = 0
    BY <2>3, <2>4
  <2>5. CASE d # 0
    <3>1. d - 1 \in Nat /\ d - 1 <= N /\ N + 1 - (d - 1) = k + 1 /\ ~(d <= d - 1)
      BY <1>0, <2>2, <2>5
    <3>2. d - 1 \notin T
      <4> HIDE DEF T
      <4> QED
        BY <2>1, <3>1
    <3>3. \E g : IsIt(g, N + 1 - (d - 1))
      <4> HIDE DEF IsIt
      <4> QED
        BY <3>1, <3>2 DEF T
    <3>4. PICK g : IsIt(g, k + 1)
      BY <3>1, <3>3
    <3> QED
      BY <2>3, <3>4
  <2> QED
    BY <2>4, <2>5
<1>3. PICK g : IsIt(g, 1)
  <2>1. N \notin T
    BY <1>2
  <2>2. \E g : IsIt(g, N + 1 - N)
    <3> HIDE DEF IsIt
    <3> QED
      BY <1>0, <2>1 DEF T
  <2> QED
    BY <1>0, <2>2
<1> HIDE DEF T
<1>4. ReplaceFrom(t) = [i \in 1..(N + 1) |-> Step(ReplaceFrom(t), i)]
  BY <1>3 DEF ReplaceFrom, Replacing, Opening, Closing
<1> HIDE DEF Step
<1>5. \A i \in 1..(N + 1) : ReplaceFrom(t)[i] = Step(ReplaceFrom(t), i)
  BY <1>4
<1> QED
  BY <1>5 DEF Step

LEMMA TokenAtFacts ==
  ASSUME NEW seq \in Text, NEW k \in 1..Len(seq)
  PROVE  /\ TokenAt(seq, k).type = Type(seq[k])
         /\ Type(seq[k]) # "OTHER" => TokenAt(seq, k).next = k + 1
         /\ TokenAt(seq, k) \in LexToken
<1> DEFINE end == IF Type(seq[k]) = "OTHER" THEN FirstIn(seq, k, {SPACE, VerticalTab}) ELSE k + 1
           u == SubSeq(seq, k, end - 1)
<1>1. Len(seq) \in Nat /\ seq[k] \in Pieces
  BY TextPlaces
<1>2. end \in k..(Len(seq) + 1)
  <2>1. FirstIn(seq, k, {SPACE, VerticalTab}) \in k..(Len(seq) + 1)
    BY <1>1, FirstInFacts
  <2> QED
    BY <1>1, <2>1
<1>3. Type(seq[k]) # "OTHER" => end = k + 1
  OBVIOUS
<1>4. TokenAt(seq, k) = [type |-> Type(seq[k]), text |-> u, next |-> end]
  BY DEF TokenAt
<1> HIDE DEF end
<1>5. u \in Text
  <2>1. seq \in Seq(Pieces)
    BY DEF Text
  <2>2. \A j \in k..(end - 1) : seq[j] \in Pieces
    BY <1>1, <1>2, TextPlaces
  <2>3. u \in Seq(Pieces)
    BY <1>1, <1>2, <2>1
  <2> QED
    BY <2>3 DEF Text
<1>6. Type(seq[k]) \in TokenTypes
  BY <1>1, TypeFacts
<1> HIDE DEF u
<1> QED
  BY <1>1, <1>2, <1>3, <1>4, <1>5, <1>6 DEF LexToken

LEMMA PartNone ==
  ASSUME NEW t, NEW i \in Nat, NEW n \in Int, n < i
  PROVE  SubSeq(t, i, n) = <<>>
BY SubSeqEmpty

-----------------------------------------------------------------------------
(* The tokens of a text.                                                   *)
LexTurn(t, g, i) ==
  LET token == NextToken(t, i, TRUE)
  IN IF token.type = "EOS" THEN <<>>
     ELSE IF token.next = i THEN <<token>> ELSE <<token>> \o g[token.next]

(* A token without a text is one that is not passed.                        *)
LEMMA TokenEnds ==
  ASSUME NEW t \in Text, NEW k \in 1..Len(t)
  PROVE  /\ TokenAt(t, k).next \in k..(Len(t) + 1)
         /\ TokenAt(t, k).text \in Text
         /\ Type(t[k]) # "OTHER" => TokenAt(t, k).text = <<t[k]>>
<1> DEFINE end == IF Type(t[k]) = "OTHER" THEN FirstIn(t, k, {SPACE, VerticalTab}) ELSE k + 1
<1>1. Len(t) \in Nat /\ t[k] \in Pieces
  BY TextPlaces
<1>2. end \in k..(Len(t) + 1)
  <2>1. FirstIn(t, k, {SPACE, VerticalTab}) \in k..(Len(t) + 1)
    BY <1>1, FirstInFacts
  <2> QED
    BY <1>1, <2>1
<1>3. Type(t[k]) # "OTHER" => end = k + 1
  OBVIOUS
<1>4. TokenAt(t, k) = [type |-> Type(t[k]), text |-> SubSeq(t, k, end - 1), next |-> end]
  BY DEF TokenAt
<1> HIDE DEF end
<1>5. TokenAt(t, k).next = end /\ TokenAt(t, k).text = SubSeq(t, k, end - 1)
  <2> DEFINE u == SubSeq(t, k, end - 1)
  <2>1. TokenAt(t, k) = [type |-> Type(t[k]), text |-> u, next |-> end]
    BY <1>4
  <2> HIDE DEF u
  <2>2. TokenAt(t, k).next = end /\ TokenAt(t, k).text = u
    BY <2>1
  <2> QED
    BY <2>2 DEF u
<1>6. TokenAt(t, k).text \in Text
  BY TokenAtFacts DEF LexToken
<1>7. SubSeq(t, k, k) = <<t[k]>>
  <2>1. SubSeq(t, k, k) = <<t[k]>> \o SubSeq(t, k + 1, k)
    BY <1>1, SubSeqRecursiveFirst DEF Text
  <2>2. SubSeq(t, k + 1, k) = <<>>
    BY <1>1, SubSeqEmpty
  <2>3. <<t[k]>> \in Text
    BY <1>1, TextClosed
  <2> QED
    BY <2>1, <2>2, <2>3, TextEmpty
<1>8. ASSUME Type(t[k]) # "OTHER" PROVE TokenAt(t, k).text = <<t[k]>>
  <2>1. end - 1 = k
    BY <1>1, <1>3, <1>8
  <2> QED
    BY <1>5, <1>7, <2>1
<1> QED
  BY <1>2, <1>5, <1>6, <1>8

(* The token at a place: the end, or a token that begins there.             *)
LEMMA TokenThere ==
  ASSUME NEW t \in Text, NEW i \in 1..(Len(t) + 1)
  PROVE  \/ NextToken(t, i, TRUE).type = "EOS"
         \/ /\ i \in 1..Len(t)
            /\ NextToken(t, i, TRUE) = TokenAt(t, i)
            /\ NextToken(t, i, TRUE).next \in i..(Len(t) + 1)
<1>1. NextToken(t, i, TRUE) = TokenFrom(t, i)
  BY NextTokenFrom
<1>2. Len(t) \in Nat
  BY TextPlaces
<1>3. CASE i > Len(t) \/ (i = Len(t) /\ t[i] \in Quotes)
  <2>1. TokenFrom(t, i) = EndOfText(t)
    BY <1>3 DEF TokenFrom
  <2>2. EndOfText(t).type = "EOS"
    BY DEF EndOfText
  <2> QED
    BY <1>1, <2>1, <2>2
<1>4. CASE ~(i > Len(t) \/ (i = Len(t) /\ t[i] \in Quotes))
  <2>1. TokenFrom(t, i) = TokenAt(t, i)
    BY <1>4 DEF TokenFrom
  <2>2. i \in 1..Len(t)
    BY <1>2, <1>4
  <2> QED
    BY <1>1, <2>1, <2>2, TokenEnds
<1> QED
  BY <1>3, <1>4

(* Its tokens are what their recursive definition says.                     *)
LEMMA TokensRecursion ==
  ASSUME NEW t \in Text
  PROVE  \A i \in 1..(Len(t) + 1) : TokensFrom(t)[i] = LexTurn(t, TokensFrom(t), i)
<1> DEFINE N == Len(t)
           Step(g, i) == LexTurn(t, g, i)
           IsIt(g, k) == g = [i \in k..(N + 1) |-> Step(g, i)]
           T == {d \in Nat : d <= N /\ ~ \E g : IsIt(g, N + 1 - d)}
<1>0. N \in Nat
  BY TextPlaces
<1>1. ASSUME NEW k \in 1..(N + 1), NEW g, NEW h, \A j \in (k + 1)..(N + 1) : g[j] = h[j],
             NEW i \in k..(N + 1)
      PROVE  Step(g, i) = Step(h, i)
  <2> DEFINE c == NextToken(t, i, TRUE).next
  <2>1. i \in 1..(N + 1)
    BY <1>0
  <2>2. CASE NextToken(t, i, TRUE).type = "EOS" \/ c = i
    BY <2>2 DEF LexTurn
  <2>3. CASE ~(NextToken(t, i, TRUE).type = "EOS" \/ c = i)
    <3>1. c \in i..(N + 1)
      BY <2>1, <2>3, TokenThere
    <3>2. c \in (k + 1)..(N + 1)
      <4>1. c # i
        BY <2>3
      <4> HIDE DEF c
      <4> QED
        BY <1>0, <2>1, <3>1, <4>1
    <3>3. g[c] = h[c]
      BY <1>1, <3>2
    <3> QED
      BY <3>3 DEF LexTurn
  <2> QED
    BY <2>2, <2>3
<1>2. T = {}
  <2> SUFFICES ASSUME T # {} PROVE FALSE
    OBVIOUS
  <2>1. PICK d \in T : \A c \in T : d <= c
    <3> HIDE DEF T
    <3>1. T \in SUBSET Nat
      BY DEF T
    <3> QED
      BY <3>1, LeastNumber
  <2>2. d \in 0..N /\ ~ \E g : IsIt(g, N + 1 - d)
    <3> HIDE DEF IsIt, N
    <3>2. d \in Nat /\ d <= N /\ ~ \E g : IsIt(g, N + 1 - d)
      BY <2>1 DEF T
    <3> QED
      BY <1>0, <3>2
  <2> DEFINE k == N + 1 - d
  <2>3. ASSUME NEW g, d # 0 => IsIt(g, k + 1)
        PROVE  FALSE
    <3>1. k \in 1..(N + 1)
      BY <1>0, <2>2
    <3> DEFINE h == [i \in k..(N + 1) |-> IF i = k THEN Step(g, k) ELSE g[i]]
    <3>2. \A i \in (k + 1)..(N + 1) : h[i] = g[i]
      <4> HIDE DEF Step, k
      <4> QED
        BY <1>0, <3>1
    <3>3. \A i \in (k + 1)..(N + 1) : g[i] = Step(g, i)
      <4>1. CASE d = 0
        <5>1. (k + 1)..(N + 1) = {}
          BY <1>0, <4>1
        <5> QED
          BY <5>1
      <4>2. CASE d # 0
        <5> HIDE DEF Step, k
        <5> QED
          BY <2>3, <4>2
      <4> QED
        BY <4>1, <4>2
    <3>4. h[k] = Step(g, k)
      <4> HIDE DEF Step, k
      <4> QED
        BY <1>0, <3>1
    <3> HIDE DEF h
    <3>5. \A i \in k..(N + 1) : Step(h, i) = Step(g, i)
      <4> HIDE DEF Step, k
      <4> QED
        BY <1>1, <3>1, <3>2
    <3>6. \A i \in k..(N + 1) : h[i] = Step(h, i)
      <4> HIDE DEF Step
      <4> TAKE i \in k..(N + 1)
      <4>1. CASE i = k
        BY <3>4, <3>5, <4>1
      <4>2. CASE i # k
        <5>1. i \in (k + 1)..(N + 1)
          <6> HIDE DEF k
          <6> QED
            BY <1>0, <3>1, <4>2
        <5> QED
          BY <3>2, <3>3, <3>5, <5>1
      <4> QED
        BY <4>1, <4>2
    <3>7. IsIt(h, k)
      <4>1. h = [i \in k..(N + 1) |-> h[i]]
        BY DEF h
      <4> QED
        BY <3>6, <4>1
    <3> QED
      BY <2>2, <3>7
  <2>4. CASE d = 0
    BY <2>3, <2>4
  <2>5. CASE d # 0
    <3>1. d - 1 \in Nat /\ d - 1 <= N /\ N + 1 - (d - 1) = k + 1 /\ ~(d <= d - 1)
      BY <1>0, <2>2, <2>5
    <3>2. d - 1 \notin T
      <4> HIDE DEF T
      <4> QED
        BY <2>1, <3>1
    <3>3. \E g : IsIt(g, N + 1 - (d - 1))
      <4> HIDE DEF IsIt
      <4> QED
        BY <3>1, <3>2 DEF T
    <3>4. PICK g : IsIt(g, k + 1)
      BY <3>1, <3>3
    <3> QED
      BY <2>3, <3>4
  <2> QED
    BY <2>4, <2>5
<1>3. PICK g : IsIt(g, 1)
  <2>1. N \notin T
    BY <1>2
  <2>2. \E g : IsIt(g, N + 1 - N)
    <3> HIDE DEF IsIt
    <3> QED
      BY <1>0, <2>1 DEF T
  <2> QED
    BY <1>0, <2>2
<1> HIDE DEF T
<1>4. TokensFrom(t) = [i \in 1..(N + 1) |-> Step(TokensFrom(t), i)]
  BY <1>3 DEF TokensFrom, LexTurn
<1> HIDE DEF Step
<1>5. \A i \in 1..(N + 1) : TokensFrom(t)[i] = Step(TokensFrom(t), i)
  BY <1>4
<1> QED
  BY <1>5 DEF Step

-----------------------------------------------------------------------------
(* The rewriting of any text comes to an end. A lexer that has read up to   *)
(* place i, or to a later one, has nothing, one token or two read ahead.    *)
LexerOf(at, e, ahead) == [at |-> at, emitSpace |-> e, ahead |-> ahead]

ReadFrom(seq, i) ==
  {t \in LexToken : IF t.type = "EOS" THEN t.next = Len(seq) + 1 ELSE t.next \in (i + 1)..(Len(seq) + 1)}

OneAhead(seq, lex, i, e) == \E a \in ReadFrom(seq, i) : lex = LexerOf(a.next, e, <<a>>)
BothAhead(seq, lex, i, e) ==
  \E a \in ReadFrom(seq, i) : \E b \in ReadFrom(seq, a.next) : lex = LexerOf(b.next, e, <<a, b>>)

Sound(seq, lex, i) ==
  \E e \in BOOLEAN :
    \/ \E at \in i..(Len(seq) + 1) : lex = LexerOf(at, e, <<>>)
    \/ OneAhead(seq, lex, i, e)
    \/ BothAhead(seq, lex, i, e)

Passes(seq) == seq \in Text /\ \A i \in 1..Len(seq) : seq[i] # VerticalTab

LEMMA LexerFields ==
  ASSUME NEW at, NEW e, NEW x
  PROVE  LexerOf(at, e, x).at = at /\ LexerOf(at, e, x).emitSpace = e /\ LexerOf(at, e, x).ahead = x
BY DEF LexerOf

LEMMA LexerEmits ==
  ASSUME NEW at, NEW e, NEW x, NEW v
  PROVE  SetEmitSpaces(LexerOf(at, e, x), v) = LexerOf(at, v, x)
BY DEF LexerOf, SetEmitSpaces

LEMMA LexerTakes ==
  ASSUME NEW at, NEW e, NEW x, NEW y
  PROVE  [LexerOf(at, e, x) EXCEPT !.ahead = y] = LexerOf(at, e, y)
BY DEF LexerOf

LEMMA LexerReads ==
  ASSUME NEW at, NEW e, NEW x, NEW t
  PROVE  ReadOne(LexerOf(at, e, x), t) = LexerOf(t.next, e, Append(x, t))
BY DEF LexerOf, ReadOne

LEMMA LexerDrops ==
  ASSUME NEW at, NEW e, NEW x
  PROVE  WithoutFirst(LexerOf(at, e, x)) = LexerOf(at, e, Tail(x))
<1> DEFINE y == Tail(x)
           lex == [at |-> at, emitSpace |-> e, ahead |-> x]
<1>1. lex.ahead = x
  OBVIOUS
<1> HIDE DEF y
<1>2. [lex EXCEPT !.ahead = y] = [at |-> at, emitSpace |-> e, ahead |-> y]
  OBVIOUS
<1> HIDE DEF lex
<1>3. WithoutFirst(lex) = [lex EXCEPT !.ahead = y]
  BY <1>1 DEF WithoutFirst, y
<1> QED
  BY <1>2, <1>3 DEF LexerOf, lex, y

LEMMA ReadFromFacts ==
  ASSUME NEW seq \in Text, NEW i \in 1..(Len(seq) + 1), NEW t \in ReadFrom(seq, i)
  PROVE  /\ t.next \in i..(Len(seq) + 1) /\ t.next \in 1..(Len(seq) + 1)
         /\ t.type # "EOS" => t.next \in (i + 1)..(Len(seq) + 1)
         /\ t \in LexToken /\ t.text \in Text /\ t.type \in TokenTypes
<1>1. Len(seq) \in Nat
  BY TextPlaces
<1> QED
  BY <1>1 DEF ReadFrom, LexToken

LEMMA ReadFromLater ==
  ASSUME NEW seq \in Text, NEW i \in 1..(Len(seq) + 1), NEW k \in i..(Len(seq) + 1),
         NEW t \in ReadFrom(seq, k)
  PROVE  t \in ReadFrom(seq, i)
<1>1. Len(seq) \in Nat
  BY TextPlaces
<1> QED
  BY <1>1 DEF ReadFrom

LEMMA PieceIsNoEnd ==
  ASSUME NEW p \in Pieces
  PROVE  Type(p) # "EOS"
<1>1. Type(p) \in Kinds \/ Type(p) \in Delimiters \cup Keywords
  BY TypeFacts
<1>2. "EOS" \notin Kinds
  BY DEF Kinds
<1>3. "EOS" \notin Delimiters
  BY Zenon DEF Delimiters, SPACE, COMMA, LPARENT, RPARENT, LCURLY, RCURLY
<1>4. "EOS" \notin Keywords
  <2>1. DOMAIN FunctionMap = {"ABS", "CONCAT", "CURDATE", "EXTRACT", "TIMESTAMPADD"}
    BY DEF FunctionMap
  <2>2. DOMAIN LiteralMap = {"SQL_TSI_DAY"}
    BY DEF LiteralMap
  <2> QED
    BY <2>1, <2>2 DEF Keywords
<1> QED
  BY <1>1, <1>2, <1>3, <1>4

LEMMA OtherPasses ==
  ASSUME NEW seq, Passes(seq), NEW k \in 1..Len(seq), Type(seq[k]) = "OTHER"
  PROVE  TokenAt(seq, k).next # k
<1>1. seq \in Text /\ Len(seq) \in Nat /\ seq[k] \in Pieces /\ seq[k] # VerticalTab
  BY TextPlaces DEF Passes
<1> DEFINE n == FirstIn(seq, k, {SPACE, VerticalTab})
<1>2. TokenAt(seq, k).next = n
  <2> HIDE DEF n
  <2> DEFINE u == SubSeq(seq, k, n - 1)
  <2>1. TokenAt(seq, k) = [type |-> Type(seq[k]), text |-> u, next |-> n]
    BY DEF TokenAt, n
  <2> HIDE DEF u
  <2> QED
    BY <2>1
<1>3. seq[k] # SPACE
  <2>1. SPACE \in Delimiters
    BY Zenon DEF Delimiters
  <2>2. Type(SPACE) = SPACE \/ SPACE \notin Pieces
    BY <2>1, TypeFacts
  <2>3. SPACE # "OTHER"
    BY <2>1, NamesAreApart DEF Kinds
  <2> QED
    BY <1>1, <2>2, <2>3
<1>4. n <= Len(seq) => seq[n] \in {SPACE, VerticalTab}
  BY <1>1, FirstInFacts
<1> HIDE DEF n
<1> QED
  BY <1>1, <1>2, <1>3, <1>4

LEMMA NextTokenReads ==
  ASSUME NEW seq, Passes(seq), NEW i \in 1..(Len(seq) + 1), NEW e \in BOOLEAN
  PROVE  NextToken(seq, i, e) \in ReadFrom(seq, i)
<1>1. seq \in Text /\ Len(seq) \in Nat
  BY TextPlaces DEF Passes
<1>2. ASSUME NEW k \in 1..(Len(seq) + 1) PROVE TokenFrom(seq, k) \in ReadFrom(seq, k)
  <2>1. CASE k > Len(seq) \/ (k = Len(seq) /\ seq[k] \in Quotes)
    <3>1. TokenFrom(seq, k) = EndOfText(seq)
      BY <2>1 DEF TokenFrom
    <3>2. EndOfText(seq) \in LexToken
      <4>1. <<>> \in Text
        BY TextClosed
      <4>2. "EOS" \in TokenTypes
        BY DEF TokenTypes
      <4> QED
        BY <1>1, <4>1, <4>2 DEF EndOfText, LexToken
    <3>3. EndOfText(seq).type = "EOS" /\ EndOfText(seq).next = Len(seq) + 1
      BY DEF EndOfText
    <3> QED
      BY <3>1, <3>2, <3>3 DEF ReadFrom
  <2>2. CASE ~(k > Len(seq) \/ (k = Len(seq) /\ seq[k] \in Quotes))
    <3>1. TokenFrom(seq, k) = TokenAt(seq, k)
      BY <2>2 DEF TokenFrom
    <3>2. k \in 1..Len(seq)
      BY <1>1, <2>2
    <3>3. TokenAt(seq, k) \in LexToken /\ TokenAt(seq, k).type = Type(seq[k])
            /\ TokenAt(seq, k).next \in k..(Len(seq) + 1)
            /\ (Type(seq[k]) # "OTHER" => TokenAt(seq, k).next = k + 1)
      BY <1>1, <3>2, TokenAtFacts, TokenEnds
    <3>4. Type(seq[k]) # "EOS"
      BY <1>1, <3>2, PieceIsNoEnd, TextPlaces
    <3>5. Type(seq[k]) = "OTHER" => TokenAt(seq, k).next # k
      BY <1>1, <3>2, OtherPasses
    <3>6. TokenAt(seq, k).next \in (k + 1)..(Len(seq) + 1)
      <4> DEFINE m == TokenAt(seq, k).next
      <4> HIDE DEF m
      <4>1. m \in k..(Len(seq) + 1) /\ m # k
        BY <3>2, <3>3, <3>5 DEF m
      <4>2. m \in (k + 1)..(Len(seq) + 1)
        BY <1>1, <4>1
      <4> QED
        BY <4>2 DEF m
    <3> QED
      BY <3>1, <3>3, <3>4, <3>6 DEF ReadFrom
  <2> QED
    BY <2>1, <2>2
<1>3. NextToken(seq, i, TRUE) = TokenFrom(seq, i) /\ NextToken(seq, i, FALSE) = TokenFrom(seq, First(seq, i))
  BY NextTokenFrom
<1>4. First(seq, i) \in i..(Len(seq) + 1)
  BY <1>1, FirstFacts
<1>5. First(seq, i) \in 1..(Len(seq) + 1)
  BY <1>1, <1>4
<1>6. TokenFrom(seq, First(seq, i)) \in ReadFrom(seq, i)
  BY <1>1, <1>2, <1>4, <1>5, ReadFromLater
<1> QED
  BY <1>2, <1>3, <1>6

LEMMA SoundNothing ==
  ASSUME NEW seq, NEW i, NEW e \in BOOLEAN, NEW at \in i..(Len(seq) + 1)
  PROVE  Sound(seq, LexerOf(at, e, <<>>), i)
BY DEF Sound

LEMMA SoundOne ==
  ASSUME NEW seq, NEW i, NEW e \in BOOLEAN, NEW a \in ReadFrom(seq, i)
  PROVE  Sound(seq, LexerOf(a.next, e, <<a>>), i)
BY DEF Sound, OneAhead

LEMMA SoundBoth ==
  ASSUME NEW seq, NEW i, NEW e \in BOOLEAN, NEW a \in ReadFrom(seq, i),
         NEW b \in ReadFrom(seq, a.next)
  PROVE  Sound(seq, LexerOf(b.next, e, <<a, b>>), i)
BY DEF Sound, BothAhead

LEMMA SoundLater ==
  ASSUME NEW seq \in Text, NEW i \in 1..(Len(seq) + 1), NEW k \in i..(Len(seq) + 1),
         NEW lex, Sound(seq, lex, k)
  PROVE  Sound(seq, lex, i)
<1>1. Len(seq) \in Nat
  BY TextPlaces
<1>2. PICK e \in BOOLEAN :
        \/ \E at \in k..(Len(seq) + 1) : lex = LexerOf(at, e, <<>>)
        \/ OneAhead(seq, lex, k, e)
        \/ BothAhead(seq, lex, k, e)
  BY DEF Sound
<1>3. CASE \E at \in k..(Len(seq) + 1) : lex = LexerOf(at, e, <<>>)
  <2>1. PICK at \in k..(Len(seq) + 1) : lex = LexerOf(at, e, <<>>)
    BY <1>3
  <2>2. at \in i..(Len(seq) + 1)
    BY <1>1
  <2> QED
    BY <2>1, <2>2, SoundNothing
<1>4. CASE OneAhead(seq, lex, k, e)
  <2>1. PICK a \in ReadFrom(seq, k) : lex = LexerOf(a.next, e, <<a>>)
    BY <1>4 DEF OneAhead
  <2>2. a \in ReadFrom(seq, i)
    BY ReadFromLater
  <2> QED
    BY <2>1, <2>2, SoundOne
<1>5. CASE BothAhead(seq, lex, k, e)
  <2>1. PICK a \in ReadFrom(seq, k) : \E b \in ReadFrom(seq, a.next) : lex = LexerOf(b.next, e, <<a, b>>)
    BY <1>5 DEF BothAhead
  <2>2. PICK b \in ReadFrom(seq, a.next) : lex = LexerOf(b.next, e, <<a, b>>)
    BY <2>1
  <2>3. a \in ReadFrom(seq, i)
    BY ReadFromLater
  <2> QED
    BY <2>2, <2>3, SoundBoth
<1> QED
  BY <1>2, <1>3, <1>4, <1>5

LEMMA LexerOfIsLexer ==
  ASSUME NEW at \in Nat, NEW e \in BOOLEAN, NEW x \in Seq(LexToken)
  PROVE  LexerOf(at, e, x) \in Lexers
BY DEF LexerOf, Lexers

LEMMA SoundIsLexer ==
  ASSUME NEW seq \in Text, NEW i \in 1..(Len(seq) + 1), NEW lex, Sound(seq, lex, i)
  PROVE  lex \in Lexers
<1>1. Len(seq) \in Nat
  BY TextPlaces
<1>2. PICK e \in BOOLEAN :
        \/ \E at \in i..(Len(seq) + 1) : lex = LexerOf(at, e, <<>>)
        \/ OneAhead(seq, lex, i, e)
        \/ BothAhead(seq, lex, i, e)
  BY DEF Sound
<1>3. CASE \E at \in i..(Len(seq) + 1) : lex = LexerOf(at, e, <<>>)
  <2>1. PICK at \in i..(Len(seq) + 1) : lex = LexerOf(at, e, <<>>)
    BY <1>3
  <2>2. at \in Nat /\ <<>> \in Seq(LexToken)
    BY <1>1
  <2> QED
    BY <2>1, <2>2, LexerOfIsLexer
<1>4. CASE OneAhead(seq, lex, i, e)
  <2>1. PICK a \in ReadFrom(seq, i) : lex = LexerOf(a.next, e, <<a>>)
    BY <1>4 DEF OneAhead
  <2>2. a \in LexToken /\ a.next \in 1..(Len(seq) + 1)
    BY ReadFromFacts
  <2>3. a.next \in Nat /\ <<a>> \in Seq(LexToken)
    BY <1>1, <2>2, ListIsSeq
  <2> QED
    BY <2>1, <2>3, LexerOfIsLexer
<1>5. CASE BothAhead(seq, lex, i, e)
  <2>1. PICK a \in ReadFrom(seq, i) : \E b \in ReadFrom(seq, a.next) : lex = LexerOf(b.next, e, <<a, b>>)
    BY <1>5 DEF BothAhead
  <2>2. PICK b \in ReadFrom(seq, a.next) : lex = LexerOf(b.next, e, <<a, b>>)
    BY <2>1
  <2>3. a \in LexToken /\ a.next \in 1..(Len(seq) + 1)
    BY ReadFromFacts
  <2>4. b \in LexToken /\ b.next \in 1..(Len(seq) + 1)
    BY <2>3, ReadFromFacts
  <2>5. b.next \in Nat /\ <<a, b>> \in Seq(LexToken)
    BY <1>1, <2>3, <2>4
  <2> QED
    BY <2>2, <2>5, LexerOfIsLexer
<1> QED
  BY <1>2, <1>3, <1>4, <1>5

LEMMA OneToken ==
  ASSUME NEW a
  PROVE  /\ Append(<<>>, a) = <<a>> /\ Len(<<a>>) = 1 /\ <<a>>[1] = a /\ Tail(<<a>>) = <<>>
         /\ DOMAIN <<a>> = {1} /\ <<a>> # <<>> /\ Len(<<>>) = 0
OBVIOUS

(* What reading ahead makes of a lexer with nothing, one or two tokens.     *)
LEMMA AheadOfNothing ==
  ASSUME NEW seq, NEW at, NEW e
  PROVE  Ahead(seq, LexerOf(at, e, <<>>)) = LexerOf(NextToken(seq, at, e).next, e, <<NextToken(seq, at, e)>>)
<1> DEFINE lex == LexerOf(at, e, <<>>)
           t == NextToken(seq, at, e)
<1>1. lex.at = at /\ lex.emitSpace = e /\ lex.ahead = <<>>
  BY LexerFields
<1>2. ~(Len(lex.ahead) >= 1)
  BY <1>1
<1>3. Ahead(seq, lex) = ReadOne(lex, t)
  BY <1>1, <1>2 DEF Ahead, AtLeast
<1> HIDE DEF t
<1>4. ReadOne(lex, t) = LexerOf(t.next, e, Append(<<>>, t))
  <2> DEFINE x == <<>>
  <2> HIDE DEF x
  <2>1. ReadOne(LexerOf(at, e, x), t) = LexerOf(t.next, e, Append(x, t))
    BY LexerReads
  <2> QED
    BY <2>1 DEF x
<1>5. Append(<<>>, t) = <<t>>
  BY OneToken
<1> QED
  BY <1>3, <1>4, <1>5 DEF t

LEMMA AheadOfSome ==
  ASSUME NEW seq, NEW at, NEW e, NEW x, Len(x) \in Nat, Len(x) >= 1
  PROVE  Ahead(seq, LexerOf(at, e, x)) = LexerOf(at, e, x)
BY LexerFields DEF Ahead, AtLeast

(* The token that is read next, and the lexer before and behind it.         *)
Sees(seq, lex, i) ==
  /\ Peek(seq, lex) \in ReadFrom(seq, i)
  /\ Sound(seq, Ahead(seq, lex), i)
  /\ Sound(seq, Consume(seq, lex), Peek(seq, lex).next)
  /\ lex.ahead # <<>> => Peek(seq, lex) = lex.ahead[1]
  /\ lex.ahead = <<>> => Peek(seq, lex) = NextToken(seq, lex.at, lex.emitSpace) /\ lex.at \in i..(Len(seq) + 1)

LEMMA SoundSees ==
  ASSUME NEW seq, Passes(seq), NEW i \in 1..(Len(seq) + 1), NEW lex, Sound(seq, lex, i)
  PROVE  Sees(seq, lex, i)
<1>1. seq \in Text /\ Len(seq) \in Nat
  BY TextPlaces DEF Passes
<1>2. ASSUME NEW e \in BOOLEAN,
             NEW a \in ReadFrom(seq, i), Ahead(seq, lex) = LexerOf(a.next, e, <<a>>)
      PROVE  /\ Peek(seq, lex) = a /\ Sound(seq, Ahead(seq, lex), i)
             /\ Sound(seq, Consume(seq, lex), Peek(seq, lex).next)
  <2>1. Peek(seq, lex) = a
    BY <1>2, LexerFields, OneToken DEF Peek
  <2>2. Consume(seq, lex) = LexerOf(a.next, e, <<>>)
    <3> DEFINE x == <<a>>
    <3>1. Tail(x) = <<>>
      BY OneToken
    <3>2. Ahead(seq, lex) = LexerOf(a.next, e, x)
      BY <1>2
    <3> HIDE DEF x
    <3>3. WithoutFirst(LexerOf(a.next, e, x)) = LexerOf(a.next, e, Tail(x))
      BY LexerDrops
    <3> QED
      BY <3>1, <3>2, <3>3 DEF Consume
  <2>3. a.next \in a.next..(Len(seq) + 1)
    BY <1>1, ReadFromFacts
  <2> QED
    BY <1>2, <2>1, <2>2, <2>3, SoundNothing, SoundOne
<1>3. PICK e \in BOOLEAN :
        \/ \E at \in i..(Len(seq) + 1) : lex = LexerOf(at, e, <<>>)
        \/ OneAhead(seq, lex, i, e)
        \/ BothAhead(seq, lex, i, e)
  BY DEF Sound
<1>4. CASE \E at \in i..(Len(seq) + 1) : lex = LexerOf(at, e, <<>>)
  <2>1. PICK at \in i..(Len(seq) + 1) : lex = LexerOf(at, e, <<>>)
    BY <1>4
  <2> DEFINE a == NextToken(seq, at, e)
  <2>2. at \in 1..(Len(seq) + 1)
    BY <1>1
  <2>3. a \in ReadFrom(seq, at)
    BY <2>2, NextTokenReads
  <2>4. a \in ReadFrom(seq, i)
    BY <1>1, <2>3, ReadFromLater
  <2>5. Ahead(seq, lex) = LexerOf(a.next, e, <<a>>)
    BY <2>1, AheadOfNothing
  <2>6. lex.at = at /\ lex.emitSpace = e /\ lex.ahead = <<>>
    BY <2>1, LexerFields
  <2>7. Peek(seq, lex) = a /\ Sound(seq, Ahead(seq, lex), i) /\ Sound(seq, Consume(seq, lex), Peek(seq, lex).next)
    BY <1>2, <2>4, <2>5
  <2> QED
    BY <2>4, <2>6, <2>7 DEF Sees
<1>5. CASE OneAhead(seq, lex, i, e)
  <2>1. PICK a \in ReadFrom(seq, i) : lex = LexerOf(a.next, e, <<a>>)
    BY <1>5 DEF OneAhead
  <2>2. Len(<<a>>) = 1 /\ <<a>> # <<>> /\ <<a>>[1] = a
    BY OneToken
  <2>3. Ahead(seq, lex) = LexerOf(a.next, e, <<a>>)
    BY <2>1, <2>2, AheadOfSome
  <2>4. Peek(seq, lex) = a /\ Sound(seq, Ahead(seq, lex), i) /\ Sound(seq, Consume(seq, lex), Peek(seq, lex).next)
    BY <1>2, <2>3
  <2>5. lex.ahead = <<a>>
    BY <2>1, LexerFields
  <2> QED
    BY <2>2, <2>4, <2>5 DEF Sees
<1>6. CASE BothAhead(seq, lex, i, e)
  <2>1. PICK a \in ReadFrom(seq, i) : \E b \in ReadFrom(seq, a.next) : lex = LexerOf(b.next, e, <<a, b>>)
    BY <1>6 DEF BothAhead
  <2>2. PICK b \in ReadFrom(seq, a.next) : lex = LexerOf(b.next, e, <<a, b>>)
    BY <2>1
  <2>3. Len(<<a, b>>) = 2 /\ Tail(<<a, b>>) = <<b>>
    BY TwoTokens
  <2>4. <<a, b>> # <<>> /\ <<a, b>>[1] = a
    OBVIOUS
  <2>5. Ahead(seq, lex) = lex
    BY <2>2, <2>3, AheadOfSome
  <2>6. lex.ahead = <<a, b>>
    BY <2>2, LexerFields
  <2>7. Peek(seq, lex) = a
    BY <2>4, <2>5, <2>6 DEF Peek
  <2>8. Consume(seq, lex) = LexerOf(b.next, e, <<b>>)
    BY <2>2, <2>3, <2>5, LexerDrops DEF Consume
  <2>9. Sound(seq, Consume(seq, lex), a.next)
    BY <2>8, SoundOne
  <2> QED
    BY <2>4, <2>5, <2>6, <2>7, <2>9 DEF Sees
<1> QED
  BY <1>3, <1>4, <1>5, <1>6

LEMMA PeekIsToken ==
  ASSUME NEW seq, Passes(seq), NEW i \in 1..(Len(seq) + 1), NEW lex, Sound(seq, lex, i)
  PROVE  Peek(seq, lex).text \in Text /\ Peek(seq, lex).type \in TokenTypes
<1>1. Peek(seq, lex) \in ReadFrom(seq, i) /\ seq \in Text
  BY SoundSees DEF Sees, Passes
<1> QED
  BY <1>1, ReadFromFacts

LEMMA AheadIsSound ==
  ASSUME NEW seq, Passes(seq), NEW i \in 1..(Len(seq) + 1), NEW lex, Sound(seq, lex, i)
  PROVE  Sound(seq, Ahead(seq, lex), i)
BY SoundSees DEF Sees

LEMMA ConsumeIsSound ==
  ASSUME NEW seq, Passes(seq), NEW i \in 1..(Len(seq) + 1), NEW lex, Sound(seq, lex, i)
  PROVE  Sound(seq, Consume(seq, lex), i)
<1>1. Peek(seq, lex) \in ReadFrom(seq, i) /\ Sound(seq, Consume(seq, lex), Peek(seq, lex).next) /\ seq \in Text
  BY SoundSees DEF Sees, Passes
<1>2. Peek(seq, lex).next \in i..(Len(seq) + 1)
  BY <1>1, ReadFromFacts
<1> QED
  BY <1>1, <1>2, SoundLater

(* A token that is not the end is passed.                                   *)
LEMMA ConsumeIsPast ==
  ASSUME NEW seq, Passes(seq), NEW i \in 1..(Len(seq) + 1), NEW lex, Sound(seq, lex, i),
         Peek(seq, lex).type # "EOS"
  PROVE  i + 1 \in 1..(Len(seq) + 1) /\ Sound(seq, Consume(seq, lex), i + 1)
<1> DEFINE n == Peek(seq, lex).next
<1>1. Peek(seq, lex) \in ReadFrom(seq, i) /\ Sound(seq, Consume(seq, lex), n) /\ seq \in Text
  BY SoundSees DEF Sees, Passes
<1>2. n \in (i + 1)..(Len(seq) + 1)
  BY <1>1, ReadFromFacts
<1>3. i + 1 \in 1..(Len(seq) + 1)
  <2> HIDE DEF n
  <2>1. Len(seq) \in Nat
    BY <1>1, TextPlaces
  <2> QED
    BY <1>2, <2>1
<1> QED
  BY <1>1, <1>2, <1>3, SoundLater

LEMMA EmitIsSound ==
  ASSUME NEW seq, NEW i, NEW lex, NEW v \in BOOLEAN, Sound(seq, lex, i)
  PROVE  Sound(seq, SetEmitSpaces(lex, v), i)
<1>1. PICK e \in BOOLEAN :
        \/ \E at \in i..(Len(seq) + 1) : lex = LexerOf(at, e, <<>>)
        \/ OneAhead(seq, lex, i, e)
        \/ BothAhead(seq, lex, i, e)
  BY DEF Sound
<1>2. CASE \E at \in i..(Len(seq) + 1) : lex = LexerOf(at, e, <<>>)
  BY <1>2, LexerEmits, SoundNothing
<1>3. CASE OneAhead(seq, lex, i, e)
  <2>1. PICK a \in ReadFrom(seq, i) : lex = LexerOf(a.next, e, <<a>>)
    BY <1>3 DEF OneAhead
  <2>2. SetEmitSpaces(lex, v) = LexerOf(a.next, v, <<a>>)
    BY <2>1, LexerEmits
  <2> QED
    BY <2>2, SoundOne
<1>4. CASE BothAhead(seq, lex, i, e)
  <2>1. PICK a \in ReadFrom(seq, i) : \E b \in ReadFrom(seq, a.next) : lex = LexerOf(b.next, e, <<a, b>>)
    BY <1>4 DEF BothAhead
  <2>2. PICK b \in ReadFrom(seq, a.next) : lex = LexerOf(b.next, e, <<a, b>>)
    BY <2>1
  <2>3. SetEmitSpaces(lex, v) = LexerOf(b.next, v, <<a, b>>)
    BY <2>2, LexerEmits
  <2> QED
    BY <2>3, SoundBoth
<1> QED
  BY <1>1, <1>2, <1>3, <1>4

LEMMA TwoIsSound ==
  ASSUME NEW seq, Passes(seq), NEW i \in 1..(Len(seq) + 1), NEW lex, Sound(seq, lex, i)
  PROVE  Sound(seq, TwoAhead(seq, lex), i)
<1>1. seq \in Text /\ Len(seq) \in Nat
  BY TextPlaces DEF Passes
<1>2. ASSUME NEW e \in BOOLEAN,
             NEW a \in ReadFrom(seq, i), Ahead(seq, lex) = LexerOf(a.next, e, <<a>>)
      PROVE  Sound(seq, TwoAhead(seq, lex), i)
  <2> DEFINE b == NextToken(seq, a.next, e)
             one == LexerOf(a.next, e, <<a>>)
  <2>1. b \in ReadFrom(seq, a.next)
    BY <1>1, ReadFromFacts, NextTokenReads
  <2>2. one.at = a.next /\ one.emitSpace = e /\ one.ahead = <<a>>
    BY LexerFields
  <2>3. ~(Len(one.ahead) >= 2)
    <3>1. Len(<<a>>) = 1
      BY OneToken
    <3> HIDE DEF one
    <3>2. Len(one.ahead) = 1
      BY <2>2, <3>1
    <3> QED
      BY <3>2
  <2>4. TwoAhead(seq, lex) = ReadOne(one, b)
    BY <1>2, <2>2, <2>3 DEF TwoAhead, AtLeast
  <2> HIDE DEF b
  <2>5. ReadOne(one, b) = LexerOf(b.next, e, <<a, b>>)
    <3> DEFINE x == <<a>>
    <3>1. Append(x, b) = <<a, b>>
      BY TwoTokens
    <3> HIDE DEF x
    <3>2. ReadOne(LexerOf(a.next, e, x), b) = LexerOf(b.next, e, Append(x, b))
      BY LexerReads
    <3> QED
      BY <3>1, <3>2 DEF x
  <2> QED
    BY <2>1, <2>4, <2>5, SoundBoth
<1>3. PICK e \in BOOLEAN :
        \/ \E at \in i..(Len(seq) + 1) : lex = LexerOf(at, e, <<>>)
        \/ OneAhead(seq, lex, i, e)
        \/ BothAhead(seq, lex, i, e)
  BY DEF Sound
<1>4. CASE \E at \in i..(Len(seq) + 1) : lex = LexerOf(at, e, <<>>)
  <2>1. PICK at \in i..(Len(seq) + 1) : lex = LexerOf(at, e, <<>>)
    BY <1>4
  <2>2. at \in 1..(Len(seq) + 1)
    BY <1>1
  <2>3. NextToken(seq, at, e) \in ReadFrom(seq, i)
    BY <1>1, <2>2, NextTokenReads, ReadFromLater
  <2> QED
    BY <1>2, <2>1, <2>3, AheadOfNothing
<1>5. CASE OneAhead(seq, lex, i, e)
  <2>1. PICK a \in ReadFrom(seq, i) : lex = LexerOf(a.next, e, <<a>>)
    BY <1>5 DEF OneAhead
  <2>2. Len(<<a>>) = 1
    BY OneToken
  <2>3. Ahead(seq, lex) = LexerOf(a.next, e, <<a>>)
    BY <2>1, <2>2, AheadOfSome
  <2> QED
    BY <1>2, <2>3
<1>6. CASE BothAhead(seq, lex, i, e)
  <2>1. PICK a \in ReadFrom(seq, i) : \E b \in ReadFrom(seq, a.next) : lex = LexerOf(b.next, e, <<a, b>>)
    BY <1>6 DEF BothAhead
  <2>2. PICK b \in ReadFrom(seq, a.next) : lex = LexerOf(b.next, e, <<a, b>>)
    BY <2>1
  <2>3. Len(<<a, b>>) = 2
    BY TwoTokens
  <2>4. Ahead(seq, lex) = lex
    <3> DEFINE x == <<a, b>>
    <3>1. Len(x) \in Nat /\ Len(x) >= 1 /\ lex = LexerOf(b.next, e, x)
      BY <2>2, <2>3
    <3> HIDE DEF x
    <3> QED
      BY <3>1, AheadOfSome
  <2>5. lex.ahead = <<a, b>>
    BY <2>2, LexerFields
  <2>6. Len(lex.ahead) = 2
    BY <2>3, <2>5
  <2>7. TwoAhead(seq, lex) = lex
    BY <2>4, <2>6 DEF TwoAhead, AtLeast
  <2> QED
    BY <2>7
<1> QED
  BY <1>3, <1>4, <1>5, <1>6

(* Spaces that were read ahead are dropped up to the first other token.     *)
LEMMA SkipAll ==
  ASSUME NEW seq, NEW at, NEW e, NEW x, \A n \in DOMAIN x : x[n].type = SPACE
  PROVE  SkipSpaces(seq, LexerOf(at, e, x)) = LexerOf(NextToken(seq, at, FALSE).next, e, <<NextToken(seq, at, FALSE)>>)
<1> DEFINE lex == LexerOf(at, e, x)
           t == NextToken(seq, at, FALSE)
           none == <<>>
           words == {n \in DOMAIN lex.ahead : lex.ahead[n].type # SPACE}
           some == [lex EXCEPT !.ahead = SubSeq(@, Min(words), Len(@))]
           rest == [lex EXCEPT !.ahead = none]
<1>1. lex.at = at /\ lex.ahead = x
  BY LexerFields
<1>2. words = {}
  BY <1>1
<1> HIDE DEF none
<1>3. rest = LexerOf(at, e, none)
  BY LexerTakes
<1>4. SkipSpaces(seq, lex) = IF words # {} THEN some ELSE ReadOne(rest, NextToken(seq, lex.at, FALSE))
  BY DEF SkipSpaces, none
<1> HIDE DEF words, some, rest, lex
<1>5. SkipSpaces(seq, lex) = ReadOne(rest, t)
  BY <1>1, <1>2, <1>4
<1> HIDE DEF t
<1>6. ReadOne(LexerOf(at, e, none), t) = LexerOf(t.next, e, Append(none, t))
  BY LexerReads
<1>7. Append(none, t) = <<t>>
  BY OneToken DEF none
<1> QED
  BY <1>3, <1>5, <1>6, <1>7 DEF lex, t

LEMMA SkipSome ==
  ASSUME NEW seq, NEW at, NEW e, NEW x, DOMAIN x \subseteq Nat,
         NEW n \in DOMAIN x, x[n].type # SPACE,
         \A k \in DOMAIN x : x[k].type # SPACE => n <= k
  PROVE  SkipSpaces(seq, LexerOf(at, e, x)) = LexerOf(at, e, SubSeq(x, n, Len(x)))
<1> DEFINE lex == LexerOf(at, e, x)
           words == {k \in DOMAIN lex.ahead : lex.ahead[k].type # SPACE}
           some == [lex EXCEPT !.ahead = SubSeq(@, Min(words), Len(@))]
           other == ReadOne([lex EXCEPT !.ahead = <<>>], NextToken(seq, lex.at, FALSE))
           y == SubSeq(x, n, Len(x))
<1>1. lex.ahead = x
  BY LexerFields
<1>2. words \in SUBSET Nat /\ n \in words /\ words # {} /\ \A k \in words : n <= k
  BY <1>1
<1>3. Min(words) = n
  <2> HIDE DEF words
  <2>1. Min(words) \in words /\ Min(words) <= n
    BY <1>2, MinIsLeast
  <2>2. n <= Min(words) /\ Min(words) \in Nat /\ n \in Nat
    BY <1>2, <2>1
  <2> QED
    BY <2>1, <2>2
<1>4. SkipSpaces(seq, lex) = IF words # {} THEN some ELSE other
  BY DEF SkipSpaces
<1>5. some = [lex EXCEPT !.ahead = y]
  <2> HIDE DEF words, lex
  <2>1. SubSeq(lex.ahead, Min(words), Len(lex.ahead)) = y
    BY <1>1, <1>3
  <2> HIDE DEF y
  <2>2. some = [lex EXCEPT !.ahead = SubSeq(lex.ahead, Min(words), Len(lex.ahead))]
    OBVIOUS
  <2> QED
    BY <2>1, <2>2
<1> HIDE DEF y
<1>6. [lex EXCEPT !.ahead = y] = LexerOf(at, e, y)
  BY LexerTakes
<1> HIDE DEF words, some, other, lex
<1>7. SkipSpaces(seq, lex) = LexerOf(at, e, y)
  BY <1>2, <1>4, <1>5, <1>6
<1> QED
  BY <1>7 DEF lex, y

LEMMA SkipIsSound ==
  ASSUME NEW seq, Passes(seq), NEW i \in 1..(Len(seq) + 1), NEW lex, Sound(seq, lex, i)
  PROVE  Sound(seq, SkipSpaces(seq, lex), i)
<1>1. seq \in Text /\ Len(seq) \in Nat
  BY TextPlaces DEF Passes
<1>2. ASSUME NEW at \in i..(Len(seq) + 1), NEW e \in BOOLEAN, NEW x, lex = LexerOf(at, e, x),
             \A n \in DOMAIN x : x[n].type = SPACE
      PROVE  Sound(seq, SkipSpaces(seq, lex), i)
  <2>1. SkipSpaces(seq, lex) = LexerOf(NextToken(seq, at, FALSE).next, e, <<NextToken(seq, at, FALSE)>>)
    BY <1>2, SkipAll
  <2>2. at \in 1..(Len(seq) + 1)
    BY <1>1
  <2>3. NextToken(seq, at, FALSE) \in ReadFrom(seq, i)
    BY <1>1, <2>2, NextTokenReads, ReadFromLater
  <2> QED
    BY <2>1, <2>3, SoundOne
<1>3. PICK e \in BOOLEAN :
        \/ \E at \in i..(Len(seq) + 1) : lex = LexerOf(at, e, <<>>)
        \/ OneAhead(seq, lex, i, e)
        \/ BothAhead(seq, lex, i, e)
  BY DEF Sound
<1>4. CASE \E at \in i..(Len(seq) + 1) : lex = LexerOf(at, e, <<>>)
  <2>1. PICK at \in i..(Len(seq) + 1) : lex = LexerOf(at, e, <<>>)
    BY <1>4
  <2> DEFINE x == <<>>
  <2>2. \A n \in DOMAIN x : x[n].type = SPACE
    OBVIOUS
  <2> HIDE DEF x
  <2>3. lex = LexerOf(at, e, x)
    BY <2>1 DEF x
  <2> QED
    BY <1>2, <2>2, <2>3
<1>5. CASE OneAhead(seq, lex, i, e)
  <2>1. PICK a \in ReadFrom(seq, i) : lex = LexerOf(a.next, e, <<a>>)
    BY <1>5 DEF OneAhead
  <2> DEFINE x == <<a>>
  <2>2. DOMAIN x = {1} /\ x[1] = a /\ Len(x) = 1
    BY OneToken
  <2>3. SubSeq(x, 1, Len(x)) = x
    <3>1. x \in Seq({a})
      BY ListIsSeq
    <3> HIDE DEF x
    <3> QED
      BY <3>1, SubSeqFull
  <2> HIDE DEF x
  <2>4. lex = LexerOf(a.next, e, x) /\ a.next \in i..(Len(seq) + 1)
    BY <1>1, <2>1, ReadFromFacts DEF x
  <2>5. CASE a.type = SPACE
    BY <1>2, <2>2, <2>4, <2>5
  <2>6. CASE a.type # SPACE
    <3>1. SkipSpaces(seq, lex) = LexerOf(a.next, e, SubSeq(x, 1, Len(x)))
      <4>1. DOMAIN x \subseteq Nat /\ 1 \in DOMAIN x /\ x[1].type # SPACE /\ \A k \in DOMAIN x : 1 <= k
        BY <2>2, <2>6
      <4> QED
        BY <2>4, <4>1, SkipSome
    <3> QED
      BY <2>3, <2>4, <3>1
  <2> QED
    BY <2>5, <2>6
<1>6. CASE BothAhead(seq, lex, i, e)
  <2>1. PICK a \in ReadFrom(seq, i) : \E b \in ReadFrom(seq, a.next) : lex = LexerOf(b.next, e, <<a, b>>)
    BY <1>6 DEF BothAhead
  <2>2. PICK b \in ReadFrom(seq, a.next) : lex = LexerOf(b.next, e, <<a, b>>)
    BY <2>1
  <2> DEFINE x == <<a, b>>
  <2>3. a.next \in i..(Len(seq) + 1) /\ a.next \in 1..(Len(seq) + 1)
    BY <1>1, ReadFromFacts
  <2>4. b \in ReadFrom(seq, i) /\ b.next \in i..(Len(seq) + 1)
    <3>1. b \in ReadFrom(seq, i)
      BY <1>1, <2>3, ReadFromLater
    <3> QED
      BY <1>1, <3>1, ReadFromFacts
  <2>5. DOMAIN x = {1, 2} /\ x[1] = a /\ x[2] = b /\ Len(x) = 2 /\ Tail(x) = <<b>>
    <3>1. x[1] = a /\ DOMAIN x = {1, 2}
      OBVIOUS
    <3> QED
      BY <3>1, TwoTokens
  <2>6. x \in Seq({a, b})
    OBVIOUS
  <2>7. SubSeq(x, 1, Len(x)) = x
    <3> HIDE DEF x
    <3> QED
      BY <2>6, SubSeqFull
  <2>8. SubSeq(x, 2, Len(x)) = <<b>>
    <3> HIDE DEF x
    <3>1. SubSeq(x, 2, 2) = <<x[2]>> \o SubSeq(x, 3, 2)
      BY <2>5, <2>6, SubSeqRecursiveFirst
    <3>2. SubSeq(x, 3, 2) = <<>>
      BY <2>5, <2>6, SubSeqEmpty
    <3>3. <<b>> \o <<>> = <<b>>
      OBVIOUS
    <3> QED
      BY <2>5, <3>1, <3>2, <3>3
  <2> HIDE DEF x
  <2>9. lex = LexerOf(b.next, e, x)
    BY <2>2 DEF x
  <2>10. CASE a.type = SPACE /\ b.type = SPACE
    <3>1. \A n \in DOMAIN x : x[n].type = SPACE
      BY <2>5, <2>10
    <3> QED
      BY <1>2, <2>4, <2>9, <3>1
  <2>11. CASE a.type # SPACE
    <3>1. SkipSpaces(seq, lex) = LexerOf(b.next, e, SubSeq(x, 1, Len(x)))
      <4>1. DOMAIN x \subseteq Nat /\ 1 \in DOMAIN x /\ x[1].type # SPACE /\ \A k \in DOMAIN x : 1 <= k
        BY <2>5, <2>11
      <4> QED
        BY <2>9, <4>1, SkipSome
    <3> QED
      BY <2>7, <2>9, <3>1
  <2>12. CASE a.type = SPACE /\ b.type # SPACE
    <3>1. SkipSpaces(seq, lex) = LexerOf(b.next, e, SubSeq(x, 2, Len(x)))
      <4>1. DOMAIN x \subseteq Nat /\ 2 \in DOMAIN x /\ x[2].type # SPACE
               /\ \A k \in DOMAIN x : x[k].type # SPACE => 2 <= k
        BY <2>5, <2>12
      <4> QED
        BY <2>9, <4>1, SkipSome
    <3> QED
      BY <2>4, <2>8, <3>1, SoundOne
  <2> QED
    BY <2>10, <2>11, <2>12
<1> QED
  BY <1>3, <1>4, <1>5, <1>6

LEMMA TokenFromEnd ==
  ASSUME NEW seq \in Text, NEW k \in 1..(Len(seq) + 1)
  PROVE  IF k > Len(seq) \/ (k = Len(seq) /\ seq[k] \in Quotes)
         THEN TokenFrom(seq, k).type = "EOS"
         ELSE k \in 1..Len(seq) /\ TokenFrom(seq, k).type = Type(seq[k]) /\ Type(seq[k]) # "EOS"
<1>1. Len(seq) \in Nat
  BY TextPlaces
<1>2. CASE k > Len(seq) \/ (k = Len(seq) /\ seq[k] \in Quotes)
  <2>1. TokenFrom(seq, k) = EndOfText(seq)
    BY <1>2 DEF TokenFrom
  <2>2. EndOfText(seq).type = "EOS"
    BY DEF EndOfText
  <2> QED
    BY <1>2, <2>1, <2>2
<1>3. CASE ~(k > Len(seq) \/ (k = Len(seq) /\ seq[k] \in Quotes))
  <2>1. TokenFrom(seq, k) = TokenAt(seq, k)
    BY <1>3 DEF TokenFrom
  <2>2. k \in 1..Len(seq)
    BY <1>1, <1>3
  <2>3. TokenAt(seq, k).type = Type(seq[k]) /\ Type(seq[k]) # "EOS"
    BY <2>2, TokenAtFacts, TextPlaces, PieceIsNoEnd
  <2> QED
    BY <1>3, <2>1, <2>2, <2>3
<1> QED
  BY <1>2, <1>3

LEMMA SoundParts ==
  ASSUME NEW seq, NEW i, NEW lex, Sound(seq, lex, i)
  PROVE  \E e \in BOOLEAN : \E at, x : lex = LexerOf(at, e, x)
BY DEF Sound, OneAhead, BothAhead

LEMMA EmitFields ==
  ASSUME NEW seq, NEW i, NEW lex, Sound(seq, lex, i), NEW v \in BOOLEAN
  PROVE  /\ lex.emitSpace \in BOOLEAN
         /\ SetEmitSpaces(lex, v).at = lex.at /\ SetEmitSpaces(lex, v).ahead = lex.ahead
         /\ SetEmitSpaces(lex, v).emitSpace = v
<1>1. PICK e \in BOOLEAN : \E at, x : lex = LexerOf(at, e, x)
  BY SoundParts
<1>2. PICK at, x : lex = LexerOf(at, e, x)
  BY <1>1
<1>3. SetEmitSpaces(lex, v) = LexerOf(at, v, x)
  BY <1>2, LexerEmits
<1> QED
  BY <1>2, <1>3, LexerFields

(* An opening brace is seen with and without spaces, and where anything is  *)
(* read without spaces something is read with them.                         *)
LEMMA EmitSeesBrace ==
  ASSUME NEW seq, Passes(seq), NEW i \in 1..(Len(seq) + 1), NEW lex, Sound(seq, lex, i),
         Peek(seq, lex).type = LCURLY
  PROVE  Peek(seq, SetEmitSpaces(lex, FALSE)).type = LCURLY
<1> DEFINE off == FALSE
           lx == SetEmitSpaces(lex, off)
<1>0. off \in BOOLEAN
  OBVIOUS
<1> HIDE DEF off
<1>1. seq \in Text /\ Len(seq) \in Nat
  BY TextPlaces DEF Passes
<1>2. Sees(seq, lex, i) /\ Sees(seq, lx, i)
  BY <1>0, EmitIsSound, SoundSees
<1>3. lex.emitSpace \in BOOLEAN /\ lx.at = lex.at /\ lx.ahead = lex.ahead /\ lx.emitSpace = off
  BY <1>0, EmitFields
<1> HIDE DEF lx, off
<1>4. CASE lex.ahead # <<>>
  <2>1. Peek(seq, lx) = Peek(seq, lex)
    BY <1>2, <1>3, <1>4 DEF Sees
  <2> QED
    BY <2>1 DEF lx, off
<1>5. CASE lex.ahead = <<>>
  <2> DEFINE k == lex.at
  <2>1. /\ Peek(seq, lex) = NextToken(seq, k, lex.emitSpace)
        /\ Peek(seq, lx) = NextToken(seq, k, off)
        /\ k \in i..(Len(seq) + 1)
    BY <1>2, <1>3, <1>5 DEF Sees
  <2> HIDE DEF k
  <2>2. k \in 1..(Len(seq) + 1)
    BY <1>1, <2>1
  <2>3. CASE lex.emitSpace = FALSE
    BY <2>1, <2>3 DEF lx, off
  <2>4. CASE lex.emitSpace = TRUE
    <3>1. NextToken(seq, k, TRUE) = TokenFrom(seq, k) /\ NextToken(seq, k, FALSE) = TokenFrom(seq, First(seq, k))
      BY NextTokenFrom
    <3>2. TokenFrom(seq, k).type = LCURLY
      BY <2>1, <2>4, <3>1
    <3>3. LCURLY \in Delimiters /\ SPACE \in Delimiters
      BY Zenon DEF Delimiters
    <3>4. LCURLY # "EOS"
      BY Zenon DEF LCURLY
    <3>5. k \in 1..Len(seq) /\ Type(seq[k]) = LCURLY
      BY <1>1, <2>2, <3>2, <3>4, TokenFromEnd
    <3>6. seq[k] = LCURLY
      BY <1>1, <3>3, <3>5, TextPlaces, TypeFacts
    <3>7. seq[k] # SPACE
      BY <3>6, NamesAreApart
    <3>8. First(seq, k) = k
      BY <1>1, <2>2, <3>5, <3>7, FirstFacts
    <3> QED
      BY <2>1, <3>1, <3>2, <3>8 DEF lx, off
  <2> QED
    BY <1>3, <2>3, <2>4
<1> QED
  BY <1>4, <1>5

LEMMA EmitSeesSomething ==
  ASSUME NEW seq, Passes(seq), NEW i \in 1..(Len(seq) + 1), NEW lex, Sound(seq, lex, i),
         Peek(seq, lex).type # "EOS"
  PROVE  Peek(seq, SetEmitSpaces(lex, TRUE)).type # "EOS"
<1> DEFINE lx == SetEmitSpaces(lex, TRUE)
<1>1. seq \in Text /\ Len(seq) \in Nat
  BY TextPlaces DEF Passes
<1>2. Sees(seq, lex, i) /\ Sees(seq, lx, i)
  BY EmitIsSound, SoundSees
<1>3. lex.emitSpace \in BOOLEAN /\ lx.at = lex.at /\ lx.ahead = lex.ahead /\ lx.emitSpace = TRUE
  BY EmitFields
<1> HIDE DEF lx
<1>4. CASE lex.ahead # <<>>
  <2>1. Peek(seq, lx) = Peek(seq, lex)
    BY <1>2, <1>3, <1>4 DEF Sees
  <2> QED
    BY <2>1 DEF lx
<1>5. CASE lex.ahead = <<>>
  <2> DEFINE k == lex.at
  <2>1. /\ Peek(seq, lex) = NextToken(seq, k, lex.emitSpace)
        /\ Peek(seq, lx) = NextToken(seq, k, TRUE)
        /\ k \in i..(Len(seq) + 1)
    BY <1>2, <1>3, <1>5 DEF Sees
  <2> HIDE DEF k
  <2>2. k \in 1..(Len(seq) + 1)
    BY <1>1, <2>1
  <2>3. CASE lex.emitSpace = TRUE
    BY <2>1, <2>3 DEF lx
  <2>4. CASE lex.emitSpace = FALSE
    <3>1. NextToken(seq, k, TRUE) = TokenFrom(seq, k) /\ NextToken(seq, k, FALSE) = TokenFrom(seq, First(seq, k))
      BY NextTokenFrom
    <3>2. TokenFrom(seq, First(seq, k)).type # "EOS"
      BY <2>1, <2>4, <3>1
    <3>3. ASSUME k > Len(seq) \/ (k = Len(seq) /\ seq[k] \in Quotes) PROVE FALSE
      <4>1. SPACE \in Delimiters
        BY Zenon DEF Delimiters
      <4>2. CASE k > Len(seq)
        <5>1. k = Len(seq) + 1
          BY <1>1, <2>2, <4>2
        <5>2. First(seq, k) = k
          BY <1>1, <2>2, <5>1, FirstFacts
        <5> QED
          BY <1>1, <2>2, <3>2, <4>2, <5>2, TokenFromEnd
      <4>3. CASE k = Len(seq) /\ seq[k] \in Quotes
        <5>1. seq[k] # SPACE
          BY <4>1, <4>3, NamesAreApart
        <5>2. First(seq, k) = k
          BY <1>1, <2>2, <4>3, <5>1, FirstFacts
        <5> QED
          BY <1>1, <2>2, <3>2, <4>3, <5>2, TokenFromEnd
      <4> QED
        BY <3>3, <4>2, <4>3
    <3>4. TokenFrom(seq, k).type # "EOS"
      BY <1>1, <2>2, <3>3, TokenFromEnd
    <3> QED
      BY <2>1, <3>1, <3>4 DEF lx
  <2> QED
    BY <1>3, <2>3, <2>4
<1> QED
  BY <1>4, <1>5

-----------------------------------------------------------------------------
(* A part is good from place i on if it is a text and the lexer behind it    *)
(* has not gone back. The loops are good from place i on if their turns are.*)
Good(seq, part, i) == part.out \in Text /\ Sound(seq, part.lex, i)

LoopsAt(seq, l, i) ==
  \A lex : Sound(seq, lex, i) =>
    /\ Good(seq, l.parentheses[lex], i)
    /\ \A name \in DOMAIN FunctionMap : Good(seq, l.copy[name][lex], i)
    /\ \A written \in Text : Good(seq, l.sequence[written][lex], i)

GoodLoops(seq, l, i) == Passes(seq) /\ i \in 1..(Len(seq) + 1) /\ LoopsAt(seq, l, i)

LEMMA GoodParts ==
  ASSUME NEW seq, NEW i, NEW part, Good(seq, part, i)
  PROVE  part.out \in Text /\ Sound(seq, part.lex, i)
BY DEF Good

LEMMA GoodLater ==
  ASSUME NEW seq \in Text, NEW i \in 1..(Len(seq) + 1), NEW k \in i..(Len(seq) + 1),
         NEW part, Good(seq, part, k)
  PROVE  Good(seq, part, i)
BY SoundLater DEF Good

LEMMA GoodResult ==
  ASSUME NEW seq, NEW i, NEW t \in Text, NEW lex, Sound(seq, lex, i)
  PROVE  Good(seq, Result(t, lex), i)
BY ResultParts DEF Good

LEMMA GoodAfter ==
  ASSUME NEW seq, NEW i, NEW t \in Text, NEW part, Good(seq, part, i)
  PROVE  Good(seq, After(t, part), i)
<1>1. part.out \in Text /\ Sound(seq, part.lex, i)
  BY GoodParts
<1>2. t \o part.out \in Text
  BY <1>1, TextClosed
<1>3. After(t, part) = Result(t \o part.out, part.lex)
  BY DEF After
<1> QED
  BY <1>1, <1>2, <1>3, GoodResult

LEMMA ParenthesesLoop ==
  ASSUME NEW seq, NEW l, NEW i, LoopsAt(seq, l, i), NEW lex, Sound(seq, lex, i)
  PROVE  Good(seq, l.parentheses[lex], i)
BY DEF LoopsAt

LEMMA CopyLoop ==
  ASSUME NEW seq, NEW l, NEW i, LoopsAt(seq, l, i), NEW lex, Sound(seq, lex, i),
         NEW name \in DOMAIN FunctionMap
  PROVE  Good(seq, l.copy[name][lex], i)
BY DEF LoopsAt

LEMMA SequenceLoop ==
  ASSUME NEW seq, NEW l, NEW i, LoopsAt(seq, l, i), NEW lex, Sound(seq, lex, i),
         NEW written \in Text
  PROVE  Good(seq, l.sequence[written][lex], i)
BY DEF LoopsAt

LEMMA SequenceIsGood ==
  ASSUME NEW seq, NEW l, NEW i, GoodLoops(seq, l, i), NEW lex, Sound(seq, lex, i)
  PROVE  Good(seq, Sequence(seq, l, lex), i)
<1>1. Passes(seq) /\ i \in 1..(Len(seq) + 1) /\ LoopsAt(seq, l, i) /\ seq \in Text
  BY DEF GoodLoops, Passes
<1>2. CASE Peek(seq, lex).type = LCURLY
  <2>1. Sound(seq, Consume(seq, lex), i)
    BY <1>1, ConsumeIsSound
  <2> DEFINE none == <<>>
  <2>2. none \in Text
    BY TextClosed
  <2>3. Sequence(seq, l, lex) = l.sequence[none][Consume(seq, lex)]
    BY <1>2 DEF Sequence
  <2> HIDE DEF none
  <2> QED
    BY <1>1, <2>1, <2>2, <2>3, SequenceLoop
<1>3. CASE Peek(seq, lex).type # LCURLY
  <2>1. Sequence(seq, l, lex) = Result(seq, Ahead(seq, lex))
    BY <1>3 DEF Sequence
  <2> QED
    BY <1>1, <2>1, AheadIsSound, GoodResult
<1> QED
  BY <1>2, <1>3

LEMMA SpacedIsGood ==
  ASSUME NEW seq, NEW i, NEW part, Good(seq, part, i)
  PROVE  Good(seq, Spaced(part), i)
<1>1. part.out \in Text /\ Sound(seq, part.lex, i)
  BY GoodParts
<1>2. Sound(seq, SetEmitSpaces(part.lex, TRUE), i)
  BY <1>1, EmitIsSound
<1> QED
  BY <1>1, <1>2, GoodResult DEF Spaced

LEMMA NestedIsGood ==
  ASSUME NEW seq, NEW l, NEW i, GoodLoops(seq, l, i), NEW lex, Sound(seq, lex, i)
  PROVE  Good(seq, NestedSequence(seq, l, lex), i)
<1>1. Sound(seq, SetEmitSpaces(lex, FALSE), i)
  BY EmitIsSound
<1>2. Good(seq, Sequence(seq, l, SetEmitSpaces(lex, FALSE)), i)
  BY <1>1, SequenceIsGood
<1> QED
  BY <1>2, SpacedIsGood DEF NestedSequence

LEMMA ParenthesesAreGood ==
  ASSUME NEW seq, NEW l, NEW i, GoodLoops(seq, l, i), NEW lex, Sound(seq, lex, i)
  PROVE  Good(seq, Parentheses(seq, l, lex), i)
<1> DEFINE lx == SetEmitSpaces(lex, TRUE)
<1>1. Passes(seq) /\ i \in 1..(Len(seq) + 1) /\ LoopsAt(seq, l, i)
  BY DEF GoodLoops
<1>2. Sound(seq, lx, i)
  BY EmitIsSound
<1>3. Parentheses(seq, l, lex) = After(Peek(seq, lx).text, l.parentheses[Consume(seq, lx)])
  BY DEF Parentheses, ParenthesesFrom
<1> HIDE DEF lx
<1>4. Sound(seq, Consume(seq, lx), i) /\ Peek(seq, lx).text \in Text
  BY <1>1, <1>2, ConsumeIsSound, PeekIsToken
<1>5. Good(seq, l.parentheses[Consume(seq, lx)], i)
  BY <1>1, <1>4, ParenthesesLoop
<1> QED
  BY <1>3, <1>4, <1>5, GoodAfter

LEMMA BehindIsGood ==
  ASSUME NEW seq, Passes(seq), NEW i \in 1..(Len(seq) + 1), NEW name \in Text,
         NEW part, Good(seq, part, i)
  PROVE  Good(seq, Behind(seq, name, part), i)
<1>1. part.out \in Text /\ Sound(seq, part.lex, i)
  BY GoodParts
<1>2. name \o part.out \in Text /\ Sound(seq, SkipSpaces(seq, part.lex), i)
  BY <1>1, TextClosed, SkipIsSound
<1>3. Behind(seq, name, part) = Result(name \o part.out, SkipSpaces(seq, part.lex))
  BY DEF Behind
<1> QED
  BY <1>2, <1>3, GoodResult

LEMMA NowIsText == <<"now", LPARENT, RPARENT>> \in Text
<1>1. "now" \in Pieces /\ LPARENT \in Pieces /\ RPARENT \in Pieces
  <2>1. "now" \in Pieces
    BY EscapesAssumption
  <2> QED
    BY <2>1, AllMarks, MarkFacts
<1> DEFINE p == LPARENT
           q == RPARENT
           n == "now"
<1>2. n \in Pieces /\ p \in Pieces /\ q \in Pieces
  BY <1>1
<1> HIDE DEF p, q, n
<1>3. <<n, p, q>> \in Seq(Pieces)
  BY <1>2
<1> QED
  BY <1>3 DEF p, q, n, Text

LEMMA ArgumentAtIsGood ==
  ASSUME NEW seq, NEW l, NEW i, GoodLoops(seq, l, i), NEW s, Sound(seq, s, i)
  PROVE  Good(seq, IdentOrFunctionAt(seq, l, s), i)
<1> DEFINE t == Peek(seq, s).type
           x == Peek(seq, s).text
           two == TwoAhead(seq, s)
           Second2 == Second(seq, s).type
           Call(name, lex) == Behind(seq, name, Parentheses(seq, l, Consume(seq, lex)))
           R1 == Behind(seq, <<>>, NestedSequence(seq, l, s))
           R2 == Call(<<FunctionMap[t]>>, s)
           R3 == Behind(seq, <<>>, Parentheses(seq, l, s))
           R4 == Call(x, two)
           R5 == Behind(seq, x, Result(<<>>, Consume(seq, two)))
           R6 == Behind(seq, x, Result(<<>>, Consume(seq, s)))
           R7 == Result(<<"now", LPARENT, RPARENT>>, s)
           R8 == Result(<<>>, s)
           F == DOMAIN FunctionMap
           turn == IdentOrFunctionAt(seq, l, s)
<1>1. turn = CASE t = LCURLY -> R1
               [] t \in F -> R2
               [] t = LPARENT -> R3
               [] t = "IDENT" /\ Second2 = LPARENT -> R4
               [] t = "IDENT" /\ Second2 # LPARENT -> R5
               [] t \in {"NUMBER", "STRING"} -> R6
               [] t = "CURRENT_TIMESTAMP" -> R7
               [] OTHER -> R8
  BY DEF IdentOrFunctionAt
<1>2. Passes(seq) /\ i \in 1..(Len(seq) + 1)
  BY DEF GoodLoops
<1>3. x \in Text /\ <<>> \in Text
  BY <1>2, PeekIsToken, TextClosed
<1>4. Sound(seq, Consume(seq, s), i) /\ Sound(seq, two, i)
  BY <1>2, ConsumeIsSound, TwoIsSound
<1>5. Sound(seq, Consume(seq, two), i)
  BY <1>2, <1>4, ConsumeIsSound
<1>6. ASSUME NEW name \in Text, NEW lex, Sound(seq, lex, i)
      PROVE  Good(seq, Behind(seq, name, Parentheses(seq, l, lex)), i)
  <2>1. Good(seq, Parentheses(seq, l, lex), i)
    BY <1>6, ParenthesesAreGood
  <2> QED
    BY <1>2, <2>1, BehindIsGood
<1>7. ASSUME NEW lex, Sound(seq, lex, i)
      PROVE  Good(seq, Behind(seq, x, Result(<<>>, lex)), i)
  <2> DEFINE none == <<>>
  <2>1. none \in Text
    BY <1>3
  <2> HIDE DEF none, x
  <2>2. Good(seq, Result(none, lex), i)
    BY <1>7, <2>1, GoodResult
  <2>3. Good(seq, Behind(seq, x, Result(none, lex)), i)
    BY <1>2, <1>3, <2>2, BehindIsGood
  <2> QED
    BY <2>3 DEF none
<1>8. Good(seq, R1, i)
  <2>1. Good(seq, NestedSequence(seq, l, s), i)
    BY NestedIsGood
  <2> QED
    BY <1>2, <1>3, <2>1, BehindIsGood
<1>9. t \in F => Good(seq, R2, i)
  <2>1. ASSUME t \in F PROVE <<FunctionMap[t]>> \in Text
    BY <2>1, MapFacts, TextClosed
  <2> QED
    BY <1>4, <1>6, <2>1
<1>10. Good(seq, R3, i)
  BY <1>3, <1>6
<1>11. Good(seq, R4, i)
  BY <1>3, <1>5, <1>6
<1>12. Good(seq, R5, i) /\ Good(seq, R6, i)
  BY <1>4, <1>5, <1>7
<1>13. Good(seq, R7, i)
  <2> DEFINE now == <<"now", LPARENT, RPARENT>>
  <2>1. now \in Text
    BY NowIsText
  <2> HIDE DEF now
  <2>2. Good(seq, Result(now, s), i)
    BY <2>1, GoodResult
  <2> QED
    BY <2>2 DEF now
<1>14. Good(seq, R8, i)
  BY <1>3, GoodResult
<1> HIDE DEF t, x, two, Second2, Call, R1, R2, R3, R4, R5, R6, R7, R8, F, turn
<1>15. Good(seq, turn, i)
  BY <1>1, <1>8, <1>9, <1>10, <1>11, <1>12, <1>13, <1>14
<1> QED
  BY <1>15 DEF turn

LEMMA ArgumentIsGood ==
  ASSUME NEW seq, NEW l, NEW i, GoodLoops(seq, l, i), NEW lex, Sound(seq, lex, i)
  PROVE  Good(seq, IdentOrFunction(seq, l, lex), i)
<1>1. Sound(seq, SkipSpaces(seq, lex), i)
  BY SkipIsSound DEF GoodLoops
<1> QED
  BY <1>1, ArgumentAtIsGood DEF IdentOrFunction

-----------------------------------------------------------------------------
(* The chains of the functions with special arguments: they have n          *)
(* arguments as long as none has failed, first units and then texts.        *)
ChainOf(ok, lex, args) == [ok |-> ok, lex |-> lex, args |-> args]

ArgsAre(args, n, units) ==
  \E V : /\ args \in Seq(V) /\ Len(args) = n
         /\ \A k \in 1..n : IF k <= units THEN args[k] \in DOMAIN UnitsMap ELSE args[k] \in Text

Chained(seq, c, i, n, units) ==
  \E ok \in BOOLEAN : \E lex, args :
    c = ChainOf(ok, lex, args) /\ Sound(seq, lex, i) /\ (ok => ArgsAre(args, n, units))

LEMMA ChainParts ==
  ASSUME NEW ok, NEW lex, NEW args
  PROVE  ChainOf(ok, lex, args).ok = ok /\ ChainOf(ok, lex, args).lex = lex /\ ChainOf(ok, lex, args).args = args
BY DEF ChainOf

LEMMA ChainStopped ==
  ASSUME NEW ok, NEW lex, NEW args
  PROVE  [ChainOf(ok, lex, args) EXCEPT !.ok = FALSE] = ChainOf(FALSE, lex, args)
<1> DEFINE off == FALSE
<1> HIDE DEF off
<1>1. [ChainOf(ok, lex, args) EXCEPT !.ok = off] = ChainOf(off, lex, args)
  BY DEF ChainOf
<1> QED
  BY <1>1 DEF off

LEMMA ChainGoesOn ==
  ASSUME NEW ok, NEW lex, NEW args, NEW y
  PROVE  [ChainOf(ok, lex, args) EXCEPT !.lex = y] = ChainOf(ok, y, args)
BY DEF ChainOf

LEMMA NoArgs == ArgsAre(<<>>, 0, 0)
<1> DEFINE x == <<>>
<1>1. x \in Seq({1}) /\ Len(x) = 0
  OBVIOUS
<1> HIDE DEF x
<1>2. ArgsAre(x, 0, 0)
  BY <1>1 DEF ArgsAre
<1> QED
  BY <1>2 DEF x

LEMMA MoreArgs ==
  ASSUME NEW args, NEW n \in Nat, NEW units \in Nat, ArgsAre(args, n, units), units <= n,
         NEW t \in Text
  PROVE  ArgsAre(Append(args, t), n + 1, units)
<1>1. PICK V : /\ args \in Seq(V) /\ Len(args) = n
               /\ \A k \in 1..n : IF k <= units THEN args[k] \in DOMAIN UnitsMap ELSE args[k] \in Text
  BY DEF ArgsAre
<1> DEFINE W == V \cup {t}
           x == Append(args, t)
<1>2. x \in Seq(W) /\ Len(x) = n + 1 /\ x[n + 1] = t /\ \A k \in 1..n : x[k] = args[k]
  BY <1>1
<1> HIDE DEF x
<1>3. ASSUME NEW k \in 1..(n + 1) PROVE IF k <= units THEN x[k] \in DOMAIN UnitsMap ELSE x[k] \in Text
  <2>1. CASE k = n + 1
    BY <1>2, <2>1
  <2>2. CASE k # n + 1
    <3>1. k \in 1..n
      BY <2>2
    <3> QED
      BY <1>1, <1>2, <3>1
  <2> QED
    BY <2>1, <2>2
<1>4. ArgsAre(x, n + 1, units)
  BY <1>2, <1>3 DEF ArgsAre
<1> QED
  BY <1>4 DEF x

LEMMA UnitArgs ==
  ASSUME NEW u \in DOMAIN UnitsMap
  PROVE  ArgsAre(<<u>>, 1, 1)
<1> DEFINE x == <<u>>
<1>1. x \in Seq({u}) /\ Len(x) = 1 /\ x[1] = u
  OBVIOUS
<1> HIDE DEF x
<1>2. \A k \in 1..1 : k = 1
  OBVIOUS
<1>3. ArgsAre(x, 1, 1)
  BY <1>1, <1>2 DEF ArgsAre
<1> QED
  BY <1>3 DEF x

LEMMA ChainedOf ==
  ASSUME NEW seq, NEW i, NEW n, NEW units, NEW ok \in BOOLEAN, NEW lex,
         NEW args, Sound(seq, lex, i),
         ok => ArgsAre(args, n, units)
  PROVE  Chained(seq, ChainOf(ok, lex, args), i, n, units)
BY DEF Chained

LEMMA ChainIsChained ==
  ASSUME NEW seq, NEW i, NEW lex, Sound(seq, lex, i)
  PROVE  Chained(seq, Chain(lex), i, 0, 0)
<1> DEFINE none == <<>>
           ok == TRUE
<1>1. ArgsAre(none, 0, 0) /\ ok \in BOOLEAN
  BY NoArgs
<1>2. Chain(lex) = ChainOf(ok, lex, none)
  BY DEF Chain, ChainOf
<1> HIDE DEF none, ok
<1> QED
  BY <1>1, <1>2, ChainedOf

LEMMA ExpectIsChained ==
  ASSUME NEW seq, Passes(seq), NEW i \in 1..(Len(seq) + 1), NEW n, NEW units,
         NEW c, Chained(seq, c, i, n, units), NEW type
  PROVE  Chained(seq, Expect(seq, c, type), i, n, units)
<1>1. PICK ok \in BOOLEAN : \E lex, args :
        c = ChainOf(ok, lex, args) /\ Sound(seq, lex, i) /\ (ok => ArgsAre(args, n, units))
  BY DEF Chained
<1>2. PICK lex, args : c = ChainOf(ok, lex, args) /\ Sound(seq, lex, i) /\ (ok => ArgsAre(args, n, units))
  BY <1>1
<1>3. c.ok = ok /\ c.lex = lex
  BY <1>2, ChainParts
<1>4. CASE c.ok /\ Peek(seq, c.lex).type = type
  <2> DEFINE y == Consume(seq, c.lex)
  <2>1. Expect(seq, c, type) = [c EXCEPT !.lex = y]
    BY <1>4 DEF Expect
  <2>2. Sound(seq, y, i)
    BY <1>2, <1>3, ConsumeIsSound
  <2> HIDE DEF y
  <2>3. [c EXCEPT !.lex = y] = ChainOf(ok, y, args)
    BY <1>2, ChainGoesOn
  <2> QED
    BY <1>2, <2>1, <2>2, <2>3, ChainedOf
<1>5. CASE ~(c.ok /\ Peek(seq, c.lex).type = type)
  <2>1. Expect(seq, c, type) = [c EXCEPT !.ok = FALSE]
    BY <1>5 DEF Expect
  <2>2. [c EXCEPT !.ok = FALSE] = ChainOf(FALSE, lex, args)
    BY <1>2, ChainStopped
  <2> DEFINE off == FALSE
  <2>3. off \in BOOLEAN /\ (off => ArgsAre(args, n, units)) /\ Expect(seq, c, type) = ChainOf(off, lex, args)
    BY <2>1, <2>2
  <2> HIDE DEF off
  <2> QED
    BY <1>2, <2>3, ChainedOf
<1> QED
  BY <1>4, <1>5

(* A step that keeps the arguments, or does nothing behind a failed one.    *)
LEMMA MovedIsChained ==
  ASSUME NEW seq, NEW i, NEW n, NEW units, NEW c, Chained(seq, c, i, n, units),
         NEW y, Sound(seq, c.lex, i) => Sound(seq, y, i)
  PROVE  Chained(seq, IF c.ok THEN [c EXCEPT !.lex = y] ELSE c, i, n, units)
<1>1. PICK ok \in BOOLEAN : \E lex, args :
        c = ChainOf(ok, lex, args) /\ Sound(seq, lex, i) /\ (ok => ArgsAre(args, n, units))
  BY DEF Chained
<1>2. PICK lex, args : c = ChainOf(ok, lex, args) /\ Sound(seq, lex, i) /\ (ok => ArgsAre(args, n, units))
  BY <1>1
<1>3. c.ok = ok /\ c.lex = lex
  BY <1>2, ChainParts
<1>4. [c EXCEPT !.lex = y] = ChainOf(ok, y, args)
  BY <1>2, ChainGoesOn
<1>5. Sound(seq, y, i)
  BY <1>2, <1>3
<1>6. Chained(seq, [c EXCEPT !.lex = y], i, n, units)
  BY <1>2, <1>4, <1>5, ChainedOf
<1> QED
  BY <1>6

LEMMA SkipIsChained ==
  ASSUME NEW seq, Passes(seq), NEW i \in 1..(Len(seq) + 1), NEW n, NEW units,
         NEW c, Chained(seq, c, i, n, units)
  PROVE  Chained(seq, Skip(seq, c), i, n, units)
BY MovedIsChained, ConsumeIsSound DEF Skip

LEMMA SpacesAreChained ==
  ASSUME NEW seq, Passes(seq), NEW i \in 1..(Len(seq) + 1), NEW n, NEW units,
         NEW c, Chained(seq, c, i, n, units)
  PROVE  Chained(seq, Spaces(seq, c), i, n, units)
BY MovedIsChained, SkipIsSound DEF Spaces

LEMMA DroppedIsChained ==
  ASSUME NEW seq, NEW l, NEW i, GoodLoops(seq, l, i), NEW n, NEW units,
         NEW c, Chained(seq, c, i, n, units)
  PROVE  Chained(seq, Dropped(seq, l, c), i, n, units)
<1>1. Sound(seq, c.lex, i) => Sound(seq, IdentOrFunction(seq, l, c.lex).lex, i)
  BY ArgumentIsGood, GoodParts
<1> QED
  BY <1>1, MovedIsChained DEF Dropped

LEMMA ArgumentIsChained ==
  ASSUME NEW seq, NEW l, NEW i, GoodLoops(seq, l, i), NEW n \in Nat,
         NEW units \in Nat, units <= n,
         NEW c, Chained(seq, c, i, n, units)
  PROVE  Chained(seq, Argument(seq, l, c), i, n + 1, units)
<1>1. PICK ok \in BOOLEAN : \E lex, args :
        c = ChainOf(ok, lex, args) /\ Sound(seq, lex, i) /\ (ok => ArgsAre(args, n, units))
  BY DEF Chained
<1>2. PICK lex, args : c = ChainOf(ok, lex, args) /\ Sound(seq, lex, i) /\ (ok => ArgsAre(args, n, units))
  BY <1>1
<1>3. c.ok = ok /\ c.lex = lex /\ c.args = args
  BY <1>2, ChainParts
<1>4. CASE c.ok
  <2> DEFINE r == IdentOrFunction(seq, l, c.lex)
             more == r.out # <<>>
             list == Append(args, r.out)
  <2>1. r.out \in Text /\ Sound(seq, r.lex, i)
    BY <1>2, <1>3, ArgumentIsGood, GoodParts
  <2>2. Argument(seq, l, c) = Added(c, r)
    BY <1>4 DEF Argument
  <2>3. more \in BOOLEAN
    OBVIOUS
  <2>4. ArgsAre(list, n + 1, units)
    <3>1. ArgsAre(args, n, units)
      BY <1>2, <1>3, <1>4
    <3> HIDE DEF r
    <3> QED
      BY <2>1, <3>1, MoreArgs
  <2>5. Added(c, r) = ChainOf(more, r.lex, list)
    <3> HIDE DEF r
    <3> QED
      BY <1>3 DEF Added, ChainOf
  <2> HIDE DEF r, more, list
  <2> QED
    BY <2>1, <2>2, <2>3, <2>4, <2>5, ChainedOf
<1>5. CASE ~c.ok
  <2>1. Argument(seq, l, c) = c
    BY <1>5 DEF Argument
  <2> QED
    BY <1>2, <1>3, <1>5, <2>1, ChainedOf
<1> QED
  BY <1>4, <1>5

LEMMA UnitIsChained ==
  ASSUME NEW seq, Passes(seq), NEW i \in 1..(Len(seq) + 1), NEW c, Chained(seq, c, i, 0, 0)
  PROVE  Chained(seq, Unit(seq, c), i, 1, 1)
<1>1. PICK ok \in BOOLEAN : \E lex, args :
        c = ChainOf(ok, lex, args) /\ Sound(seq, lex, i) /\ (ok => ArgsAre(args, 0, 0))
  BY DEF Chained
<1>2. PICK lex, args : c = ChainOf(ok, lex, args) /\ Sound(seq, lex, i)
  BY <1>1
<1>3. c.ok = ok /\ c.lex = lex
  BY <1>2, ChainParts
<1>4. CASE c.ok
  <2> DEFINE u == Peek(seq, c.lex).type
             y == Consume(seq, c.lex)
             known == u \in DOMAIN UnitsMap
             list == <<u>>
  <2>1. Unit(seq, c) = ChainOf(known, y, list)
    BY <1>4 DEF Unit, ChainOf
  <2>2. Sound(seq, y, i)
    BY <1>2, <1>3, ConsumeIsSound
  <2>3. known => ArgsAre(list, 1, 1)
    <3> HIDE DEF u
    <3> QED
      BY UnitArgs
  <2>4. known \in BOOLEAN
    OBVIOUS
  <2> HIDE DEF u, y, known, list
  <2> QED
    BY <2>1, <2>2, <2>3, <2>4, ChainedOf
<1>5. CASE ~c.ok
  <2>1. Unit(seq, c) = c
    BY <1>5 DEF Unit
  <2> QED
    BY <1>2, <1>3, <1>5, <2>1, ChainedOf
<1> QED
  BY <1>4, <1>5

LEMMA ContributionIsGood ==
  ASSUME NEW seq, Passes(seq), NEW i, NEW n, NEW units, NEW c, Chained(seq, c, i, n, units),
         NEW o,
         c.ok /\ ArgsAre(c.args, n, units) => o \in Text
  PROVE  Good(seq, Contribution(seq, c, o), i)
<1>1. PICK ok \in BOOLEAN : \E lex, args :
        c = ChainOf(ok, lex, args) /\ Sound(seq, lex, i) /\ (ok => ArgsAre(args, n, units))
  BY DEF Chained
<1>2. PICK lex, args : c = ChainOf(ok, lex, args) /\ Sound(seq, lex, i) /\ (ok => ArgsAre(args, n, units))
  BY <1>1
<1>3. c.ok = ok /\ c.lex = lex /\ c.args = args
  BY <1>2, ChainParts
<1>4. seq \in Text
  BY DEF Passes
<1>5. CASE c.ok
  <2>1. o \in Text /\ Contribution(seq, c, o) = Result(o, c.lex)
    BY <1>2, <1>3, <1>5 DEF Contribution
  <2> QED
    BY <1>2, <1>3, <2>1, GoodResult
<1>6. CASE ~c.ok
  <2>1. Contribution(seq, c, o) = Result(seq, c.lex)
    BY <1>6 DEF Contribution
  <2> QED
    BY <1>2, <1>3, <1>4, <2>1, GoodResult
<1> QED
  BY <1>5, <1>6

LEMMA PiecesAreText ==
  /\ \A a \in Pieces : <<a>> \in Text
  /\ \A a, b \in Pieces : <<a, b>> \in Text
  /\ \A a, b, c, d, e \in Pieces : <<a, b, c, d, e>> \in Text
  /\ \A a, b, c, d, e, f \in Pieces : <<a, b, c, d, e, f>> \in Text
BY DEF Text

LEMMA ArgIsText ==
  ASSUME NEW args, NEW n, NEW units, ArgsAre(args, n, units), NEW k \in 1..n, ~(k <= units)
  PROVE  args[k] \in Text
BY DEF ArgsAre

LEMMA FirstIsUnit ==
  ASSUME NEW args, NEW n \in Nat, n > 0, ArgsAre(args, n, 1)
  PROVE  args[1] \in DOMAIN UnitsMap
<1>1. 1 \in 1..n
  OBVIOUS
<1> QED
  BY <1>1 DEF ArgsAre

LEMMA MarksArePieces ==
  SPACE \in Pieces /\ COMMA \in Pieces /\ LPARENT \in Pieces /\ RPARENT \in Pieces
BY AllMarks, MarkFacts

LEMMA DateAddIsGood ==
  ASSUME NEW seq, Passes(seq), NEW i, NEW c, Chained(seq, c, i, 3, 1)
  PROVE  Good(seq, DateAdd(seq, c), i)
<1> DEFINE f == FunctionMap["TIMESTAMPADD"]
           u == UnitsMap[c.args[1]]
           x == <<f, LPARENT, u, COMMA, SPACE>>
           y == <<COMMA, SPACE>>
           z == <<RPARENT>>
           o == x \o c.args[2] \o y \o c.args[3] \o z
<1>1. ASSUME ArgsAre(c.args, 3, 1) PROVE o \in Text
  <2>1. c.args[1] \in DOMAIN UnitsMap
    BY <1>1, FirstIsUnit
  <2>2. c.args[2] \in Text /\ c.args[3] \in Text
    BY <1>1, ArgIsText
  <2>3. u \in Pieces
    BY <2>1, MapFacts
  <2>4. f \in Pieces
    <3>1. "TIMESTAMPADD" \in DOMAIN FunctionMap
      BY MapFacts
    <3> QED
      BY <3>1, MapFacts
  <2> HIDE DEF f, u
  <2>5. x \in Text /\ y \in Text /\ z \in Text
    BY <2>3, <2>4, MarksArePieces, PiecesAreText
  <2> HIDE DEF x, y, z
  <2>6. x \o c.args[2] \in Text
    BY <2>2, <2>5, TextClosed
  <2>7. x \o c.args[2] \o y \in Text
    BY <2>5, <2>6, TextClosed
  <2>8. x \o c.args[2] \o y \o c.args[3] \in Text
    BY <2>2, <2>7, TextClosed
  <2> QED
    BY <2>5, <2>8, TextClosed
<1>2. DateAdd(seq, c) = Contribution(seq, c, o)
  BY DEF DateAdd
<1> HIDE DEF o
<1> QED
  BY <1>1, <1>2, ContributionIsGood

LEMMA PositionIsGood ==
  ASSUME NEW seq, Passes(seq), NEW i, NEW c, Chained(seq, c, i, 2, 0)
  PROVE  Good(seq, Position(seq, c), i)
<1> DEFINE p == "position"
           x == <<p, LPARENT>>
           y == <<COMMA>>
           z == <<RPARENT>>
           o == x \o c.args[2] \o y \o c.args[1] \o z
<1>1. ASSUME ArgsAre(c.args, 2, 0) PROVE o \in Text
  <2>1. c.args[1] \in Text /\ c.args[2] \in Text
    BY <1>1, ArgIsText
  <2>2. p \in Pieces
    BY EscapesAssumption
  <2> HIDE DEF p
  <2>3. x \in Text /\ y \in Text /\ z \in Text
    BY <2>2, MarksArePieces, PiecesAreText
  <2> HIDE DEF x, y, z
  <2>4. x \o c.args[2] \in Text
    BY <2>1, <2>3, TextClosed
  <2>5. x \o c.args[2] \o y \in Text
    BY <2>3, <2>4, TextClosed
  <2>6. x \o c.args[2] \o y \o c.args[1] \in Text
    BY <2>1, <2>5, TextClosed
  <2> QED
    BY <2>3, <2>6, TextClosed
<1>2. Position(seq, c) = Contribution(seq, c, o)
  BY DEF Position
<1> HIDE DEF o
<1> QED
  BY <1>1, <1>2, ContributionIsGood

LEMMA TrimmedIsGood ==
  ASSUME NEW seq, Passes(seq), NEW i, NEW c, Chained(seq, c, i, 1, 0)
  PROVE  Good(seq, Trimmed(seq, c), i)
<1> DEFINE p == "replaceRegexpOne"
           q == "'^s'"
           r == "''"
           x == <<p, LPARENT>>
           y == <<COMMA, SPACE, q, COMMA, SPACE, r, RPARENT>>
           o == x \o c.args[1] \o y
<1>1. ASSUME ArgsAre(c.args, 1, 0) PROVE o \in Text
  <2>1. c.args[1] \in Text
    BY <1>1, ArgIsText
  <2>2. p \in Pieces /\ q \in Pieces /\ r \in Pieces
    BY EscapesAssumption
  <2> HIDE DEF p, q, r
  <2>3. x \in Text
    BY <2>2, MarksArePieces, PiecesAreText
  <2>4. y \in Text
    BY <2>2, MarksArePieces DEF Text
  <2> HIDE DEF x, y
  <2>5. x \o c.args[1] \in Text
    BY <2>1, <2>3, TextClosed
  <2> QED
    BY <2>4, <2>5, TextClosed
<1>2. Trimmed(seq, c) = Contribution(seq, c, o)
  BY DEF Trimmed
<1> HIDE DEF o
<1> QED
  BY <1>1, <1>2, ContributionIsGood

LEMMA TimestampAddIsGood ==
  ASSUME NEW seq, NEW l, NEW i, GoodLoops(seq, l, i), NEW lex, Sound(seq, lex, i)
  PROVE  Good(seq, TimestampAdd(seq, l, lex), i)
<1> DEFINE c0 == Expect(seq, Chain(lex), LPARENT)
           c1 == Unit(seq, c0)
           c2 == Expect(seq, c1, COMMA)
           c3 == Argument(seq, l, c2)
           c4 == Spaces(seq, c3)
           c5 == Expect(seq, c4, COMMA)
           c6 == Argument(seq, l, c5)
           c7 == Spaces(seq, c6)
           c8 == Expect(seq, c7, RPARENT)
<1>0. Passes(seq) /\ i \in 1..(Len(seq) + 1)
  BY DEF GoodLoops
<1>1. TimestampAdd(seq, l, lex) = DateAdd(seq, c8)
  BY DEF TimestampAdd, TimestampAddTo
<1>2. Chained(seq, c0, i, 0, 0)
  BY <1>0, ChainIsChained, ExpectIsChained
<1> HIDE DEF c0
<1>3. Chained(seq, c1, i, 1, 1)
  BY <1>0, <1>2, UnitIsChained
<1> HIDE DEF c1
<1>4. Chained(seq, c2, i, 1, 1)
  BY <1>0, <1>3, ExpectIsChained
<1> HIDE DEF c2
<1>5. Chained(seq, c3, i, 1 + 1, 1)
  BY <1>4, ArgumentIsChained
<1>6. 1 + 1 = 2 /\ 2 + 1 = 3
  OBVIOUS
<1> HIDE DEF c3
<1>7. Chained(seq, c4, i, 2, 1)
  BY <1>0, <1>5, <1>6, SpacesAreChained
<1> HIDE DEF c4
<1>8. Chained(seq, c5, i, 2, 1)
  BY <1>0, <1>7, ExpectIsChained
<1> HIDE DEF c5
<1>9. Chained(seq, c6, i, 2 + 1, 1)
  BY <1>8, ArgumentIsChained
<1> HIDE DEF c6
<1>10. Chained(seq, c7, i, 3, 1)
  BY <1>0, <1>6, <1>9, SpacesAreChained
<1> HIDE DEF c7
<1>11. Chained(seq, c8, i, 3, 1)
  BY <1>0, <1>10, ExpectIsChained
<1> HIDE DEF c8
<1> QED
  BY <1>0, <1>1, <1>11, DateAddIsGood

LEMMA LocateIsGood ==
  ASSUME NEW seq, NEW l, NEW i, GoodLoops(seq, l, i), NEW lex, Sound(seq, lex, i)
  PROVE  Good(seq, Locate(seq, l, lex), i)
<1> DEFINE c0 == Expect(seq, Chain(lex), LPARENT)
           c1 == Argument(seq, l, c0)
           c2 == Skip(seq, c1)
           c3 == Argument(seq, l, c2)
           c4 == Skip(seq, c3)
           c5 == Dropped(seq, l, c4)
           c6 == Skip(seq, c5)
<1>0. Passes(seq) /\ i \in 1..(Len(seq) + 1)
  BY DEF GoodLoops
<1>1. Locate(seq, l, lex) = Position(seq, c6)
  BY DEF Locate
<1>2. Chained(seq, c0, i, 0, 0)
  BY <1>0, ChainIsChained, ExpectIsChained
<1>3. 0 + 1 = 1 /\ 1 + 1 = 2
  OBVIOUS
<1> HIDE DEF c0
<1>4. Chained(seq, c1, i, 0 + 1, 0)
  BY <1>2, ArgumentIsChained
<1> HIDE DEF c1
<1>5. Chained(seq, c2, i, 1, 0)
  BY <1>0, <1>3, <1>4, SkipIsChained
<1> HIDE DEF c2
<1>6. Chained(seq, c3, i, 1 + 1, 0)
  BY <1>5, ArgumentIsChained
<1> HIDE DEF c3
<1>7. Chained(seq, c4, i, 2, 0)
  BY <1>0, <1>3, <1>6, SkipIsChained
<1> HIDE DEF c4
<1>8. Chained(seq, c5, i, 2, 0)
  BY <1>7, DroppedIsChained
<1> HIDE DEF c5
<1>9. Chained(seq, c6, i, 2, 0)
  BY <1>0, <1>8, SkipIsChained
<1> HIDE DEF c6
<1> QED
  BY <1>0, <1>1, <1>9, PositionIsGood

LEMMA LTrimIsGood ==
  ASSUME NEW seq, NEW l, NEW i, GoodLoops(seq, l, i), NEW lex, Sound(seq, lex, i)
  PROVE  Good(seq, LTrim(seq, l, lex), i)
<1> DEFINE c0 == Expect(seq, Chain(lex), LPARENT)
           c1 == Argument(seq, l, c0)
           c2 == Skip(seq, c1)
<1>0. Passes(seq) /\ i \in 1..(Len(seq) + 1)
  BY DEF GoodLoops
<1>1. LTrim(seq, l, lex) = Trimmed(seq, c2)
  BY DEF LTrim
<1>2. Chained(seq, c0, i, 0, 0)
  BY <1>0, ChainIsChained, ExpectIsChained
<1>3. 0 + 1 = 1
  OBVIOUS
<1> HIDE DEF c0
<1>4. Chained(seq, c1, i, 0 + 1, 0)
  BY <1>2, ArgumentIsChained
<1> HIDE DEF c1
<1>5. Chained(seq, c2, i, 1, 0)
  BY <1>0, <1>3, <1>4, SkipIsChained
<1> HIDE DEF c2
<1> QED
  BY <1>0, <1>1, <1>5, TrimmedIsGood

LEMMA NamedIsGood ==
  ASSUME NEW seq, NEW l, NEW i, GoodLoops(seq, l, i), NEW fn, NEW lex, Sound(seq, lex, i)
  PROVE  Good(seq, Named(seq, l, fn, lex), i)
<1> DEFINE R1 == TimestampAdd(seq, l, lex)
           R2 == Locate(seq, l, lex)
           R3 == LTrim(seq, l, lex)
           R4 == After(<<FunctionMap[fn]>>, l.copy[fn][SetEmitSpaces(lex, TRUE)])
           behind == IF Peek(seq, lex).type = LPARENT THEN Parentheses(seq, l, lex).lex ELSE Ahead(seq, lex)
           R5 == Result(<<"now", LPARENT, RPARENT>>, behind)
           R6 == Result(seq, lex)
           F == DOMAIN FunctionMap
           part == Named(seq, l, fn, lex)
<1>0. Passes(seq) /\ i \in 1..(Len(seq) + 1) /\ LoopsAt(seq, l, i) /\ seq \in Text
  BY DEF GoodLoops, Passes
<1>1. part = CASE fn = "TIMESTAMPADD" -> R1
               [] fn = "LOCATE" -> R2
               [] fn = "LTRIM" -> R3
               [] fn \in F \ {"TIMESTAMPADD"} -> R4
               [] fn = "CURRENT_TIMESTAMP" -> R5
               [] OTHER -> R6
  BY DEF Named
<1>2. Good(seq, R1, i) /\ Good(seq, R2, i) /\ Good(seq, R3, i)
  BY TimestampAddIsGood, LocateIsGood, LTrimIsGood
<1>3. ASSUME fn \in F PROVE Good(seq, R4, i)
  <2>1. <<FunctionMap[fn]>> \in Text
    BY <1>3, MapFacts, TextClosed
  <2>2. Sound(seq, SetEmitSpaces(lex, TRUE), i)
    BY EmitIsSound
  <2>3. Good(seq, l.copy[fn][SetEmitSpaces(lex, TRUE)], i)
    BY <1>0, <1>3, <2>2, CopyLoop
  <2> QED
    BY <2>1, <2>3, GoodAfter
<1>4. Good(seq, R5, i)
  <2>1. Sound(seq, Parentheses(seq, l, lex).lex, i) /\ Sound(seq, Ahead(seq, lex), i)
    BY <1>0, ParenthesesAreGood, GoodParts, AheadIsSound
  <2>2. Sound(seq, behind, i)
    BY <2>1
  <2> DEFINE now == <<"now", LPARENT, RPARENT>>
  <2>3. now \in Text
    BY NowIsText
  <2> HIDE DEF now, behind
  <2>4. Good(seq, Result(now, behind), i)
    BY <2>2, <2>3, GoodResult
  <2> QED
    BY <2>4 DEF now
<1>5. Good(seq, R6, i)
  BY <1>0, GoodResult
<1> HIDE DEF R1, R2, R3, R4, R5, R6, F, part
<1>6. Good(seq, part, i)
  BY <1>1, <1>2, <1>3, <1>4, <1>5
<1> QED
  BY <1>6 DEF part

LEMMA FunctionIsGood ==
  ASSUME NEW seq, NEW l, NEW i, GoodLoops(seq, l, i), NEW lex, Sound(seq, lex, i)
  PROVE  Good(seq, Function(seq, l, lex), i)
<1>1. Sound(seq, Consume(seq, lex), i)
  BY ConsumeIsSound DEF GoodLoops
<1> QED
  BY <1>1, NamedIsGood DEF Function

LEMMA DateIsGood ==
  ASSUME NEW seq, Passes(seq), NEW i \in 1..(Len(seq) + 1), NEW lex, Sound(seq, lex, i)
  PROVE  Good(seq, Date(seq, lex), i)
<1>1. Peek(seq, lex).text \in Text /\ Sound(seq, Consume(seq, lex), i) /\ Sound(seq, Ahead(seq, lex), i) /\ seq \in Text
  BY PeekIsToken, ConsumeIsSound, AheadIsSound DEF Passes
<1>2. Good(seq, Result(Peek(seq, lex).text, Consume(seq, lex)), i) /\ Good(seq, Result(seq, Ahead(seq, lex)), i)
  BY <1>1, GoodResult
<1> QED
  BY <1>2 DEF Date

LEMMA DateTimeIsGood ==
  ASSUME NEW seq, Passes(seq), NEW i \in 1..(Len(seq) + 1), NEW lex, Sound(seq, lex, i)
  PROVE  Good(seq, DateTime(seq, lex), i)
<1> DEFINE date == Date(seq, lex)
           s == date.out[1]
<1>1. Good(seq, date, i)
  BY DateIsGood
<1>2. CASE Peek(seq, lex).type = "STRING" /\ s \in DOMAIN WithoutMilliseconds
  <2>1. WithoutMilliseconds[s] \in Pieces
    <3>1. WithoutMilliseconds[s] \in Strings
      BY <1>2, EscapesAssumption
    <3> QED
      BY <3>1, LexerAssumption
  <2>2. <<WithoutMilliseconds[s]>> \in Text
    BY <2>1, TextClosed
  <2>3. DateTime(seq, lex) = Result(<<WithoutMilliseconds[s]>>, date.lex)
    BY <1>2 DEF DateTime
  <2>4. Sound(seq, date.lex, i)
    BY <1>1, GoodParts
  <2> HIDE DEF date, s
  <2> QED
    BY <2>2, <2>3, <2>4, GoodResult
<1>3. CASE ~(Peek(seq, lex).type = "STRING" /\ s \in DOMAIN WithoutMilliseconds)
  <2>1. DateTime(seq, lex) = date
    BY <1>3 DEF DateTime
  <2> QED
    BY <1>1, <2>1
<1> QED
  BY <1>2, <1>3

-----------------------------------------------------------------------------
(* A turn at place i reads something before it calls a loop, so that it is  *)
(* good if the loops are from the next place on.                            *)
LoopsBehind(seq, l, i) ==
  /\ Passes(seq) /\ i \in 1..(Len(seq) + 1)
  /\ i + 1 \in 1..(Len(seq) + 1) => LoopsAt(seq, l, i + 1)

LEMMA TurnGoesOn ==
  ASSUME NEW seq, NEW l, NEW i, LoopsBehind(seq, l, i),
         NEW lex, Sound(seq, lex, i), Peek(seq, lex).type # "EOS"
  PROVE  GoodLoops(seq, l, i + 1) /\ Sound(seq, Consume(seq, lex), i + 1)
BY ConsumeIsPast DEF LoopsBehind, GoodLoops

LEMMA TurnComesBack ==
  ASSUME NEW seq, NEW l, NEW i, LoopsBehind(seq, l, i), GoodLoops(seq, l, i + 1),
         NEW part, Good(seq, part, i + 1)
  PROVE  Good(seq, part, i)
<1>1. seq \in Text /\ Len(seq) \in Nat /\ i \in 1..(Len(seq) + 1) /\ i + 1 \in 1..(Len(seq) + 1)
  BY TextPlaces DEF LoopsBehind, GoodLoops, Passes
<1>2. i + 1 \in i..(Len(seq) + 1)
  BY <1>1
<1> QED
  BY <1>1, <1>2, GoodLater

LEMMA MarksAreNoEnd ==
  LCURLY # "EOS" /\ LPARENT # "EOS" /\ RPARENT # "EOS" /\ RCURLY # "EOS"
BY AllMarks, MarkFacts

LEMMA ParenthesesGoOn ==
  ASSUME NEW seq, NEW l, NEW i, LoopsBehind(seq, l, i),
         NEW lex, Sound(seq, lex, i), Peek(seq, lex).type # "EOS"
  PROVE  Good(seq, Parentheses(seq, l, lex), i + 1)
<1> DEFINE lx == SetEmitSpaces(lex, TRUE)
<1>1. Passes(seq) /\ i \in 1..(Len(seq) + 1)
  BY DEF LoopsBehind
<1>2. Sound(seq, lx, i) /\ Peek(seq, lx).type # "EOS"
  BY <1>1, EmitIsSound, EmitSeesSomething
<1>3. Parentheses(seq, l, lex) = After(Peek(seq, lx).text, l.parentheses[Consume(seq, lx)])
  BY DEF Parentheses, ParenthesesFrom
<1> HIDE DEF lx
<1>4. GoodLoops(seq, l, i + 1) /\ Sound(seq, Consume(seq, lx), i + 1)
  BY <1>2, TurnGoesOn
<1>5. Peek(seq, lx).text \in Text
  BY <1>1, <1>2, PeekIsToken
<1>6. Good(seq, l.parentheses[Consume(seq, lx)], i + 1)
  BY <1>4, ParenthesesLoop DEF GoodLoops
<1> QED
  BY <1>3, <1>5, <1>6, GoodAfter

LEMMA NestedGoesOn ==
  ASSUME NEW seq, NEW l, NEW i, LoopsBehind(seq, l, i),
         NEW lex, Sound(seq, lex, i), Peek(seq, lex).type = LCURLY
  PROVE  Good(seq, NestedSequence(seq, l, lex), i + 1)
<1> DEFINE lx == SetEmitSpaces(lex, FALSE)
           none == <<>>
<1>1. Passes(seq) /\ i \in 1..(Len(seq) + 1)
  BY DEF LoopsBehind
<1>2. Sound(seq, lx, i) /\ Peek(seq, lx).type = LCURLY
  BY <1>1, EmitIsSound, EmitSeesBrace
<1>3. Sequence(seq, l, lx) = l.sequence[none][Consume(seq, lx)]
  BY <1>2 DEF Sequence
<1>4. none \in Text
  BY TextClosed
<1>5. NestedSequence(seq, l, lex) = Spaced(Sequence(seq, l, lx))
  BY DEF NestedSequence
<1> HIDE DEF lx, none
<1>6. GoodLoops(seq, l, i + 1) /\ Sound(seq, Consume(seq, lx), i + 1)
  BY <1>2, TurnGoesOn, MarksAreNoEnd
<1>7. Good(seq, l.sequence[none][Consume(seq, lx)], i + 1)
  BY <1>4, <1>6, SequenceLoop DEF GoodLoops
<1> QED
  BY <1>3, <1>5, <1>7, SpacedIsGood

LEMMA ParenthesesTurnIsGood ==
  ASSUME NEW seq, NEW l, NEW i, LoopsBehind(seq, l, i), NEW lex, Sound(seq, lex, i)
  PROVE  Good(seq, ParenthesesTurn(seq, l, lex), i)
<1> DEFINE t == Peek(seq, lex).type
           x == Peek(seq, lex).text
           With(part) == After(part.out, l.parentheses[part.lex])
           R1 == Result(x, Consume(seq, lex))
           R2 == With(Parentheses(seq, l, lex))
           R3 == With(NestedSequence(seq, l, lex))
           R4 == Result(<<>>, Ahead(seq, lex))
           R5 == With(R1)
           turn == ParenthesesTurn(seq, l, lex)
<1>0. Passes(seq) /\ i \in 1..(Len(seq) + 1)
  BY DEF LoopsBehind
<1>1. turn = CASE t = RPARENT -> R1 [] t = LPARENT -> R2 [] t = LCURLY -> R3
               [] t \in {"EOS", "INVALID"} -> R4 [] OTHER -> R5
  BY DEF ParenthesesTurn
<1>2. x \in Text /\ <<>> \in Text
  BY <1>0, PeekIsToken, TextClosed
<1>3. ASSUME t # "EOS", NEW part, Good(seq, part, i + 1) PROVE Good(seq, With(part), i)
  <2>1. part.out \in Text /\ Sound(seq, part.lex, i + 1)
    BY <1>3, GoodParts
  <2>2. GoodLoops(seq, l, i + 1)
    BY <1>3, TurnGoesOn
  <2>3. Good(seq, l.parentheses[part.lex], i + 1)
    BY <2>1, <2>2, ParenthesesLoop DEF GoodLoops
  <2>4. Good(seq, With(part), i + 1)
    BY <2>1, <2>3, GoodAfter
  <2> HIDE DEF With
  <2> QED
    BY <2>2, <2>4, TurnComesBack
<1>4. Good(seq, R1, i)
  BY <1>0, <1>2, ConsumeIsSound, GoodResult
<1>5. t = LPARENT => Good(seq, R2, i)
  <2>1. t = LPARENT => Good(seq, Parentheses(seq, l, lex), i + 1)
    BY ParenthesesGoOn, MarksAreNoEnd
  <2> HIDE DEF With
  <2> QED
    BY <1>3, <2>1, MarksAreNoEnd
<1>6. t = LCURLY => Good(seq, R3, i)
  <2>1. t = LCURLY => Good(seq, NestedSequence(seq, l, lex), i + 1)
    BY NestedGoesOn
  <2> HIDE DEF With
  <2> QED
    BY <1>3, <2>1, MarksAreNoEnd
<1>7. Good(seq, R4, i)
  BY <1>0, <1>2, AheadIsSound, GoodResult
<1>8. t # "EOS" => Good(seq, R5, i)
  <2>1. t # "EOS" => Good(seq, R1, i + 1)
    BY <1>2, TurnGoesOn, GoodResult
  <2> HIDE DEF With, R1
  <2> QED
    BY <1>3, <2>1
<1> HIDE DEF t, x, With, R1, R2, R3, R4, R5, turn
<1>9. Good(seq, turn, i)
  BY <1>1, <1>4, <1>5, <1>6, <1>7, <1>8
<1> QED
  BY <1>9 DEF turn

LEMMA CopyTurnIsGood ==
  ASSUME NEW seq, NEW l, NEW i, LoopsBehind(seq, l, i), NEW lex, Sound(seq, lex, i),
         NEW name \in DOMAIN FunctionMap
  PROVE  Good(seq, CopyTurn(seq, l, lex, name), i)
<1> DEFINE t == Peek(seq, lex).type
           x == Peek(seq, lex).text
           piece == IF name # "EXTRACT" /\ t \in DOMAIN LiteralMap THEN <<LiteralMap[t]>> ELSE x
           With(part) == After(part.out, l.copy[name][part.lex])
           R1 == Result(<<>>, SetEmitSpaces(Ahead(seq, lex), FALSE))
           R2 == With(NestedSequence(seq, l, lex))
           R3 == With(Function(seq, l, lex))
           R == Result(piece, Consume(seq, lex))
           R4 == With(R)
           turn == CopyTurn(seq, l, lex, name)
<1>0. Passes(seq) /\ i \in 1..(Len(seq) + 1)
  BY DEF LoopsBehind
<1>1. turn = CASE t \in {RCURLY, "EOS", "INVALID"} -> R1 [] t = LCURLY -> R2 [] t = "EXTRACT" -> R3
               [] OTHER -> R4
  BY DEF CopyTurn
<1>2. piece \in Text /\ <<>> \in Text
  <2>1. x \in Text
    BY <1>0, PeekIsToken
  <2>2. t \in DOMAIN LiteralMap => <<LiteralMap[t]>> \in Text
    BY MapFacts, TextClosed
  <2> QED
    BY <2>1, <2>2, TextClosed
<1>3. ASSUME t # "EOS", NEW part, Good(seq, part, i + 1) PROVE Good(seq, With(part), i)
  <2>1. part.out \in Text /\ Sound(seq, part.lex, i + 1)
    BY <1>3, GoodParts
  <2>2. GoodLoops(seq, l, i + 1)
    BY <1>3, TurnGoesOn
  <2>3. Good(seq, l.copy[name][part.lex], i + 1)
    BY <2>1, <2>2, CopyLoop DEF GoodLoops
  <2>4. Good(seq, With(part), i + 1)
    BY <2>1, <2>3, GoodAfter
  <2> HIDE DEF With
  <2> QED
    BY <2>2, <2>4, TurnComesBack
<1>4. Good(seq, R1, i)
  <2>1. Sound(seq, Ahead(seq, lex), i)
    BY <1>0, AheadIsSound
  <2>2. Sound(seq, SetEmitSpaces(Ahead(seq, lex), FALSE), i)
    BY <2>1, EmitIsSound
  <2> QED
    BY <1>2, <2>2, GoodResult
<1>5. t = LCURLY => Good(seq, R2, i)
  <2>1. t = LCURLY => Good(seq, NestedSequence(seq, l, lex), i + 1)
    BY NestedGoesOn
  <2> HIDE DEF With
  <2> QED
    BY <1>3, <2>1, MarksAreNoEnd
<1>6. t = "EXTRACT" => Good(seq, R3, i)
  <2>1. ASSUME t = "EXTRACT" PROVE Good(seq, Function(seq, l, lex), i + 1)
    <3>1. t # "EOS"
      BY <2>1
    <3>2. GoodLoops(seq, l, i + 1) /\ Sound(seq, Consume(seq, lex), i + 1)
      BY <3>1, TurnGoesOn
    <3> QED
      BY <3>2, NamedIsGood DEF Function
  <2>2. t = "EXTRACT" => t # "EOS"
    OBVIOUS
  <2> HIDE DEF With
  <2> QED
    BY <1>3, <2>1, <2>2
<1>7. t # "EOS" => Good(seq, R4, i)
  <2>1. t # "EOS" => Good(seq, R, i + 1)
    <3> HIDE DEF piece
    <3> QED
      BY <1>2, TurnGoesOn, GoodResult
  <2> HIDE DEF With, R
  <2> QED
    BY <1>3, <2>1
<1> HIDE DEF t, x, piece, With, R, R1, R2, R3, R4, turn
<1>8. Good(seq, turn, i)
  BY <1>1, <1>4, <1>5, <1>6, <1>7
<1> QED
  BY <1>8 DEF turn

LEMMA SequenceTurnIsGood ==
  ASSUME NEW seq, NEW l, NEW i, LoopsBehind(seq, l, i), NEW lex, Sound(seq, lex, i),
         NEW written \in Text
  PROVE  Good(seq, SequenceTurn(seq, l, lex, written), i)
<1> DEFINE s == SkipSpaces(seq, lex)
           t == Peek(seq, s).type
           after == Consume(seq, s)
           With(part) == l.sequence[written \o part.out][part.lex]
           R1 == With(Function(seq, l, after))
           R2 == With(Date(seq, after))
           R3 == With(DateTime(seq, after))
           R4 == Result(written, after)
           R5 == Result(seq, after)
           turn == SequenceTurn(seq, l, lex, written)
<1>0. Passes(seq) /\ i \in 1..(Len(seq) + 1) /\ seq \in Text
  BY DEF LoopsBehind, Passes
<1>1. turn = CASE t = "FN" -> R1 [] t = "D" -> R2 [] t = "TS" -> R3 [] t = RCURLY -> R4 [] OTHER -> R5
  BY DEF SequenceTurn, SequenceAt
<1>2. Sound(seq, s, i)
  BY <1>0, SkipIsSound
<1> HIDE DEF s
<1>3. Sound(seq, after, i)
  BY <1>0, <1>2, ConsumeIsSound
<1>4. Good(seq, R4, i) /\ Good(seq, R5, i)
  BY <1>0, <1>3, GoodResult
<1>5. ASSUME t # "EOS", NEW part, Good(seq, part, i + 1) PROVE Good(seq, With(part), i)
  <2>1. part.out \in Text /\ Sound(seq, part.lex, i + 1)
    BY <1>5, GoodParts
  <2>2. GoodLoops(seq, l, i + 1)
    BY <1>2, <1>5, TurnGoesOn
  <2> DEFINE more == written \o part.out
  <2>3. more \in Text
    BY <2>1, TextClosed
  <2> HIDE DEF more
  <2>4. Good(seq, l.sequence[more][part.lex], i + 1)
    BY <2>1, <2>2, <2>3, SequenceLoop DEF GoodLoops
  <2>5. With(part) = l.sequence[more][part.lex]
    BY DEF more
  <2> HIDE DEF With
  <2> QED
    BY <2>2, <2>4, <2>5, TurnComesBack
<1>6. ASSUME t # "EOS"
      PROVE  Good(seq, Function(seq, l, after), i + 1) /\ Good(seq, Date(seq, after), i + 1)
               /\ Good(seq, DateTime(seq, after), i + 1)
  <2>1. GoodLoops(seq, l, i + 1) /\ Sound(seq, after, i + 1)
    BY <1>2, <1>6, TurnGoesOn
  <2> HIDE DEF after
  <2> QED
    BY <2>1, FunctionIsGood, DateIsGood, DateTimeIsGood DEF GoodLoops
<1>7. t # "EOS" => Good(seq, R1, i) /\ Good(seq, R2, i) /\ Good(seq, R3, i)
  <2> HIDE DEF With, after
  <2> QED
    BY <1>5, <1>6
<1>8. t \in {"FN", "D", "TS"} => t # "EOS"
  OBVIOUS
<1> HIDE DEF t, after, With, R1, R2, R3, R4, R5, turn
<1>9. Good(seq, turn, i)
  BY <1>1, <1>4, <1>7, <1>8
<1> QED
  BY <1>9 DEF turn

-----------------------------------------------------------------------------
(* The loops of level n are good from n places before the end on.           *)
LevelIsGood(seq, n) ==
  \A i \in 1..(Len(seq) + 1) : i + n >= Len(seq) + 2 => LoopsAt(seq, Levels(seq)[n], i)

LEMMA LevelsAreGood ==
  ASSUME NEW seq, Passes(seq)
  PROVE  \A n \in 0..(Len(seq) + 1) : LevelIsGood(seq, n)
<1>1. seq \in Text /\ Len(seq) \in Nat
  BY TextPlaces DEF Passes
<1>2. LevelIsGood(seq, 0)
  <2>1. \A i \in 1..(Len(seq) + 1) : ~(i + 0 >= Len(seq) + 2)
    BY <1>1
  <2> QED
    BY <2>1 DEF LevelIsGood
<1>3. ASSUME NEW n \in 1..(Len(seq) + 1), LevelIsGood(seq, n - 1) PROVE LevelIsGood(seq, n)
  <2> SUFFICES ASSUME NEW i \in 1..(Len(seq) + 1), i + n >= Len(seq) + 2
               PROVE  LoopsAt(seq, Levels(seq)[n], i)
    BY DEF LevelIsGood
  <2> DEFINE l == Levels(seq)[n - 1]
             m == Levels(seq)[n]
  <2>1. i + 1 \in 1..(Len(seq) + 1) => LoopsAt(seq, l, i + 1)
    <3>1. (i + 1) + (n - 1) >= Len(seq) + 2
      BY <1>1
    <3> QED
      BY <1>3, <3>1 DEF LevelIsGood
  <2>2. LoopsBehind(seq, l, i)
    BY <2>1 DEF LoopsBehind
  <2>3. /\ \A lex \in Lexers : m.parentheses[lex] = ParenthesesTurn(seq, l, lex)
        /\ \A lex \in Lexers, name \in DOMAIN FunctionMap : m.copy[name][lex] = CopyTurn(seq, l, lex, name)
        /\ \A lex \in Lexers, written \in Text : m.sequence[written][lex] = SequenceTurn(seq, l, lex, written)
    BY <1>1, LoopTurns
  <2> HIDE DEF l, m
  <2>4. ASSUME NEW lex, Sound(seq, lex, i)
        PROVE  /\ Good(seq, m.parentheses[lex], i)
               /\ \A name \in DOMAIN FunctionMap : Good(seq, m.copy[name][lex], i)
               /\ \A written \in Text : Good(seq, m.sequence[written][lex], i)
    <3>1. lex \in Lexers
      BY <1>1, <2>4, SoundIsLexer
    <3>2. Good(seq, ParenthesesTurn(seq, l, lex), i)
      BY <2>2, <2>4, ParenthesesTurnIsGood
    <3>3. \A name \in DOMAIN FunctionMap : Good(seq, CopyTurn(seq, l, lex, name), i)
      BY <2>2, <2>4, CopyTurnIsGood
    <3>4. \A written \in Text : Good(seq, SequenceTurn(seq, l, lex, written), i)
      BY <2>2, <2>4, SequenceTurnIsGood
    <3> QED
      BY <2>3, <3>1, <3>2, <3>3, <3>4
  <2>5. LoopsAt(seq, m, i)
    BY <2>4 DEF LoopsAt
  <2> QED
    BY <2>5 DEF m
<1> DEFINE T == {n \in Nat : n <= Len(seq) + 1 /\ ~LevelIsGood(seq, n)}
<1>4. T = {}
  <2> SUFFICES ASSUME T # {} PROVE FALSE
    OBVIOUS
  <2>1. PICK n \in T : \A k \in T : n <= k
    <3> HIDE DEF T
    <3>1. T \in SUBSET Nat
      BY DEF T
    <3> QED
      BY <3>1, LeastNumber
  <2>2. n \in Nat /\ n <= Len(seq) + 1 /\ ~LevelIsGood(seq, n)
    BY <2>1
  <2>3. n # 0
    BY <1>2, <2>2
  <2>4. n - 1 \in Nat /\ n - 1 <= Len(seq) + 1 /\ ~(n <= n - 1) /\ n \in 1..(Len(seq) + 1)
    BY <1>1, <2>2, <2>3
  <2>5. n - 1 \notin T
    <3> HIDE DEF T
    <3> QED
      BY <2>1, <2>4
  <2>6. LevelIsGood(seq, n - 1)
    BY <2>4, <2>5
  <2> QED
    BY <1>3, <2>2, <2>4, <2>6
<1> HIDE DEF T
<1>5. \A n \in Nat : n <= Len(seq) + 1 => LevelIsGood(seq, n)
  BY <1>4 DEF T
<1> QED
  BY <1>1, <1>5

(* What stands between the braces is rewritten to a text.                   *)
LEMMA RewrittenIsText ==
  ASSUME NEW seq, Passes(seq)
  PROVE  Rewritten(seq) \in Text
<1> DEFINE N == Len(seq)
           l == Levels(seq)[N + 1]
<1>1. seq \in Text /\ N \in Nat
  BY TextPlaces DEF Passes
<1>2. LevelIsGood(seq, N + 1)
  <2>1. N + 1 \in 0..(Len(seq) + 1)
    BY <1>1
  <2> QED
    BY <2>1, LevelsAreGood
<1>3. 1 \in 1..(Len(seq) + 1) /\ 1 + (N + 1) >= Len(seq) + 2
  BY <1>1
<1>4. LoopsAt(seq, l, 1)
  BY <1>2, <1>3 DEF LevelIsGood
<1>5. Sound(seq, NewLexer, 1)
  <2> DEFINE off == FALSE
  <2>1. NewLexer = LexerOf(1, off, <<>>) /\ off \in BOOLEAN
    BY DEF NewLexer, LexerOf
  <2> HIDE DEF off
  <2> QED
    BY <1>3, <2>1, SoundNothing
<1> HIDE DEF l
<1>6. Good(seq, Sequence(seq, l, NewLexer), 1)
  BY <1>3, <1>4, <1>5, SequenceIsGood DEF GoodLoops
<1>7. Sequence(seq, l, NewLexer).out \in Text
  BY <1>6, GoodParts
<1> QED
  BY <1>7 DEF Rewritten, l

LEMMA SequencePasses ==
  ASSUME NEW t \in Text, TabsOutside(t), NEW i \in 1..(Len(t) + 1), Closing(t, i) <= Len(t)
  PROVE  Passes(SubSeq(t, Opening(t, i), Closing(t, i)))
<1> DEFINE o == Opening(t, i)
           c == Closing(t, i)
           q == SubSeq(t, o, c)
<1>1. t \in Seq(Pieces) /\ Len(t) \in Nat
  BY TextPlaces DEF Text
<1>2. o \in i..(Len(t) + 1) /\ c \in o..(Len(t) + 1) /\ c <= Len(t) /\ Level(t, c) = 0
        /\ \A j \in o..Len(t) : Level(t, j) = 0 => c <= j
  BY ClosingFacts
<1>3. o \in 1..Len(t) /\ c \in 1..Len(t) /\ o <= c
  BY <1>1, <1>2
<1>4. t[o] = LCURLY
  BY <1>3, FirstInFacts DEF Opening
<1> HIDE DEF o, c
<1>5. q \in Seq(Pieces) /\ Len(q) = c - o + 1 /\ \A k \in 1..(c - o + 1) : q[k] = t[o + k - 1]
  BY <1>1, <1>3, SubSeqProperties
<1>6. ASSUME NEW j \in o..c, t[j] = VerticalTab PROVE FALSE
  <2>1. j \in 1..Len(t) /\ j \in o..Len(t)
    BY <1>1, <1>3
  <2>2. Level(t, j) = 0
    BY <1>6, <2>1 DEF TabsOutside
  <2>3. j = c
    BY <1>2, <1>3, <2>1, <2>2
  <2>4. VerticalTab # LCURLY /\ VerticalTab # RCURLY
    BY AllMarks, NamesAreApart
  <2>5. j # o
    BY <1>4, <1>6, <2>4
  <2>6. j - 1 \in Nat /\ (j - 1) + 1 = j /\ j - 1 \in o..Len(t) /\ ~(c <= j - 1)
    BY <1>3, <2>1, <2>3, <2>5
  <2>7. CountMoves(t, LCURLY, j - 1) /\ CountMoves(t, RCURLY, j - 1)
    BY <2>6, CountMove
  <2>8. Count(t, LCURLY, j) = Count(t, LCURLY, j - 1) /\ Count(t, RCURLY, j) = Count(t, RCURLY, j - 1)
    BY <1>6, <2>4, <2>6, <2>7 DEF CountMoves
  <2>9. Level(t, j - 1) = Level(t, j)
    BY <2>8, LevelCounts
  <2> QED
    BY <1>2, <2>2, <2>6, <2>9
<1>7. ASSUME NEW k \in 1..Len(q) PROVE q[k] # VerticalTab
  <2>1. k \in 1..(c - o + 1) /\ o + k - 1 \in o..c
    BY <1>3, <1>5
  <2> HIDE DEF q
  <2> QED
    BY <1>5, <1>6, <2>1
<1>8. q \in Text
  BY <1>5 DEF Text
<1> HIDE DEF q
<1>9. Passes(q)
  BY <1>7, <1>8 DEF Passes
<1> QED
  BY <1>9 DEF q, o, c

(* replaceEscapeSequences comes to an end and makes a text of every text,   *)
(* whatever escape sequences it holds, however deep they are nested and     *)
(* where they break off: each turn of a loop reads a token before the loop  *)
(* is called again. A vertical tab inside a sequence, on which the lexer    *)
(* stands still, is the one exception.                                      *)
THEOREM RewritingEnds ==
  ASSUME NEW t \in Text, TabsOutside(t)
  PROVE  ReplaceEscapes(t) \in Text
<1> DEFINE S == {i \in 1..(Len(t) + 1) : \A j \in i..(Len(t) + 1) : ReplaceFrom(t)[j] \in Text}
<1>1. Len(t) \in Nat /\ t \in Seq(Pieces)
  BY TextPlaces DEF Text
<1>2. ASSUME NEW a \in 1..(Len(t) + 1), NEW b \in Int, b <= Len(t) PROVE SubSeq(t, a, b) \in Text
  <2>1. CASE b < a
    <3>1. SubSeq(t, a, b) = <<>>
      BY <2>1, PartNone
    <3> QED
      BY <3>1, TextClosed
  <2>2. CASE ~(b < a)
    <3>1. a \in 1..Len(t) /\ b \in 1..Len(t) /\ a <= b
      BY <1>1, <1>2, <2>2
    <3> QED
      BY <1>1, <3>1, SubSeqProperties DEF Text
  <2> QED
    BY <2>1, <2>2
<1>3. ASSUME NEW i \in 1..(Len(t) + 1), \A j \in (i + 1)..(Len(t) + 1) : ReplaceFrom(t)[j] \in Text
      PROVE  ReplaceFrom(t)[i] \in Text
  <2> DEFINE o == Opening(t, i)
             c == Closing(t, i)
             q == SubSeq(t, o, c)
             before == SubSeq(t, i, o - 1)
             rest == ReplaceFrom(t)[c + 1]
  <2>1. ReplaceFrom(t)[i] = IF c > Len(t) THEN SubSeq(t, i, Len(t)) ELSE before \o Rewritten(q) \o rest
    BY ReplaceRecursion DEF Replacing
  <2>2. o \in i..(Len(t) + 1) /\ c \in o..(Len(t) + 1)
    BY ClosingFacts
  <2>3. CASE c > Len(t)
    BY <1>1, <1>2, <2>1, <2>3
  <2>4. CASE ~(c > Len(t))
    <3>1. c <= Len(t)
      <4> HIDE DEF c, o
      <4> QED
        BY <1>1, <2>2, <2>4
    <3>2. Rewritten(q) \in Text
      BY <3>1, SequencePasses, RewrittenIsText
    <3> HIDE DEF c, o
    <3>3. c + 1 \in (i + 1)..(Len(t) + 1)
      BY <1>1, <2>2, <3>1
    <3>4. rest \in Text
      BY <1>3, <3>3
    <3>5. before \in Text
      BY <1>1, <1>2, <2>2, <3>1
    <3> HIDE DEF before, rest, q
    <3>6. before \o Rewritten(q) \in Text
      BY <3>2, <3>5, TextClosed
    <3>7. before \o Rewritten(q) \o rest \in Text
      BY <3>4, <3>6, TextClosed
    <3> QED
      BY <2>1, <2>4, <3>7
  <2> QED
    BY <2>3, <2>4
<1>4. Len(t) + 1 \in S
  <2>1. ReplaceFrom(t)[Len(t) + 1] \in Text
    BY <1>1, <1>3
  <2> QED
    BY <1>1, <2>1
<1>5. \A i \in 1..Len(t) : i + 1 \in S => i \in S
  <2> SUFFICES ASSUME NEW i \in 1..Len(t), i + 1 \in S PROVE i \in S
    OBVIOUS
  <2>1. \A j \in (i + 1)..(Len(t) + 1) : ReplaceFrom(t)[j] \in Text
    OBVIOUS
  <2>2. i \in 1..(Len(t) + 1)
    BY <1>1
  <2>3. ReplaceFrom(t)[i] \in Text
    BY <1>3, <2>1, <2>2
  <2>4. \A j \in i..(Len(t) + 1) : j = i \/ j \in (i + 1)..(Len(t) + 1)
    BY <1>1
  <2> QED
    BY <2>1, <2>2, <2>3, <2>4
<1>6. 1 \in S
  <2> HIDE DEF S
  <2>1. 1..(Len(t) + 1) \subseteq S
    BY <1>1, <1>4, <1>5, DownwardInduction
  <2> QED
    BY <1>1, <2>1
<1>7. ReplaceFrom(t)[1] \in Text
  BY <1>1, <1>6
<1> QED
  BY <1>7 DEF ReplaceEscapes
=============================================================================

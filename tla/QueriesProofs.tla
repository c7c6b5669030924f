---------------------------- MODULE QueriesProofs ---------------------------
(***************************************************************************)
(* Proofs about the texts of queries. First, for texts of any length and   *)
(* sequences of any depth, that the driver keeps its promises: what a      *)
(* derivation of Meanings says a text means is what its rewriting says.    *)
(* The induction is over the length of the phrases of the derivation, with *)
(* a lemma for each kind of phrase and each function. Then that the state  *)
(* machines of Columns, which TLC and ColumnsProofs start on any tokens,   *)
(* keep their properties on the tokens of queries that were rewritten.     *)
(***************************************************************************)
EXTENDS Queries, EscapesProofs, ColumnsProofs

-----------------------------------------------------------------------------
(* The words of a text: its pieces that are no blanks.                      *)
LEMMA ConsCancels ==
  ASSUME NEW S, NEW p \in S, NEW q \in S, NEW a \in Seq(S), NEW b \in Seq(S),
         <<p>> \o a = <<q>> \o b
  PROVE  p = q /\ a = b
OBVIOUS

LEMMA TextAssoc == \A a, b, c \in Text : (a \o b) \o c = a \o (b \o c)
BY ConcatAssociative DEF Text

LEMMA TextCons ==
  ASSUME NEW p \in Pieces, NEW a \in Text
  PROVE  <<p>> \o a # <<>> /\ (<<p>> \o a)[1] = p /\ Len(<<p>> \o a) = Len(a) + 1
BY ConsFacts DEF Text

LEMMA TextCancel ==
  \A p, q \in Pieces : \A a, b \in Text : <<p>> \o a = <<q>> \o b => p = q /\ a = b
BY ConsCancels DEF Text

(* Words is what its recursive definition says.                            *)
LEMMA WordsRecursion ==
  ASSUME NEW text, Len(text) \in Nat
  PROVE  Words(text) = [i \in 1..(Len(text) + 1) |->
           IF i > Len(text) THEN <<>>
           ELSE IF text[i] = SPACE THEN Words(text)[i + 1] ELSE <<text[i]>> \o Words(text)[i + 1]]
<1> DEFINE N == Len(text)
           Step(g, i) == IF i > N THEN <<>>
                         ELSE IF text[i] = SPACE THEN g[i + 1] ELSE <<text[i]>> \o g[i + 1]
           IsIt(g, k) == g = [i \in k..(N + 1) |-> Step(g, i)]
           T == {d \in Nat : d <= N /\ ~ \E g : IsIt(g, N + 1 - d)}
<1>1. T = {}
  <2> SUFFICES ASSUME T # {} PROVE FALSE
    OBVIOUS
  <2>1. PICK d \in T : \A c \in T : d <= c
    <3> HIDE DEF T
    <3>1. T \in SUBSET Nat
      BY DEF T
    <3> QED
      BY <3>1, LeastNumber
  <2>2. d \in 0..N /\ ~ \E g : IsIt(g, N + 1 - d)
    <3> HIDE DEF IsIt, N
    <3>1. N \in Nat
      BY DEF N
    <3>2. d \in Nat /\ d <= N /\ ~ \E g : IsIt(g, N + 1 - d)
      BY <2>1 DEF T
    <3> QED
      BY <3>1, <3>2
  <2>3. CASE d = 0
    <3> DEFINE g == [i \in (N + 1)..(N + 1) |-> <<>>]
    <3>1. \A i \in (N + 1)..(N + 1) : Step(g, i) = <<>>
      OBVIOUS
    <3>2. IsIt(g, N + 1)
      BY <3>1
    <3> QED
      BY <3>2, <2>2, <2>3
  <2>4. CASE d # 0
    <3> DEFINE k == N + 1 - d
    <3>1. d - 1 \in Nat /\ d - 1 \notin T /\ d - 1 <= N /\ k \in 1..N /\ N + 1 - (d - 1) = k + 1
      <4> HIDE DEF T
      <4>1. d - 1 \in Nat /\ ~(d <= d - 1)
        BY <2>2, <2>4
      <4> QED
        BY <4>1, <2>1, <2>2, <2>4
    <3>2. PICK g : IsIt(g, k + 1)
      <4>1. \E g : IsIt(g, N + 1 - (d - 1))
        <5> HIDE DEF IsIt
        <5> QED
          BY <3>1 DEF T
      <4> QED
        BY <4>1, <3>1
    <3> DEFINE h == [i \in k..(N + 1) |-> IF i = k THEN Step(g, k) ELSE g[i]]
    <3> HIDE DEF k
    <3>3. \A i \in (k + 1)..(N + 1) : h[i] = g[i] /\ g[i] = Step(g, i)
      <4>1. \A i \in (k + 1)..(N + 1) : g[i] = Step(g, i)
        BY <3>2
      <4>2. \A i \in (k + 1)..(N + 1) : i \in k..(N + 1) /\ i # k
        BY <3>1
      <4>3. \A i \in (k + 1)..(N + 1) : h[i] = g[i]
        BY <4>2
      <4> QED
        BY <4>1, <4>3
    <3>4. h[k] = Step(g, k)
      BY <3>1
    <3>5. \A i \in k..(N + 1) : h[i] = Step(h, i)
      <4> HIDE DEF h
      <4> TAKE i \in k..(N + 1)
      <4>1. CASE i = k
        <5>1. k + 1 \in (k + 1)..(N + 1)
          BY <3>1
        <5>2. h[k + 1] = g[k + 1]
          BY <5>1, <3>3
        <5> QED
          BY <4>1, <5>2, <3>4
      <4>2. CASE i # k
        <5>1. i \in (k + 1)..(N + 1)
          BY <4>2, <3>1
        <5>2. i <= N => i + 1 \in (k + 1)..(N + 1)
          BY <5>1, <3>1
        <5>3. i <= N => h[i + 1] = g[i + 1]
          BY <5>2, <3>3
        <5> QED
          BY <5>1, <5>3, <3>3, <3>1
      <4> QED
        BY <4>1, <4>2
    <3>6. IsIt(h, k)
      BY <3>5
    <3> QED
      BY <3>6, <2>2 DEF k
  <2> QED
    BY <2>3, <2>4
<1>2. PICK g : IsIt(g, 1)
  <2>1. N \notin T
    BY <1>1
  <2>2. \E g : IsIt(g, N + 1 - N)
    <3> HIDE DEF IsIt
    <3> QED
      BY <2>1 DEF T
  <2> QED
    BY <2>2
<1> HIDE DEF T
<1> QED
  BY <1>2 DEF Words

LEMMA WordsStep ==
  ASSUME NEW text \in Text
  PROVE  /\ Words(text)[Len(text) + 1] = <<>>
         /\ \A i \in 1..Len(text) :
              Words(text)[i] = IF text[i] = SPACE THEN Words(text)[i + 1]
                               ELSE <<text[i]>> \o Words(text)[i + 1]
<1> DEFINE W == Words(text)
           N == Len(text)
<1>1. N \in Nat
  OBVIOUS
<1>2. W = [i \in 1..(N + 1) |->
           IF i > N THEN <<>>
           ELSE IF text[i] = SPACE THEN W[i + 1] ELSE <<text[i]>> \o W[i + 1]]
  BY <1>1, WordsRecursion
<1> HIDE DEF W, N
<1>3. \A i \in 1..(N + 1) : W[i] =
           IF i > N THEN <<>>
           ELSE IF text[i] = SPACE THEN W[i + 1] ELSE <<text[i]>> \o W[i + 1]
  BY <1>2
<1>4. W[N + 1] = <<>>
  <2>1. N + 1 \in 1..(N + 1) /\ N + 1 > N
    BY <1>1
  <2> QED
    BY <1>3, <2>1
<1>5. \A i \in 1..N : i \in 1..(N + 1) /\ ~(i > N)
  BY <1>1
<1>6. \A i \in 1..N : W[i] = IF text[i] = SPACE THEN W[i + 1] ELSE <<text[i]>> \o W[i + 1]
  BY <1>3, <1>5
<1> QED
  BY <1>4, <1>6 DEF W, N

(* They are texts themselves.                                               *)
LEMMA WordsType ==
  ASSUME NEW text \in Text
  PROVE  \A i \in 1..(Len(text) + 1) : Words(text)[i] \in Text
<1> DEFINE W == Words(text)
           N == Len(text)
           S == {i \in 1..(N + 1) : W[i] \in Text}
<1>1. N \in Nat /\ W[N + 1] = <<>>
  BY WordsStep
<1>2. N + 1 \in S
  <2>1. N + 1 \in 1..(N + 1) /\ <<>> \in Text
    BY <1>1, TextClosed
  <2> HIDE DEF N, W
  <2> QED
    BY <1>1, <2>1
<1>3. ASSUME NEW i \in 1..N, i + 1 \in S PROVE i \in S
  <2>1. text[i] \in Pieces /\ i \in 1..(N + 1)
    BY <1>1, TextPlaces
  <2>2. W[i] \in {W[i + 1], <<text[i]>> \o W[i + 1]}
    BY WordsStep
  <2>3. W[i + 1] \in Text
    BY <1>3
  <2>4. <<text[i]>> \o W[i + 1] \in Text
    <3>1. <<text[i]>> \in Text
      BY <2>1, TextClosed
    <3> HIDE DEF W
    <3> QED
      BY <3>1, <2>3, TextClosed
  <2> QED
    BY <2>1, <2>2, <2>3, <2>4
<1>4. 1..(N + 1) \subseteq S
  <2> HIDE DEF S, N
  <2> QED
    BY <1>1, <1>2, <1>3, DownwardInduction
<1> QED
  BY <1>4

(* The words of a text that follows another one.                            *)
LEMMA WordsBehind ==
  ASSUME NEW a \in Text, NEW b \in Text
  PROVE  \A i \in 1..(Len(b) + 1) : Words(a \o b)[Len(a) + i] = Words(b)[i]
<1> DEFINE c == a \o b
           S == {i \in 1..(Len(b) + 1) : Words(c)[Len(a) + i] = Words(b)[i]}
<1>1. c \in Text /\ Len(c) = Len(a) + Len(b) /\ Len(a) \in Nat /\ Len(b) \in Nat
  BY TextClosed, TextPlaces
<1>2. Len(b) + 1 \in S
  <2>1. Words(c)[Len(c) + 1] = <<>> /\ Words(b)[Len(b) + 1] = <<>>
    BY <1>1, WordsStep
  <2>2. Len(a) + (Len(b) + 1) = Len(c) + 1
    BY <1>1
  <2> HIDE DEF c
  <2> QED
    BY <1>1, <2>1, <2>2
<1>3. ASSUME NEW i \in 1..Len(b), i + 1 \in S PROVE i \in S
  <2>1. c[Len(a) + i] = b[i] /\ Len(a) + i \in 1..Len(c)
    BY <1>1, TextPlaces
  <2>2. Words(c)[Len(a) + i] = IF c[Len(a) + i] = SPACE THEN Words(c)[Len(a) + i + 1]
                               ELSE <<c[Len(a) + i]>> \o Words(c)[Len(a) + i + 1]
    <3> HIDE DEF c
    <3> QED
      BY <1>1, <2>1, WordsStep
  <2>3. Words(b)[i] = IF b[i] = SPACE THEN Words(b)[i + 1] ELSE <<b[i]>> \o Words(b)[i + 1]
    BY WordsStep
  <2>4. Words(c)[Len(a) + i + 1] = Words(b)[i + 1]
    <3>1. Words(c)[Len(a) + (i + 1)] = Words(b)[i + 1]
      BY <1>3
    <3> HIDE DEF c
    <3>2. Len(a) + (i + 1) = Len(a) + i + 1
      BY <1>1
    <3> QED
      BY <3>1, <3>2
  <2> HIDE DEF c
  <2>5. i \in 1..(Len(b) + 1)
    BY <1>1
  <2> QED
    BY <2>1, <2>2, <2>3, <2>4, <2>5
<1>4. 1..(Len(b) + 1) \subseteq S
  <2> HIDE DEF S
  <2> QED
    BY <1>1, <1>2, <1>3, DownwardInduction
<1> QED
  BY <1>4

(* Blanks are dropped piece by piece.                                       *)
LEMMA WithoutSpacesConcat ==
  ASSUME NEW a \in Text, NEW b \in Text
  PROVE  WithoutSpaces(a \o b) = WithoutSpaces(a) \o WithoutSpaces(b)
<1> DEFINE c == a \o b
           W == WithoutSpaces(b)
           S == {i \in 1..(Len(a) + 1) : Words(c)[i] = Words(a)[i] \o W}
<1>1. c \in Text /\ Len(c) = Len(a) + Len(b) /\ Len(a) \in Nat /\ Len(b) \in Nat
  BY TextClosed, TextPlaces
<1>2. W = Words(b)[1] /\ W \in Text
  BY <1>1, WordsType DEF WithoutSpaces
<1>3. Len(a) + 1 \in S
  <2>1. Words(c)[Len(a) + 1] = Words(b)[1]
    <3>1. 1 \in 1..(Len(b) + 1)
      BY <1>1
    <3> QED
      BY <3>1, WordsBehind
  <2>2. Words(a)[Len(a) + 1] = <<>>
    BY WordsStep
  <2>3. <<>> \o W = W
    <3> HIDE DEF W
    <3> QED
      BY <1>2
  <2>4. Len(a) + 1 \in 1..(Len(a) + 1)
    BY <1>1
  <2> QED
    BY <1>2, <2>1, <2>2, <2>3, <2>4
<1>4. ASSUME NEW i \in 1..Len(a), i + 1 \in S PROVE i \in S
  <2>1. c[i] = a[i] /\ i \in 1..Len(c) /\ a[i] \in Pieces /\ i \in 1..(Len(a) + 1)
       /\ i + 1 \in 1..(Len(a) + 1)
    BY <1>1, TextPlaces
  <2>2. Words(c)[i] = IF c[i] = SPACE THEN Words(c)[i + 1] ELSE <<c[i]>> \o Words(c)[i + 1]
    <3> HIDE DEF c
    <3> QED
      BY <1>1, <2>1, WordsStep
  <2>3. Words(a)[i] = IF a[i] = SPACE THEN Words(a)[i + 1] ELSE <<a[i]>> \o Words(a)[i + 1]
    BY WordsStep
  <2>4. Words(c)[i + 1] = Words(a)[i + 1] \o W
    BY <1>4
  <2>5. Words(a)[i + 1] \in Text
    BY <2>1, WordsType
  <2>6. (<<a[i]>> \o Words(a)[i + 1]) \o W = <<a[i]>> \o (Words(a)[i + 1] \o W)
    <3>1. <<a[i]>> \in Text
      BY <2>1, TextClosed
    <3> HIDE DEF W
    <3> QED
      BY <3>1, <2>5, <1>2, TextAssoc
  <2> HIDE DEF c, W
  <2>7. Words(c)[i] = Words(a)[i] \o W
    BY <2>1, <2>2, <2>3, <2>4, <2>6
  <2> QED
    BY <2>7, <2>1
<1>5. 1..(Len(a) + 1) \subseteq S
  <2> HIDE DEF S
  <2> QED
    BY <1>1, <1>3, <1>4, DownwardInduction
<1>6. Words(c)[1] = Words(a)[1] \o W
  BY <1>5, <1>1
<1> QED
  BY <1>6 DEF WithoutSpaces

LEMMA WithoutSpacesPiece ==
  /\ WithoutSpaces(<<>>) = <<>>
  /\ \A p \in Pieces : WithoutSpaces(<<p>>) = IF p = SPACE THEN <<>> ELSE <<p>>
<1>1. WithoutSpaces(<<>>) = <<>>
  <2> DEFINE t == <<>>
  <2>1. t \in Text /\ Len(t) = 0
    BY TextClosed
  <2> HIDE DEF t
  <2>2. Words(t)[1] = <<>>
    <3>1. Words(t)[Len(t) + 1] = <<>>
      BY <2>1, WordsStep
    <3>2. Len(t) + 1 = 1
      BY <2>1
    <3> QED
      BY <3>1, <3>2
  <2> QED
    BY <2>2 DEF WithoutSpaces, t
<1>2. ASSUME NEW p \in Pieces
      PROVE  WithoutSpaces(<<p>>) = IF p = SPACE THEN <<>> ELSE <<p>>
  <2> DEFINE t == <<p>>
  <2>1. t \in Text
    BY TextClosed
  <2>2. Len(t) = 1 /\ t[1] = p
    OBVIOUS
  <2> HIDE DEF t
  <2>3. Words(t)[2] = <<>>
    <3>1. Words(t)[Len(t) + 1] = <<>>
      BY <2>1, WordsStep
    <3> QED
      BY <3>1, <2>2
  <2>4. Words(t)[1] = IF p = SPACE THEN <<>> ELSE <<p>> \o <<>>
    <3>1. Words(t)[1] = IF t[1] = SPACE THEN Words(t)[1 + 1] ELSE <<t[1]>> \o Words(t)[1 + 1]
      BY <2>1, <2>2, WordsStep
    <3>2. 1 + 1 = 2
      OBVIOUS
    <3> QED
      BY <3>1, <3>2, <2>2, <2>3, Zenon
  <2>5. <<p>> \o <<>> = <<p>>
    OBVIOUS
  <2> QED
    BY <2>4, <2>5 DEF WithoutSpaces, t
<1> QED
  BY <1>1, <1>2

-----------------------------------------------------------------------------
(* The words from a place on are those from the first of them on.           *)
LEMMA WordsFromFirst ==
  ASSUME NEW seq \in Text
  PROVE  \A i \in 1..(Len(seq) + 1) : Words(seq)[i] = Words(seq)[First(seq, i)]
<1> DEFINE N == Len(seq)
           S == {i \in 1..(N + 1) : Words(seq)[i] = Words(seq)[First(seq, i)]}
<1>1. N \in Nat
  BY TextPlaces
<1>2. N + 1 \in S
  <2>1. N + 1 \in 1..(N + 1)
    BY <1>1
  <2> QED
    BY <2>1, FirstFacts
<1>3. ASSUME NEW i \in 1..N, i + 1 \in S PROVE i \in S
  <2>1. i \in 1..(N + 1) /\ i <= N
    BY <1>1
  <2>2. CASE seq[i] = SPACE
    <3>1. Words(seq)[i] = Words(seq)[i + 1]
      BY <2>2, WordsStep
    <3>2. First(seq, i) = First(seq, i + 1)
      BY <2>1, <2>2, FirstFacts
    <3> QED
      BY <1>3, <2>1, <3>1, <3>2
  <2>3. CASE seq[i] # SPACE
    <3>1. First(seq, i) = i
      BY <2>1, <2>3, FirstFacts
    <3> QED
      BY <2>1, <3>1
  <2> QED
    BY <2>2, <2>3
<1>4. 1..(N + 1) \subseteq S
  <2> HIDE DEF S, N
  <2> QED
    BY <1>1, <1>2, <1>3, DownwardInduction
<1> QED
  BY <1>4

(* Where a word is read: the place k of the first of the words from i on.   *)
WordAt(seq, k, p, rest) ==
  /\ k \in 1..Len(seq)
  /\ seq[k] = p /\ p # SPACE
  /\ Words(seq)[k] = <<p>> \o rest
  /\ Words(seq)[k + 1] = rest

LEMMA FirstWord ==
  ASSUME NEW seq \in Text, NEW i \in 1..(Len(seq) + 1), NEW p \in Pieces, NEW rest \in Text,
         Words(seq)[i] = <<p>> \o rest
  PROVE  First(seq, i) \in i..Len(seq) /\ WordAt(seq, First(seq, i), p, rest)
<1> DEFINE k == First(seq, i)
<1>1. k \in i..(Len(seq) + 1) /\ (k <= Len(seq) => seq[k] # SPACE)
  BY FirstFacts
<1>2. Words(seq)[k] = <<p>> \o rest
  BY WordsFromFirst
<1> HIDE DEF k
<1>3. k \in 1..Len(seq) /\ k \in i..Len(seq)
  <2>1. k # Len(seq) + 1
    BY <1>2, WordsStep, TextCons
  <2> QED
    BY <2>1, <1>1, TextPlaces
<1>4. Words(seq)[k] = <<seq[k]>> \o Words(seq)[k + 1] /\ seq[k] # SPACE
  <2>1. seq[k] # SPACE
    BY <1>1, <1>3, TextPlaces
  <2> QED
    BY <2>1, <1>3, WordsStep
<1>5. seq[k] \in Pieces /\ Words(seq)[k + 1] \in Text
  <2>1. k + 1 \in 1..(Len(seq) + 1)
    BY <1>3, TextPlaces
  <2> QED
    BY <2>1, <1>3, TextPlaces, WordsType
<1>6. seq[k] = p /\ Words(seq)[k + 1] = rest
  <2>1. <<seq[k]>> \o Words(seq)[k + 1] = <<p>> \o rest
    BY <1>2, <1>4
  <2>2. \A q \in Pieces : \A r \in Text : <<q>> \o r = <<p>> \o rest => q = p /\ r = rest
    BY TextCancel
  <2> QED
    BY <2>1, <2>2, <1>5
<1> QED
  BY <1>2, <1>3, <1>4, <1>6 DEF WordAt, k

-----------------------------------------------------------------------------
(* What pieces are.                                                         *)
Marks == {SPACE, COMMA, LPARENT, RPARENT, LCURLY, RCURLY}

(* Sequences the driver can read, and the lexers on them: at a place with    *)
(* nothing read ahead, and with the piece there read ahead.                  *)
Prepared(seq) == seq \in Text /\ Readable(seq)

At(i, e) == [at |-> i, emitSpace |-> e, ahead |-> <<>>]
TokenOn(seq, i) == [type |-> Type(seq[i]), text |-> <<seq[i]>>, next |-> i + 1]
Seeing(seq, i, e) == [at |-> i + 1, emitSpace |-> e, ahead |-> <<TokenOn(seq, i)>>]

LEMMA TokenOfPiece ==
  ASSUME NEW seq, Prepared(seq), NEW i \in 1..Len(seq)
  PROVE  TokenFrom(seq, i) = TokenOn(seq, i)
<1>1. seq \in Text /\ Len(seq) \in Nat /\ seq[i] \in Pieces
  BY TextPlaces DEF Prepared
<1>2. Type(seq[i]) \notin {"OTHER", "INVALID"}
  BY DEF Prepared, Readable
<1>3. seq[i] \notin Quotes
  BY <1>1, <1>2, TypeFacts
<1>4. SubSeq(seq, i, i + 1 - 1) = <<seq[i]>>
  <2>1. i + 1 - 1 = i
    BY <1>1
  <2>2. SubSeq(seq, i, i) = <<seq[i]>>
    <3>1. SubSeq(seq, i, i) = <<seq[i]>> \o SubSeq(seq, i + 1, i)
      BY <1>1, SubSeqRecursiveFirst DEF Text
    <3>2. SubSeq(seq, i + 1, i) = <<>>
      BY <1>1, SubSeqEmpty
    <3>3. <<seq[i]>> \in Text
      BY <1>1, TextClosed
    <3> QED
      BY <3>1, <3>2, <3>3, TextEmpty
  <2> QED
    BY <2>1, <2>2
<1>5. ~(i > Len(seq))
  BY <1>1
<1>6. TokenFrom(seq, i) = TokenAt(seq, i)
  BY <1>3, <1>5 DEF TokenFrom
<1>7. TokenAt(seq, i) = [type |-> Type(seq[i]), text |-> SubSeq(seq, i, i + 1 - 1), next |-> i + 1]
  <2> DEFINE end == IF Type(seq[i]) = "OTHER" THEN FirstIn(seq, i, {SPACE, VerticalTab}) ELSE i + 1
  <2>1. end = i + 1
    BY <1>2
  <2>2. TokenAt(seq, i) = [type |-> Type(seq[i]), text |-> SubSeq(seq, i, end - 1), next |-> end]
    BY DEF TokenAt
  <2> HIDE DEF end
  <2> QED
    BY <2>1, <2>2
<1> QED
  BY <1>4, <1>6, <1>7 DEF TokenOn

LEMMA LexersAt ==
  ASSUME NEW seq, Prepared(seq), NEW e \in BOOLEAN
  PROVE  /\ \A i \in Nat : At(i, e) \in Lexers
         /\ \A i \in 1..Len(seq) : Seeing(seq, i, e) \in Lexers
<1>1. \A i \in Nat : At(i, e) \in Lexers
  BY DEF At, Lexers
<1>2. ASSUME NEW i \in 1..Len(seq) PROVE Seeing(seq, i, e) \in Lexers
  <2>1. seq[i] \in Pieces /\ i + 1 \in Nat
    BY TextPlaces DEF Prepared
  <2>2. Type(seq[i]) \in TokenTypes /\ <<seq[i]>> \in Text
    BY <2>1, TypeFacts, TextClosed
  <2>3. TokenOn(seq, i) \in LexToken
    BY <2>1, <2>2 DEF TokenOn, LexToken
  <2>4. <<TokenOn(seq, i)>> \in Seq(LexToken)
    BY <2>3, ListIsSeq
  <2> QED
    BY <2>1, <2>4 DEF Seeing, Lexers
<1> QED
  BY <1>1, <1>2

(* A lexer whose next token is piece k, and is a token of its own.          *)
Facing(seq, lex, k, e) ==
  k \in 1..Len(seq) /\ e \in BOOLEAN /\ Ahead(seq, lex) = Seeing(seq, k, e)

LEMMA FacingFacts ==
  ASSUME NEW seq, Prepared(seq), NEW lex, NEW k, NEW e, Facing(seq, lex, k, e)
  PROVE  /\ Ahead(seq, lex) = Seeing(seq, k, e)
         /\ Peek(seq, lex).type = Type(seq[k])
         /\ Peek(seq, lex).text = <<seq[k]>>
         /\ Consume(seq, lex) = At(k + 1, e)
         /\ k \in 1..Len(seq) /\ Len(seq) \in Nat /\ e \in BOOLEAN
<1>1. Ahead(seq, lex) = Seeing(seq, k, e)
  BY DEF Facing
<1>2. Seeing(seq, k, e).ahead[1] = TokenOn(seq, k)
  BY DEF Seeing
<1>3. Peek(seq, lex) = TokenOn(seq, k)
  BY <1>1, <1>2 DEF Peek
<1>4. WithoutFirst(Seeing(seq, k, e)) = At(k + 1, e)
  <2>1. Tail(<<TokenOn(seq, k)>>) = <<>>
    OBVIOUS
  <2> QED
    BY <2>1 DEF WithoutFirst, Seeing, At
<1>5. Len(seq) \in Nat
  BY TextPlaces DEF Prepared
<1> QED
  BY <1>1, <1>3, <1>4, <1>5 DEF Consume, TokenOn, Facing

LEMMA SeeingFaces ==
  ASSUME NEW seq, NEW k \in 1..Len(seq), NEW e \in BOOLEAN
  PROVE  Facing(seq, Seeing(seq, k, e), k, e)
<1>1. Len(Seeing(seq, k, e).ahead) = 1
  BY DEF Seeing
<1>2. Ahead(seq, Seeing(seq, k, e)) = Seeing(seq, k, e)
  BY <1>1 DEF Ahead, AtLeast
<1> QED
  BY <1>2 DEF Facing

(* What one reading step does where nothing is read ahead.                   *)
LEMMA ReadAtPiece ==
  ASSUME NEW seq, Prepared(seq), NEW i \in Nat, NEW k \in 1..Len(seq), NEW e \in BOOLEAN
  PROVE  ReadOne(At(i, e), TokenFrom(seq, k)) = Seeing(seq, k, e)
<1>1. TokenFrom(seq, k) = TokenOn(seq, k)
  BY TokenOfPiece
<1> DEFINE t == TokenOn(seq, k)
<1>2. t.next = k + 1
  BY DEF TokenOn
<1> HIDE DEF t
<1>3. Append(<<>>, t) = <<t>>
  OBVIOUS
<1>4. ReadOne(At(i, e), t) = [at |-> k + 1, emitSpace |-> e, ahead |-> <<t>>]
  <2>1. At(i, e).ahead = <<>> /\ At(i, e).emitSpace = e
    BY DEF At
  <2>2. Append(At(i, e).ahead, t) = <<t>>
    BY <1>3, <2>1
  <2>3. ReadOne(At(i, e), t) = [at |-> t.next, emitSpace |-> e, ahead |-> Append(At(i, e).ahead, t)]
    BY <2>1 DEF ReadOne
  <2> QED
    BY <1>2, <2>2, <2>3
<1> QED
  BY <1>1, <1>4 DEF Seeing, t

LEMMA AtFaces ==
  ASSUME NEW seq, Prepared(seq), NEW i \in Nat
  PROVE  /\ i \in 1..Len(seq) => Facing(seq, At(i, TRUE), i, TRUE)
         /\ First(seq, i) \in 1..Len(seq) => Facing(seq, At(i, FALSE), First(seq, i), FALSE)
<1>1. \A e : Len(At(i, e).ahead) = 0 /\ At(i, e).at = i /\ At(i, e).emitSpace = e
  BY DEF At
<1>2. \A e \in BOOLEAN : Ahead(seq, At(i, e)) = ReadOne(At(i, e), NextToken(seq, i, e))
  BY <1>1 DEF Ahead, AtLeast
<1>3. i \in 1..Len(seq) => Ahead(seq, At(i, TRUE)) = Seeing(seq, i, TRUE)
  BY <1>2, ReadAtPiece, NextTokenFrom
<1>4. First(seq, i) \in 1..Len(seq) =>
        Ahead(seq, At(i, FALSE)) = Seeing(seq, First(seq, i), FALSE)
  BY <1>2, ReadAtPiece, NextTokenFrom
<1> QED
  BY <1>3, <1>4 DEF Facing

(* SkipSpaces stops before the next word, from wherever it starts.           *)
LEMMA SkipFaces ==
  ASSUME NEW seq, Prepared(seq), NEW i \in 1..Len(seq) + 1, NEW e \in BOOLEAN,
         First(seq, i) \in 1..Len(seq)
  PROVE  /\ SkipSpaces(seq, At(i, e)) = Seeing(seq, First(seq, i), e)
         /\ i \in 1..Len(seq) => SkipSpaces(seq, Seeing(seq, i, e)) = Seeing(seq, First(seq, i), e)
<1>1. Len(seq) \in Nat /\ seq \in Text /\ i \in Nat /\ i + 1 \in Nat
  BY TextPlaces DEF Prepared
<1>2. SkipSpaces(seq, At(i, e)) = Seeing(seq, First(seq, i), e)
  <2>1. {n \in DOMAIN At(i, e).ahead : At(i, e).ahead[n].type # SPACE} = {}
    BY DEF At
  <2>2. [At(i, e) EXCEPT !.ahead = <<>>] = At(i, e) /\ At(i, e).at = i
    BY DEF At
  <2>3. ReadOne(At(i, e), NextToken(seq, i, FALSE)) = Seeing(seq, First(seq, i), e)
    <3>1. NextToken(seq, i, FALSE) = TokenFrom(seq, First(seq, i))
      BY NextTokenFrom
    <3>2. ReadOne(At(i, e), TokenFrom(seq, First(seq, i))) = Seeing(seq, First(seq, i), e)
      BY <1>1, ReadAtPiece
    <3> QED
      BY <3>1, <3>2
  <2> QED
    BY <2>1, <2>2, <2>3 DEF SkipSpaces
<1>3. ASSUME i \in 1..Len(seq)
      PROVE  SkipSpaces(seq, Seeing(seq, i, e)) = Seeing(seq, First(seq, i), e)
  <2> DEFINE lex == Seeing(seq, i, e)
             words == {n \in DOMAIN lex.ahead : lex.ahead[n].type # SPACE}
  <2>1. DOMAIN lex.ahead = {1} /\ lex.ahead[1].type = Type(seq[i])
    BY DEF Seeing, TokenOn
  <2>2. Type(seq[i]) = SPACE <=> seq[i] = SPACE
    <3>1. seq[i] \in Pieces /\ SPACE \in Delimiters
      BY <1>3, <1>1, TextPlaces DEF Delimiters
    <3>2. SPACE \in Pieces
      BY <3>1, LexerAssumption
    <3> QED
      BY <3>1, <3>2, TypeFacts
  <2>3. CASE seq[i] = SPACE
    <3>1. words = {}
      BY <2>1, <2>2, <2>3
    <3>2. [lex EXCEPT !.ahead = <<>>] = At(i + 1, e) /\ lex.at = i + 1
      BY DEF At, Seeing
    <3>3. First(seq, i) = First(seq, i + 1)
      BY <1>1, <1>3, <2>3, FirstFacts
    <3>4. ReadOne(At(i + 1, e), NextToken(seq, i + 1, FALSE)) = Seeing(seq, First(seq, i), e)
      <4>1. NextToken(seq, i + 1, FALSE) = TokenFrom(seq, First(seq, i + 1))
        BY NextTokenFrom
      <4>2. ReadOne(At(i + 1, e), TokenFrom(seq, First(seq, i))) = Seeing(seq, First(seq, i), e)
        BY <1>1, ReadAtPiece
      <4> QED
        BY <4>1, <4>2, <3>3
    <3>5. SkipSpaces(seq, lex) =
            IF words # {} THEN [lex EXCEPT !.ahead = SubSeq(@, Min(words), Len(@))]
            ELSE ReadOne([lex EXCEPT !.ahead = <<>>], NextToken(seq, lex.at, FALSE))
      BY DEF SkipSpaces
    <3> HIDE DEF words, lex
    <3>6. SkipSpaces(seq, lex) = Seeing(seq, First(seq, i), e)
      BY <3>1, <3>2, <3>4, <3>5
    <3> QED
      BY <3>6 DEF lex
  <2>4. CASE seq[i] # SPACE
    <3>1. words = {1}
      BY <2>1, <2>2, <2>4
    <3>2. Min(words) = 1
      <4> DEFINE one == {1}
      <4>1. one \in SUBSET Nat /\ one # {}
        OBVIOUS
      <4> HIDE DEF one
      <4>2. Min(one) \in one
        BY <4>1, MinIsLeast
      <4>3. Min(one) = 1
        BY <4>2 DEF one
      <4>4. words = one
        BY <3>1 DEF one
      <4> HIDE DEF words
      <4> QED
        BY <4>3, <4>4
    <3>3. SubSeq(lex.ahead, 1, Len(lex.ahead)) = lex.ahead
      <4> DEFINE t == TokenOn(seq, i)
      <4>1. lex.ahead = <<t>>
        BY DEF Seeing
      <4> HIDE DEF t, lex
      <4>2. <<t>> \in Seq({t}) /\ Len(<<t>>) = 1
        BY ListIsSeq
      <4> QED
        BY <4>1, <4>2, SubSeqFull
    <3>4. [lex EXCEPT !.ahead = lex.ahead] = lex
      BY DEF Seeing
    <3>5. First(seq, i) = i
      BY <1>1, <1>3, <2>4, FirstFacts
    <3>6. [lex EXCEPT !.ahead = SubSeq(@, 1, Len(@))] = lex
      BY <3>3, <3>4
    <3>7. SkipSpaces(seq, lex) =
            IF words # {} THEN [lex EXCEPT !.ahead = SubSeq(@, Min(words), Len(@))]
            ELSE ReadOne([lex EXCEPT !.ahead = <<>>], NextToken(seq, lex.at, FALSE))
      BY DEF SkipSpaces
    <3> HIDE DEF words, lex
    <3>8. SkipSpaces(seq, lex) = lex
      BY <3>1, <3>2, <3>6, <3>7
    <3> QED
      BY <3>5, <3>8 DEF lex
  <2> QED
    BY <2>3, <2>4
<1> QED
  BY <1>2, <1>3

-----------------------------------------------------------------------------
(* What a part of the rewriting writes and where it leaves the lexer.        *)
Yields(part, means, lex) == \E written \in Text : part = Result(written, lex) /\ WithoutSpaces(written) = means

LEMMA YieldsParts ==
  ASSUME NEW part, NEW means, NEW lex, Yields(part, means, lex)
  PROVE  part.out \in Text /\ WithoutSpaces(part.out) = means /\ part.lex = lex
BY ResultParts DEF Yields

LEMMA YieldsAfter ==
  ASSUME NEW o \in Text, NEW part, NEW means, NEW lex, Yields(part, means, lex)
  PROVE  Yields(After(o, part), WithoutSpaces(o) \o means, lex)
<1>1. PICK written \in Text : part = Result(written, lex) /\ WithoutSpaces(written) = means
  BY DEF Yields
<1>2. After(o, part) = Result(o \o written, lex)
  BY <1>1, ResultParts DEF After
<1>3. o \o written \in Text
  BY TextClosed
<1>4. WithoutSpaces(o \o written) = WithoutSpaces(o) \o means
  BY <1>1, WithoutSpacesConcat
<1> QED
  BY <1>2, <1>3, <1>4 DEF Yields

(* Where the next word is, and how the lexer gets there.                    *)
LEMMA NextWord ==
  ASSUME NEW seq, Prepared(seq), NEW i \in 1..(Len(seq) + 1), NEW p \in Pieces, NEW rest \in Text,
         Words(seq)[i] = <<p>> \o rest
  PROVE  /\ First(seq, i) \in i..Len(seq) /\ WordAt(seq, First(seq, i), p, rest)
         /\ Facing(seq, At(i, FALSE), First(seq, i), FALSE)
         /\ \A e \in BOOLEAN : SkipSpaces(seq, At(i, e)) = Seeing(seq, First(seq, i), e)
         /\ \A e \in BOOLEAN : i <= Len(seq) =>
              SkipSpaces(seq, Seeing(seq, i, e)) = Seeing(seq, First(seq, i), e)
<1>1. seq \in Text /\ Len(seq) \in Nat
  BY TextPlaces DEF Prepared
<1>2. First(seq, i) \in i..Len(seq) /\ WordAt(seq, First(seq, i), p, rest)
  BY <1>1, FirstWord
<1>3. First(seq, i) \in 1..Len(seq) /\ i \in Nat
  BY <1>1, <1>2
<1>4. Facing(seq, At(i, FALSE), First(seq, i), FALSE)
  BY <1>3, AtFaces
<1>5. i <= Len(seq) => i \in 1..Len(seq)
  BY <1>1
<1> QED
  BY <1>2, <1>3, <1>4, <1>5, SkipFaces

(* A word stands where no blank is.                                         *)
LEMMA WordHere ==
  ASSUME NEW seq, Prepared(seq), NEW i \in 1..Len(seq), seq[i] # SPACE, NEW p \in Pieces,
         NEW rest \in Text,
         Words(seq)[i] = <<p>> \o rest
  PROVE  First(seq, i) = i /\ WordAt(seq, i, p, rest)
<1>1. seq \in Text /\ Len(seq) \in Nat
  BY TextPlaces DEF Prepared
<1>2. i \in 1..(Len(seq) + 1) /\ i <= Len(seq)
  BY <1>1
<1>3. First(seq, i) = i
  BY <1>1, <1>2, FirstFacts
<1> QED
  BY <1>1, <1>2, <1>3, FirstWord

(* No blanks stand before a parenthesis.                                    *)
LEMMA NoBlankBefore ==
  ASSUME NEW seq, Prepared(seq), NEW i \in 2..Len(seq), NEW rest \in Text,
         Words(seq)[i] = <<LPARENT>> \o rest
  PROVE  First(seq, i) = i /\ seq[i] = LPARENT
<1>1. seq \in Text /\ Len(seq) \in Nat
  BY TextPlaces DEF Prepared
<1>2. LPARENT \in Pieces
  <2>1. LPARENT \in Delimiters
    BY DEF Delimiters
  <2> QED
    BY <2>1, LexerAssumption
<1>3. i \in 1..(Len(seq) + 1)
  BY <1>1
<1>4. First(seq, i) \in i..Len(seq) /\ WordAt(seq, First(seq, i), LPARENT, rest)
  BY <1>1, <1>2, <1>3, FirstWord
<1> DEFINE k == First(seq, i)
<1>5. k # i => seq[k - 1] = SPACE
  <2> SUFFICES ASSUME k # i, seq[k - 1] # SPACE PROVE FALSE
    OBVIOUS
  <2>0. k \in i..Len(seq)
    BY <1>4
  <2>1. k - 1 \in i..Len(seq)
    BY <1>1, <2>0
  <2>2. k - 1 \in {j \in i..Len(seq) : seq[j] # SPACE} \cup {Len(seq) + 1}
    BY <2>1
  <2> DEFINE S == {j \in i..Len(seq) : seq[j] # SPACE} \cup {Len(seq) + 1}
  <2>3. S \in SUBSET Nat /\ S # {}
    BY <1>1
  <2>4. \A n \in S : Min(S) <= n
    <3> HIDE DEF S
    <3> QED
      BY <2>3, MinIsLeast
  <2>5. k = Min(S)
    BY DEF First
  <2>6. k <= k - 1
    <3> HIDE DEF S, k
    <3>1. k - 1 \in S
      BY <2>2 DEF S
    <3> QED
      BY <3>1, <2>4, <2>5
  <2> HIDE DEF k
  <2> QED
    BY <2>0, <2>6
<1>6. seq[k] = LPARENT /\ k \in 1..Len(seq) /\ k > 1
  BY <1>1, <1>4 DEF WordAt
<1>7. seq[k - 1] # SPACE
  BY <1>6 DEF Prepared, Readable
<1> QED
  BY <1>5, <1>6, <1>7

(* The type of a piece of a readable sequence.                              *)
LEMMA ReadType ==
  ASSUME NEW seq, Prepared(seq), NEW i \in 1..Len(seq)
  PROVE  /\ seq[i] \in Pieces /\ <<seq[i]>> \in Text
         /\ Type(seq[i]) \notin {"EOS", "INVALID", "OTHER"}
         /\ \A p \in Delimiters \cup Keywords : Type(seq[i]) = p <=> seq[i] = p
<1>1. seq[i] \in Pieces /\ <<seq[i]>> \in Text
  BY TextPlaces, TextClosed DEF Prepared
<1>2. Type(seq[i]) \notin {"INVALID", "OTHER"}
  BY DEF Prepared, Readable
<1>3. ASSUME NEW p \in Delimiters \cup Keywords PROVE Type(seq[i]) = p <=> seq[i] = p
  BY <1>1, TypeFacts, Zenon
<1>4. Type(seq[i]) # "EOS"
  <2>1. CASE Type(seq[i]) \in Kinds
    BY <2>1 DEF Kinds
  <2>2. CASE Type(seq[i]) \in Delimiters
    BY <2>2, MarkFacts
  <2>3. CASE Type(seq[i]) \in Keywords
    <3>1. "EOS" \notin Keywords
      BY DEF Keywords, FunctionMap, LiteralMap
    <3> QED
      BY <2>3, <3>1
  <2> QED
    BY <1>1, <2>1, <2>2, <2>3, TypeFacts, Zenon DEF TokenTypes, Kinds
<1> QED
  BY <1>1, <1>2, <1>3, <1>4

-----------------------------------------------------------------------------
(* The turns of the loop of processParentheses.                             *)
LEMMA ParenthesesTurns ==
  ASSUME NEW seq, Prepared(seq), NEW l, NEW i \in 1..Len(seq)
  PROVE  LET lex == At(i, TRUE)
             turn == ParenthesesTurn(seq, l, lex)
             group == Parentheses(seq, l, lex)
             nested == NestedSequence(seq, l, lex)
         IN /\ seq[i] = RPARENT => turn = Result(<<RPARENT>>, At(i + 1, TRUE))
            /\ seq[i] = LPARENT => turn = After(group.out, l.parentheses[group.lex])
            /\ seq[i] = LCURLY => turn = After(nested.out, l.parentheses[nested.lex])
            /\ seq[i] \notin {LPARENT, RPARENT, LCURLY} =>
                 turn = After(<<seq[i]>>, l.parentheses[At(i + 1, TRUE)])
<1> DEFINE lex == At(i, TRUE)
           t == Peek(seq, lex).type
           group == Parentheses(seq, l, lex)
           nested == NestedSequence(seq, l, lex)
           rest == Result(<<seq[i]>>, At(i + 1, TRUE))
           With(part) == After(part.out, l.parentheses[part.lex])
           R1 == With(group)
           R2 == With(nested)
           R3 == Result(<<>>, Ahead(seq, lex))
           R4 == With(rest)
           turn == ParenthesesTurn(seq, l, lex)
<1>1. Facing(seq, lex, i, TRUE)
  <2>1. i \in Nat
    OBVIOUS
  <2> QED
    BY <2>1, AtFaces
<1>2. t = Type(seq[i]) /\ Peek(seq, lex).text = <<seq[i]>> /\ Consume(seq, lex) = At(i + 1, TRUE)
  BY <1>1, FacingFacts
<1>3. turn =
        CASE t = RPARENT -> rest
          [] t = LPARENT -> R1
          [] t = LCURLY -> R2
          [] t \in {"EOS", "INVALID"} -> R3
          [] OTHER -> R4
  BY <1>2 DEF ParenthesesTurn
<1>4. t \notin {"EOS", "INVALID"}
  BY <1>2, ReadType
<1>5. R4 = After(<<seq[i]>>, l.parentheses[At(i + 1, TRUE)])
  BY ResultParts
<1> HIDE DEF t, R1, R2, R3, R4, rest, turn
<1>6. turn = IF t = RPARENT THEN rest ELSE IF t = LPARENT THEN R1 ELSE IF t = LCURLY THEN R2 ELSE R4
  BY <1>3, <1>4, NamesAreApart, Zenon
<1>7. \A p \in {LPARENT, RPARENT, LCURLY} : t = p <=> seq[i] = p
  <2>1. \A p \in Delimiters \cup Keywords : Type(seq[i]) = p <=> seq[i] = p
    BY ReadType
  <2> QED
    BY <1>2, <2>1, AllMarks, Zenon
<1>8. RPARENT # LPARENT /\ RPARENT # LCURLY /\ LPARENT # LCURLY
  BY NamesAreApart
<1>9. /\ seq[i] = RPARENT => turn = rest
      /\ seq[i] = LPARENT => turn = R1
      /\ seq[i] = LCURLY => turn = R2
      /\ seq[i] \notin {LPARENT, RPARENT, LCURLY} => turn = R4
  BY <1>6, <1>7, <1>8
<1> QED
  BY <1>5, <1>9 DEF R1, R2, rest, turn

LEMMA YieldsThen ==
  ASSUME NEW p, NEW m, NEW l, Yields(p, m, l), NEW q, NEW r, NEW k, Yields(q, r, k)
  PROVE  Yields(After(p.out, q), m \o r, k)
<1>1. p.out \in Text /\ WithoutSpaces(p.out) = m
  BY YieldsParts
<1> QED
  BY <1>1, YieldsAfter

LEMMA YieldsResult ==
  ASSUME NEW o \in Text, NEW lex
  PROVE  Yields(Result(o, lex), WithoutSpaces(o), lex)
BY DEF Yields

LEMMA SpacesOfLexers ==
  ASSUME NEW seq, NEW i, NEW e, NEW b
  PROVE  SetEmitSpaces(At(i, e), b) = At(i, b) /\ SetEmitSpaces(Seeing(seq, i, e), b) = Seeing(seq, i, b)
BY DEF SetEmitSpaces, At, Seeing

-----------------------------------------------------------------------------
(* What it takes to say that the code rewrites the phrase w to m: wherever   *)
(* it reads w, with enough levels of loops left, it writes m up to blanks,   *)
(* and goes on behind w.                                                    *)
Fuel(seq) == 0..(Len(seq) + 1)
PlacesIn(seq) == 1..(Len(seq) + 1)

InsideAt(seq, w, m, i) ==
  \A n \in Fuel(seq), v \in Text : n + i > Len(seq) /\ Words(seq)[i] = w \o v =>
    \E j \in PlacesIn(seq) :
      /\ j > i /\ Words(seq)[j] = v
      /\ Yields(Levels(seq)[n].parentheses[At(i, TRUE)], m, At(j, TRUE))

IsInside(seq, w, m) == \A i \in PlacesIn(seq) : InsideAt(seq, w, m, i)

Starting(p, w) == \E r \in Text : w = <<p>> \o r

IsGroup(seq, w, m) ==
  /\ Starting(LPARENT, w) /\ m # <<>>
  /\ \A lex : \A n \in Fuel(seq), k \in 1..Len(seq), v \in Text :
       Facing(seq, SetEmitSpaces(lex, TRUE), k, TRUE) /\ seq[k] # SPACE
       /\ n + k >= Len(seq) /\ Words(seq)[k] = w \o v =>
         \E j \in PlacesIn(seq) :
           /\ j > k /\ Words(seq)[j] = v
           /\ Yields(Parentheses(seq, Levels(seq)[n], lex), m, At(j, TRUE))

IsSequence(seq, w, m) ==
  /\ Starting(LCURLY, w) /\ m # <<>>
  /\ \A lex : \A n \in Fuel(seq), k \in 1..Len(seq), v \in Text :
       Facing(seq, lex, k, FALSE) /\ seq[k] # SPACE
       /\ n + k >= Len(seq) /\ Words(seq)[k] = w \o v =>
         \E j \in PlacesIn(seq), e \in BOOLEAN :
           /\ j > k /\ Words(seq)[j] = v
           /\ Yields(Sequence(seq, Levels(seq)[n], lex), m, At(j, e))

IsNested(seq, w, m) ==
  \A lex : \A n \in Fuel(seq), k \in 1..Len(seq), v \in Text :
    Facing(seq, SetEmitSpaces(lex, FALSE), k, FALSE) /\ seq[k] # SPACE
    /\ n + k >= Len(seq) /\ Words(seq)[k] = w \o v =>
      \E j \in PlacesIn(seq) :
        /\ j > k /\ Words(seq)[j] = v
        /\ Yields(NestedSequence(seq, Levels(seq)[n], lex), m, At(j, TRUE))

LEMMA SequenceNests ==
  ASSUME NEW seq, Prepared(seq), NEW w, NEW m, IsSequence(seq, w, m)
  PROVE  IsNested(seq, w, m)
<1>1. ASSUME NEW lex, NEW n \in Fuel(seq), NEW k \in 1..Len(seq), NEW v \in Text,
             Facing(seq, SetEmitSpaces(lex, FALSE), k, FALSE), seq[k] # SPACE,
             n + k >= Len(seq), Words(seq)[k] = w \o v
      PROVE  \E j \in PlacesIn(seq) :
               /\ j > k /\ Words(seq)[j] = v
               /\ Yields(NestedSequence(seq, Levels(seq)[n], lex), m, At(j, TRUE))
  <2> DEFINE lx == SetEmitSpaces(lex, FALSE)
             part == Sequence(seq, Levels(seq)[n], lx)
  <2>1. Facing(seq, lx, k, FALSE)
    BY <1>1
  <2> HIDE DEF lx
  <2>2. PICK j \in PlacesIn(seq), e \in BOOLEAN : j > k /\ Words(seq)[j] = v /\ Yields(part, m, At(j, e))
    BY <1>1, <2>1 DEF IsSequence
  <2>3. PICK written \in Text : part = Result(written, At(j, e)) /\ WithoutSpaces(written) = m
    BY <2>2 DEF Yields
  <2> HIDE DEF part
  <2>4. Spaced(part) = Result(written, At(j, TRUE))
    <3>1. part.out = written /\ part.lex = At(j, e)
      BY <2>3, ResultParts
    <3>2. SetEmitSpaces(At(j, e), TRUE) = At(j, TRUE)
      BY SpacesOfLexers, Zenon
    <3> QED
      BY <3>1, <3>2, Zenon DEF Spaced
  <2>5. Yields(Spaced(part), m, At(j, TRUE))
    BY <2>3, <2>4 DEF Yields
  <2> QED
    BY <2>2, <2>5 DEF NestedSequence, part, lx
<1> QED
  BY <1>1 DEF IsNested

LEMMA SpaceDropped ==
  ASSUME NEW m \in Text
  PROVE  WithoutSpaces(<<SPACE>>) \o m = m
<1>1. WithoutSpaces(<<SPACE>>) = <<>>
  BY MarkFacts, AllMarks, WithoutSpacesPiece
<1> QED
  BY <1>1, TextEmpty

LEMMA WordStays == \A p \in Pieces : p # SPACE => WithoutSpaces(<<p>>) = <<p>>
BY WithoutSpacesPiece

(* With the blanks before a word the code does as it does without.          *)
LEMMA InsideWithoutBlanks ==
  ASSUME NEW seq, Prepared(seq), NEW w \in Text, w # <<>>, NEW m \in Text,
         \A i \in 1..Len(seq) : seq[i] # SPACE => InsideAt(seq, w, m, i)
  PROVE  IsInside(seq, w, m)
<1> DEFINE N == Len(seq)
           S == {i \in 1..(N + 1) : InsideAt(seq, w, m, i)}
<1>1. seq \in Text /\ N \in Nat
  BY TextPlaces DEF Prepared
<1>2. N + 1 \in S
  <2>1. \A v \in Text : w \o v # <<>>
    BY TextPlaces, TextClosed
  <2>2. Words(seq)[N + 1] = <<>>
    BY <1>1, WordsStep
  <2>3. InsideAt(seq, w, m, N + 1)
    BY <2>1, <2>2 DEF InsideAt
  <2> QED
    BY <1>1, <2>3
<1>3. ASSUME NEW i \in 1..N, i + 1 \in S PROVE i \in S
  <2>0. i \in 1..(N + 1) /\ i + 1 \in 1..(N + 1) /\ InsideAt(seq, w, m, i + 1)
    BY <1>1, <1>3
  <2>1. CASE seq[i] # SPACE
    BY <2>0, <2>1
  <2>2. ASSUME seq[i] = SPACE PROVE InsideAt(seq, w, m, i)
    <3> SUFFICES ASSUME NEW n \in Fuel(seq),
                        NEW v \in Text, n + i > Len(seq), Words(seq)[i] = w \o v
                 PROVE  \E j \in PlacesIn(seq) :
                          /\ j > i /\ Words(seq)[j] = v
                          /\ Yields(Levels(seq)[n].parentheses[At(i, TRUE)], m, At(j, TRUE))
      BY DEF InsideAt
    <3>1. n \in 1..(N + 1) /\ n - 1 \in Fuel(seq) /\ n - 1 + (i + 1) > Len(seq)
      BY <1>1 DEF Fuel
    <3>2. Words(seq)[i + 1] = w \o v
      BY <1>1, <2>2, WordsStep
    <3>3. PICK j \in PlacesIn(seq) :
            /\ j > i + 1 /\ Words(seq)[j] = v
            /\ Yields(Levels(seq)[n - 1].parentheses[At(i + 1, TRUE)], m, At(j, TRUE))
      BY <2>0, <3>1, <3>2 DEF InsideAt
    <3>4. Levels(seq)[n].parentheses[At(i, TRUE)] =
            After(<<SPACE>>, Levels(seq)[n - 1].parentheses[At(i + 1, TRUE)])
      <4>1. At(i, TRUE) \in Lexers
        <5>1. i \in Nat
          OBVIOUS
        <5> QED
          BY <5>1, LexersAt, Zenon
      <4>2. Levels(seq)[n].parentheses[At(i, TRUE)] = ParenthesesTurn(seq, Levels(seq)[n - 1], At(i, TRUE))
        BY <1>1, <3>1, <4>1, LoopTurns
      <4>3. SPACE \notin {LPARENT, RPARENT, LCURLY}
        BY NamesAreApart
      <4> DEFINE loops == Levels(seq)[n - 1]
      <4> HIDE DEF loops
      <4>4. seq[i] \notin {LPARENT, RPARENT, LCURLY} =>
              ParenthesesTurn(seq, loops, At(i, TRUE)) = After(<<seq[i]>>, loops.parentheses[At(i + 1, TRUE)])
        BY ParenthesesTurns, Zenon
      <4> QED
        BY <2>2, <4>2, <4>3, <4>4 DEF loops
    <3>5. <<SPACE>> \in Text
      BY AllMarks, MarkFacts, TextClosed
    <3>6. Yields(Levels(seq)[n].parentheses[At(i, TRUE)], WithoutSpaces(<<SPACE>>) \o m, At(j, TRUE))
      BY <3>3, <3>4, <3>5, YieldsAfter
    <3>7. Yields(Levels(seq)[n].parentheses[At(i, TRUE)], m, At(j, TRUE))
      BY <3>6, SpaceDropped
    <3>8. j > i
      BY <3>3 DEF PlacesIn
    <3> QED
      BY <3>3, <3>7, <3>8
  <2> QED
    BY <2>0, <2>1, <2>2
<1>4. 1..(N + 1) \subseteq S
  <2> HIDE DEF S, N
  <2> QED
    BY <1>1, <1>2, <1>3, DownwardInduction
<1> QED
  BY <1>4 DEF IsInside, PlacesIn

LEMMA ParenthesesLevel ==
  ASSUME NEW seq, Prepared(seq), NEW n \in Fuel(seq), NEW i \in 1..Len(seq), n + i > Len(seq)
  PROVE  /\ n - 1 \in Fuel(seq)
         /\ Levels(seq)[n].parentheses[At(i, TRUE)] = ParenthesesTurn(seq, Levels(seq)[n - 1], At(i, TRUE))
<1>1. Len(seq) \in Nat
  BY TextPlaces DEF Prepared
<1>2. n \in 1..(Len(seq) + 1) /\ n - 1 \in Fuel(seq) /\ i \in Nat
  BY <1>1 DEF Fuel
<1>3. At(i, TRUE) \in Lexers
  BY <1>2, LexersAt, Zenon
<1> QED
  BY <1>1, <1>2, <1>3, LoopTurns

LEMMA LoopCloses ==
  ASSUME NEW seq, Prepared(seq), NEW n \in Fuel(seq),
         NEW i \in 1..Len(seq), n + i > Len(seq), seq[i] = RPARENT,
         NEW l, l = Levels(seq)[n - 1]
  PROVE  Levels(seq)[n].parentheses[At(i, TRUE)] =
           Result(<<RPARENT>>, At(i + 1, TRUE))
<1>1. Levels(seq)[n].parentheses[At(i, TRUE)] = ParenthesesTurn(seq, l, At(i, TRUE))
  BY ParenthesesLevel
<1>2. seq[i] = RPARENT => ParenthesesTurn(seq, l, At(i, TRUE)) =
           Result(<<RPARENT>>, At(i + 1, TRUE))
  BY ParenthesesTurns, Zenon
<1> QED
  BY <1>1, <1>2

LEMMA LoopOpens ==
  ASSUME NEW seq, Prepared(seq), NEW n \in Fuel(seq),
         NEW i \in 1..Len(seq), n + i > Len(seq), seq[i] = LPARENT,
         NEW l, l = Levels(seq)[n - 1]
  PROVE  Levels(seq)[n].parentheses[At(i, TRUE)] =
           After(Parentheses(seq, l, At(i, TRUE)).out, l.parentheses[Parentheses(seq, l, At(i, TRUE)).lex])
<1>1. Levels(seq)[n].parentheses[At(i, TRUE)] = ParenthesesTurn(seq, l, At(i, TRUE))
  BY ParenthesesLevel
<1>2. seq[i] = LPARENT => ParenthesesTurn(seq, l, At(i, TRUE)) =
           After(Parentheses(seq, l, At(i, TRUE)).out, l.parentheses[Parentheses(seq, l, At(i, TRUE)).lex])
  BY ParenthesesTurns, Zenon
<1> QED
  BY <1>1, <1>2

LEMMA LoopNests ==
  ASSUME NEW seq, Prepared(seq), NEW n \in Fuel(seq),
         NEW i \in 1..Len(seq), n + i > Len(seq), seq[i] = LCURLY,
         NEW l, l = Levels(seq)[n - 1]
  PROVE  Levels(seq)[n].parentheses[At(i, TRUE)] =
           After(NestedSequence(seq, l, At(i, TRUE)).out, l.parentheses[NestedSequence(seq, l, At(i, TRUE)).lex])
<1>1. Levels(seq)[n].parentheses[At(i, TRUE)] = ParenthesesTurn(seq, l, At(i, TRUE))
  BY ParenthesesLevel
<1>2. seq[i] = LCURLY => ParenthesesTurn(seq, l, At(i, TRUE)) =
           After(NestedSequence(seq, l, At(i, TRUE)).out, l.parentheses[NestedSequence(seq, l, At(i, TRUE)).lex])
  BY ParenthesesTurns, Zenon
<1> QED
  BY <1>1, <1>2

LEMMA LoopCopies ==
  ASSUME NEW seq, Prepared(seq), NEW n \in Fuel(seq),
         NEW i \in 1..Len(seq), n + i > Len(seq), seq[i] \notin {LPARENT, RPARENT, LCURLY},
         NEW l, l = Levels(seq)[n - 1]
  PROVE  Levels(seq)[n].parentheses[At(i, TRUE)] =
           After(<<seq[i]>>, l.parentheses[At(i + 1, TRUE)])
<1>1. Levels(seq)[n].parentheses[At(i, TRUE)] = ParenthesesTurn(seq, l, At(i, TRUE))
  BY ParenthesesLevel
<1>2. seq[i] \notin {LPARENT, RPARENT, LCURLY} => ParenthesesTurn(seq, l, At(i, TRUE)) =
           After(<<seq[i]>>, l.parentheses[At(i + 1, TRUE)])
  BY ParenthesesTurns, Zenon
<1> QED
  BY <1>1, <1>2

(* How a text that begins with a word goes on.                              *)
LEMMA WordAhead ==
  ASSUME NEW p \in Pieces, NEW w \in Text, NEW v \in Text
  PROVE  (<<p>> \o w) \o v = <<p>> \o (w \o v) /\ w \o v \in Text
<1>1. <<p>> \in Text
  BY TextClosed
<1> QED
  BY <1>1, TextClosed, TextAssoc, Zenon

LEMMA TextAhead ==
  ASSUME NEW a \in Text, NEW w \in Text, NEW v \in Text
  PROVE  (a \o w) \o v = a \o (w \o v) /\ w \o v \in Text
BY TextClosed, TextAssoc, Zenon

LEMMA InsideEnds ==
  ASSUME NEW seq, Prepared(seq)
  PROVE  IsInside(seq, <<RPARENT>>, <<RPARENT>>)
<1>1. seq \in Text /\ Len(seq) \in Nat
  BY TextPlaces DEF Prepared
<1>2. RPARENT \in Pieces /\ <<RPARENT>> \in Text /\ RPARENT # SPACE /\ <<RPARENT>> # <<>>
  BY AllMarks, MarkFacts, TextClosed, NamesAreApart
<1>3. ASSUME NEW i \in 1..Len(seq), seq[i] # SPACE PROVE InsideAt(seq, <<RPARENT>>, <<RPARENT>>, i)
  <2> SUFFICES ASSUME NEW n \in Fuel(seq), NEW v \in Text, n + i > Len(seq),
                      Words(seq)[i] = <<RPARENT>> \o v
               PROVE  \E j \in PlacesIn(seq) :
                        /\ j > i /\ Words(seq)[j] = v
                        /\ Yields(Levels(seq)[n].parentheses[At(i, TRUE)], <<RPARENT>>, At(j, TRUE))
    BY DEF InsideAt
  <2>1. WordAt(seq, i, RPARENT, v)
    BY <1>2, <1>3, WordHere
  <2>2. Levels(seq)[n].parentheses[At(i, TRUE)] = Result(<<RPARENT>>, At(i + 1, TRUE))
    BY <2>1, LoopCloses DEF WordAt
  <2>3. Yields(Levels(seq)[n].parentheses[At(i, TRUE)], WithoutSpaces(<<RPARENT>>), At(i + 1, TRUE))
    BY <1>2, <2>2, YieldsResult
  <2>4. WithoutSpaces(<<RPARENT>>) = <<RPARENT>>
    BY <1>2, WordStays
  <2>5. i + 1 \in PlacesIn(seq) /\ i + 1 > i /\ Words(seq)[i + 1] = v
    BY <1>1, <2>1 DEF PlacesIn, WordAt
  <2> QED
    BY <2>3, <2>4, <2>5
<1> DEFINE w == <<RPARENT>>
<1> HIDE DEF w
<1>4. w \in Text /\ w # <<>> /\ \A i \in 1..Len(seq) : seq[i] # SPACE => InsideAt(seq, w, w, i)
  BY <1>2, <1>3 DEF w
<1>5. IsInside(seq, w, w)
  BY <1>4, InsideWithoutBlanks
<1> QED
  BY <1>5 DEF w

LEMMA InsideCopies ==
  ASSUME NEW seq, Prepared(seq), NEW p \in Pieces, p \notin {LPARENT, RPARENT, LCURLY},
         NEW w \in Text, NEW m \in Text, IsInside(seq, w, m)
  PROVE  IsInside(seq, <<p>> \o w, <<p>> \o m)
<1> DEFINE x == <<p>> \o w
           y == <<p>> \o m
<1>1. seq \in Text /\ Len(seq) \in Nat
  BY TextPlaces DEF Prepared
<1>2. <<p>> \in Text /\ x \in Text /\ x # <<>> /\ y \in Text
  BY TextClosed, TextCons
<1>3. ASSUME NEW i \in 1..Len(seq), seq[i] # SPACE PROVE InsideAt(seq, x, y, i)
  <2> SUFFICES ASSUME NEW n \in Fuel(seq), NEW v \in Text, n + i > Len(seq),
                      Words(seq)[i] = x \o v
               PROVE  \E j \in PlacesIn(seq) :
                        /\ j > i /\ Words(seq)[j] = v
                        /\ Yields(Levels(seq)[n].parentheses[At(i, TRUE)], y, At(j, TRUE))
    BY DEF InsideAt
  <2>1. w \o v \in Text /\ Words(seq)[i] = <<p>> \o (w \o v)
    BY WordAhead
  <2>2. WordAt(seq, i, p, w \o v)
    BY <1>3, <2>1, WordHere
  <2>3. seq[i] = p /\ p # SPACE /\ Words(seq)[i + 1] = w \o v
    BY <2>2 DEF WordAt
  <2>4. i + 1 \in PlacesIn(seq) /\ n - 1 \in Fuel(seq) /\ n - 1 + (i + 1) > Len(seq)
    BY <1>1 DEF Fuel, PlacesIn
  <2>5. PICK j \in PlacesIn(seq) :
          /\ j > i + 1 /\ Words(seq)[j] = v
          /\ Yields(Levels(seq)[n - 1].parentheses[At(i + 1, TRUE)], m, At(j, TRUE))
    BY <2>3, <2>4 DEF IsInside, InsideAt
  <2>6. Levels(seq)[n].parentheses[At(i, TRUE)] =
          After(<<p>>, Levels(seq)[n - 1].parentheses[At(i + 1, TRUE)])
    BY <2>3, LoopCopies
  <2>7. Yields(Levels(seq)[n].parentheses[At(i, TRUE)], WithoutSpaces(<<p>>) \o m, At(j, TRUE))
    BY <1>2, <2>5, <2>6, YieldsAfter
  <2>8. WithoutSpaces(<<p>>) = <<p>>
    BY <2>3, WordStays
  <2>9. j > i
    BY <2>5 DEF PlacesIn
  <2> QED
    BY <2>5, <2>7, <2>8, <2>9
<1> QED
  BY <1>2, <1>3, InsideWithoutBlanks

LEMMA InsideNests ==
  ASSUME NEW seq, Prepared(seq), NEW a \in Text, NEW c \in Text,
         IsGroup(seq, a, c) \/ IsSequence(seq, a, c),
         NEW w \in Text, NEW m \in Text, IsInside(seq, w, m)
  PROVE  IsInside(seq, a \o w, c \o m)
<1> DEFINE x == a \o w
           y == c \o m
           p == IF IsGroup(seq, a, c) THEN LPARENT ELSE LCURLY
<1>1. seq \in Text /\ Len(seq) \in Nat
  BY TextPlaces DEF Prepared
<1>2. p \in Pieces /\ p \in {LPARENT, LCURLY}
  BY AllMarks, MarkFacts
<1>3. PICK r \in Text : a = <<p>> \o r
  BY DEF IsGroup, IsSequence, Starting
<1> HIDE DEF p
<1>4. x \in Text /\ x # <<>> /\ y \in Text /\ <<p>> \in Text
  <2>1. a # <<>> /\ Len(a) = Len(r) + 1
    BY <1>2, <1>3, TextCons
  <2>2. Len(x) = Len(a) + Len(w)
    BY TextPlaces
  <2> QED
    BY <1>2, <2>1, <2>2, TextPlaces, TextClosed
<1>4a. \A v \in Text : w \o v \in Text
  BY TextClosed
<1>4b. \A v \in Text : x \o v = a \o (w \o v)
  BY TextAssoc
<1>5. ASSUME NEW i \in 1..Len(seq), seq[i] # SPACE PROVE InsideAt(seq, x, y, i)
  <2> SUFFICES ASSUME NEW n \in Fuel(seq), NEW v \in Text, n + i > Len(seq),
                      Words(seq)[i] = x \o v
               PROVE  \E j \in PlacesIn(seq) :
                        /\ j > i /\ Words(seq)[j] = v
                        /\ Yields(Levels(seq)[n].parentheses[At(i, TRUE)], y, At(j, TRUE))
    BY DEF InsideAt
  <2> DEFINE u == w \o v
  <2>1. u \in Text /\ Words(seq)[i] = a \o u
    BY <1>4a, <1>4b
  <2> HIDE DEF u
  <2>1a. r \o u \in Text /\ Words(seq)[i] = <<p>> \o (r \o u)
    BY <1>2, <1>3, <2>1, WordAhead
  <2>2. seq[i] = p
    <3>1. WordAt(seq, i, p, r \o u)
      BY <1>2, <1>5, <2>1a, WordHere
    <3> QED
      BY <3>1 DEF WordAt
  <2>3. n - 1 \in Fuel(seq) /\ n - 1 + i >= Len(seq) /\ i \in Nat
    BY <1>1 DEF Fuel
  <2> DEFINE loops == Levels(seq)[n - 1]
             group == Parentheses(seq, loops, At(i, TRUE))
             nested == NestedSequence(seq, loops, At(i, TRUE))
             part == IF IsGroup(seq, a, c) THEN group ELSE nested
  <2>4. PICK j0 \in PlacesIn(seq) : j0 > i /\ Words(seq)[j0] = u /\ Yields(part, c, At(j0, TRUE))
    <3>1. CASE IsGroup(seq, a, c)
      <4>1. SetEmitSpaces(At(i, TRUE), TRUE) = At(i, TRUE)
        BY SpacesOfLexers, Zenon
      <4>2. Facing(seq, SetEmitSpaces(At(i, TRUE), TRUE), i, TRUE)
        BY <2>3, <4>1, AtFaces
      <4>3. \E j \in PlacesIn(seq) : j > i /\ Words(seq)[j] = u /\ Yields(group, c, At(j, TRUE))
        BY <3>1, <1>5, <2>1, <2>3, <4>2 DEF IsGroup
      <4> QED
        BY <3>1, <4>3
    <3>2. CASE ~IsGroup(seq, a, c)
      <4>1. SetEmitSpaces(At(i, TRUE), FALSE) = At(i, FALSE)
        BY SpacesOfLexers, Zenon
      <4>2. First(seq, i) = i
        <5>1. i \in 1..(Len(seq) + 1) /\ i <= Len(seq)
          BY <1>1
        <5> QED
          BY <1>1, <1>5, <5>1, FirstFacts
      <4>3. Facing(seq, SetEmitSpaces(At(i, TRUE), FALSE), i, FALSE)
        BY <2>3, <4>1, <4>2, AtFaces
      <4>4. \E j \in PlacesIn(seq) : j > i /\ Words(seq)[j] = u /\ Yields(nested, c, At(j, TRUE))
        <5>1. IsNested(seq, a, c)
          BY <3>2, SequenceNests
        <5> QED
          BY <5>1, <1>5, <2>1, <2>3, <4>3 DEF IsNested
      <4> QED
        BY <3>2, <4>4
    <3> QED
      BY <3>1, <3>2
  <2>5. n - 1 + j0 > Len(seq)
    BY <1>1, <2>3, <2>4 DEF Fuel, PlacesIn
  <2>6. PICK j \in PlacesIn(seq) :
          /\ j > j0 /\ Words(seq)[j] = v
          /\ Yields(loops.parentheses[At(j0, TRUE)], m, At(j, TRUE))
    BY <2>3, <2>4, <2>5 DEF IsInside, InsideAt, u
  <2>7. part.lex = At(j0, TRUE)
    BY <2>4, YieldsParts
  <2>8. Levels(seq)[n].parentheses[At(i, TRUE)] = After(part.out, loops.parentheses[part.lex])
    <3>1. seq[i] = LPARENT =>
            Levels(seq)[n].parentheses[At(i, TRUE)] = After(group.out, loops.parentheses[group.lex])
      BY LoopOpens
    <3>2. seq[i] = LCURLY =>
            Levels(seq)[n].parentheses[At(i, TRUE)] = After(nested.out, loops.parentheses[nested.lex])
      BY LoopNests
    <3> HIDE DEF loops, group, nested
    <3> QED
      BY <2>2, <3>1, <3>2 DEF p
  <2> HIDE DEF part, loops
  <2>9. Yields(Levels(seq)[n].parentheses[At(i, TRUE)], c \o m, At(j, TRUE))
    BY <2>4, <2>6, <2>7, <2>8, YieldsThen
  <2>10. j > i
    BY <2>4, <2>6 DEF PlacesIn
  <2> QED
    BY <2>6, <2>9, <2>10
<1> QED
  BY <1>4, <1>5, InsideWithoutBlanks

(* A group is its parenthesis and what is inside.                           *)
LEMMA GroupOpens ==
  ASSUME NEW seq, Prepared(seq), NEW w \in Text, NEW m \in Text, IsInside(seq, w, m)
  PROVE  IsGroup(seq, <<LPARENT>> \o w, <<LPARENT>> \o m)
<1> DEFINE x == <<LPARENT>> \o w
           y == <<LPARENT>> \o m
<1>1. seq \in Text /\ Len(seq) \in Nat
  BY TextPlaces DEF Prepared
<1>2. LPARENT \in Pieces /\ LPARENT # SPACE
  BY AllMarks, MarkFacts, NamesAreApart
<1>3. <<LPARENT>> \in Text /\ y # <<>> /\ Starting(LPARENT, x)
  BY <1>2, TextClosed, TextCons DEF Starting
<1>4. ASSUME NEW lex, NEW n \in Fuel(seq), NEW k \in 1..Len(seq), NEW v \in Text,
             Facing(seq, SetEmitSpaces(lex, TRUE), k, TRUE), seq[k] # SPACE,
             n + k >= Len(seq), Words(seq)[k] = x \o v
      PROVE  \E j \in PlacesIn(seq) :
               /\ j > k /\ Words(seq)[j] = v
               /\ Yields(Parentheses(seq, Levels(seq)[n], lex), y, At(j, TRUE))
  <2>1. w \o v \in Text /\ Words(seq)[k] = <<LPARENT>> \o (w \o v)
    BY <1>2, <1>4, WordAhead
  <2>2. WordAt(seq, k, LPARENT, w \o v)
    BY <1>2, <1>4, <2>1, WordHere
  <2>3. seq[k] = LPARENT /\ Words(seq)[k + 1] = w \o v
    BY <2>2 DEF WordAt
  <2>4. k + 1 \in PlacesIn(seq) /\ n + (k + 1) > Len(seq)
    BY <1>1, <1>4 DEF Fuel, PlacesIn
  <2>5. PICK j \in PlacesIn(seq) :
          /\ j > k + 1 /\ Words(seq)[j] = v
          /\ Yields(Levels(seq)[n].parentheses[At(k + 1, TRUE)], m, At(j, TRUE))
    BY <2>3, <2>4 DEF IsInside, InsideAt
  <2>6. Parentheses(seq, Levels(seq)[n], lex) =
          After(<<LPARENT>>, Levels(seq)[n].parentheses[At(k + 1, TRUE)])
    <3>1. /\ Peek(seq, SetEmitSpaces(lex, TRUE)).text = <<seq[k]>>
          /\ Consume(seq, SetEmitSpaces(lex, TRUE)) = At(k + 1, TRUE)
      <4> DEFINE lx == SetEmitSpaces(lex, TRUE)
                 e == TRUE
      <4>1. Facing(seq, lx, k, e)
        BY <1>4
      <4> HIDE DEF lx, e
      <4>2. Peek(seq, lx).text = <<seq[k]>> /\ Consume(seq, lx) = At(k + 1, e)
        BY <4>1, FacingFacts
      <4> QED
        BY <4>2 DEF lx, e
    <3> QED
      BY <2>3, <3>1 DEF Parentheses, ParenthesesFrom
  <2>7. Yields(Parentheses(seq, Levels(seq)[n], lex), WithoutSpaces(<<LPARENT>>) \o m, At(j, TRUE))
    BY <1>3, <2>5, <2>6, YieldsAfter
  <2>8. WithoutSpaces(<<LPARENT>>) = <<LPARENT>>
    BY <1>2, WordStays
  <2>9. j > k
    BY <2>5 DEF PlacesIn
  <2> QED
    BY <2>5, <2>7, <2>8, <2>9
<1> HIDE DEF x, y
<1>5. IsGroup(seq, x, y)
  BY <1>3, <1>4 DEF IsGroup
<1> QED
  BY <1>5 DEF x, y

(* The functions that are called by name.                                   *)
NowCall(seq, l, lex) ==
  Result(<<"now", LPARENT, RPARENT>>,
         IF Peek(seq, lex).type = LPARENT THEN Parentheses(seq, l, lex).lex ELSE Ahead(seq, lex))

LEMMA CallNamed ==
  ASSUME NEW seq, NEW l, NEW lex
  PROVE  /\ Named(seq, l, "TIMESTAMPADD", lex) = TimestampAdd(seq, l, lex)
         /\ Named(seq, l, "LOCATE", lex) = Locate(seq, l, lex)
         /\ Named(seq, l, "LTRIM", lex) = LTrim(seq, l, lex)
         /\ Named(seq, l, "CURRENT_TIMESTAMP", lex) = NowCall(seq, l, lex)
<1>1. DOMAIN FunctionMap = {"ABS", "CONCAT", "CURDATE", "EXTRACT", "TIMESTAMPADD"}
  BY MapFacts
<1> DEFINE C(f) == After(<<FunctionMap[f]>>, l.copy[f][SetEmitSpaces(lex, TRUE)])
<1> HIDE DEF C
<1>2. \A fn : Named(seq, l, fn, lex) =
        CASE fn = "TIMESTAMPADD" -> TimestampAdd(seq, l, lex)
          [] fn = "LOCATE"       -> Locate(seq, l, lex)
          [] fn = "LTRIM"        -> LTrim(seq, l, lex)
          [] fn \in DOMAIN FunctionMap \ {"TIMESTAMPADD"} -> C(fn)
          [] fn = "CURRENT_TIMESTAMP" -> NowCall(seq, l, lex)
          [] OTHER -> Result(seq, lex)
  BY DEF Named, NowCall, C
<1>3. Named(seq, l, "TIMESTAMPADD", lex) = TimestampAdd(seq, l, lex)
  BY <1>1, <1>2
<1>4. Named(seq, l, "LOCATE", lex) = Locate(seq, l, lex)
  BY <1>1, <1>2
<1>5. Named(seq, l, "LTRIM", lex) = LTrim(seq, l, lex)
  BY <1>1, <1>2
<1>6. Named(seq, l, "CURRENT_TIMESTAMP", lex) = NowCall(seq, l, lex)
  BY <1>1, <1>2
<1> QED
  BY <1>3, <1>4, <1>5, <1>6

RenamedCall(l, f, lex) == After(<<FunctionMap[f]>>, l.copy[f][SetEmitSpaces(lex, TRUE)])

LEMMA CallRenamed ==
  ASSUME NEW seq, NEW l, NEW lex, NEW f \in DOMAIN FunctionMap \ {"TIMESTAMPADD"}
  PROVE  Named(seq, l, f, lex) = RenamedCall(l, f, lex)
<1>1. DOMAIN FunctionMap = {"ABS", "CONCAT", "CURDATE", "EXTRACT", "TIMESTAMPADD"}
  BY MapFacts
<1> QED
  BY <1>1 DEF Named, RenamedCall

(* The function that a word names.                                          *)
LEMMA FunctionNamed ==
  ASSUME NEW seq, Prepared(seq), NEW l, NEW lex, NEW k,
         NEW e, Facing(seq, lex, k, e), seq[k] \in Keywords
  PROVE  Function(seq, l, lex) = Named(seq, l, seq[k], At(k + 1, e))
<1>1. Peek(seq, lex).type = Type(seq[k]) /\ Consume(seq, lex) = At(k + 1, e) /\ k \in 1..Len(seq)
  BY FacingFacts
<1>2. Type(seq[k]) = seq[k]
  <2>1. \A p \in Keywords : Type(seq[k]) = p <=> seq[k] = p
    BY <1>1, ReadType
  <2> QED
    BY <2>1
<1> QED
  BY <1>1, <1>2 DEF Function

-----------------------------------------------------------------------------
(* The turns of the loop that copies the rest of a sequence.                *)
Copied(name, p) == IF name # "EXTRACT" /\ p \in DOMAIN LiteralMap THEN LiteralMap[p] ELSE p

CopyOutcome(seq, l, name, lex, k, e) ==
  IF seq[k] = RCURLY THEN Result(<<>>, Seeing(seq, k, FALSE))
  ELSE IF seq[k] = LCURLY
  THEN After(NestedSequence(seq, l, lex).out, l.copy[name][NestedSequence(seq, l, lex).lex])
  ELSE IF seq[k] = "EXTRACT"
  THEN After(Function(seq, l, lex).out, l.copy[name][Function(seq, l, lex).lex])
  ELSE After(<<Copied(name, seq[k])>>, l.copy[name][At(k + 1, e)])

LEMMA CopyTurns ==
  ASSUME NEW seq, Prepared(seq), NEW l, NEW name, NEW lex, NEW k, NEW e, Facing(seq, lex, k, e)
  PROVE  CopyTurn(seq, l, lex, name) = CopyOutcome(seq, l, name, lex, k, e)
<1> DEFINE t == Peek(seq, lex).type
           piece == IF name # "EXTRACT" /\ t \in DOMAIN LiteralMap
                    THEN <<LiteralMap[t]>> ELSE Peek(seq, lex).text
           With(part) == After(part.out, l.copy[name][part.lex])
           R0 == Result(<<>>, SetEmitSpaces(Ahead(seq, lex), FALSE))
           R1 == With(NestedSequence(seq, l, lex))
           R2 == With(Function(seq, l, lex))
           R3 == With(Result(piece, Consume(seq, lex)))
           turn == CopyTurn(seq, l, lex, name)
<1>1. /\ t = Type(seq[k]) /\ Peek(seq, lex).text = <<seq[k]>> /\ Consume(seq, lex) = At(k + 1, e)
      /\ Ahead(seq, lex) = Seeing(seq, k, e) /\ k \in 1..Len(seq)
  BY FacingFacts
<1>2. turn = CASE t \in {RCURLY, "EOS", "INVALID"} -> R0
               [] t = LCURLY -> R1
               [] t = "EXTRACT" -> R2
               [] OTHER -> R3
  BY DEF CopyTurn
<1>3. R0 = Result(<<>>, Seeing(seq, k, FALSE))
  <2>1. SetEmitSpaces(Seeing(seq, k, e), FALSE) = Seeing(seq, k, FALSE)
    BY SpacesOfLexers, Zenon
  <2> QED
    BY <1>1, <2>1
<1>4. \A p \in Delimiters \cup Keywords : t = p <=> seq[k] = p
  BY <1>1, ReadType
<1>5. R3 = After(<<Copied(name, seq[k])>>, l.copy[name][At(k + 1, e)])
  <2>1. t \in DOMAIN LiteralMap <=> seq[k] \in DOMAIN LiteralMap
    BY <1>4, MapFacts
  <2>2. t \in DOMAIN LiteralMap => t = seq[k]
    BY <1>4, MapFacts
  <2>3. piece = <<Copied(name, seq[k])>>
    BY <1>1, <2>1, <2>2 DEF Copied
  <2> HIDE DEF piece
  <2> QED
    BY <1>1, <2>3, ResultParts
<1>6. t \notin {"EOS", "INVALID"}
  BY <1>1, ReadType
<1> HIDE DEF t, R0, R1, R2, R3, turn
<1>7. RCURLY # LCURLY /\ "EXTRACT" \notin {LCURLY, RCURLY}
  BY NamesAreApart, Zenon DEF LCURLY, RCURLY
<1>8. turn = IF t = RCURLY THEN R0 ELSE IF t = LCURLY THEN R1 ELSE IF t = "EXTRACT" THEN R2 ELSE R3
  BY <1>2, <1>6, <1>7, Zenon
<1>9. \A p \in {LCURLY, RCURLY, "EXTRACT"} : t = p <=> seq[k] = p
  <2>1. "EXTRACT" \in Keywords
    BY MapFacts
  <2> QED
    BY <1>4, <2>1, AllMarks, Zenon
<1>10. turn = IF seq[k] = RCURLY THEN R0 ELSE IF seq[k] = LCURLY THEN R1
              ELSE IF seq[k] = "EXTRACT" THEN R2 ELSE R3
  BY <1>8, <1>9
<1> QED
  BY <1>3, <1>5, <1>10 DEF R1, R2, turn, CopyOutcome

LEMMA CopyLevel ==
  ASSUME NEW seq, Prepared(seq), NEW n \in Fuel(seq), NEW i \in 1..Len(seq), n + i > Len(seq),
         NEW name \in DOMAIN FunctionMap, NEW l, l = Levels(seq)[n - 1],
         NEW lex \in Lexers
  PROVE  n - 1 \in Fuel(seq) /\ Levels(seq)[n].copy[name][lex] = CopyTurn(seq, l, lex, name)
<1>1. Len(seq) \in Nat
  BY TextPlaces DEF Prepared
<1>2. n \in 1..(Len(seq) + 1) /\ n - 1 \in Fuel(seq)
  BY <1>1 DEF Fuel
<1>3. Levels(seq)[n].copy[name][lex] = CopyTurn(seq, Levels(seq)[n - 1], lex, name)
  BY <1>1, <1>2, LoopTurns
<1> QED
  BY <1>2, <1>3

LEMMA CopyRound ==
  ASSUME NEW seq, Prepared(seq), NEW n \in Fuel(seq), NEW i \in 1..Len(seq), n + i > Len(seq),
         NEW name \in DOMAIN FunctionMap
  PROVE  Levels(seq)[n].copy[name][At(i, TRUE)]
           = CopyOutcome(seq, Levels(seq)[n - 1], name, At(i, TRUE), i, TRUE)
<1> DEFINE e == TRUE
           lex == At(i, TRUE)
<1>1. lex \in Lexers /\ Facing(seq, lex, i, e)
  <2>1. i \in Nat
    OBVIOUS
  <2>2. lex \in Lexers
    BY <2>1, LexersAt, Zenon
  <2>3. Facing(seq, lex, i, e)
    BY <2>1, AtFaces
  <2> QED
    BY <2>2, <2>3
<1> HIDE DEF lex, e
<1>2. Levels(seq)[n].copy[name][lex] = CopyTurn(seq, Levels(seq)[n - 1], lex, name)
  BY <1>1, CopyLevel
<1>3. CopyTurn(seq, Levels(seq)[n - 1], lex, name) = CopyOutcome(seq, Levels(seq)[n - 1], name, lex, i, e)
  BY <1>1, CopyTurns
<1> QED
  BY <1>2, <1>3 DEF lex, e

LEMMA CopyCloses ==
  ASSUME NEW seq, Prepared(seq), NEW n \in Fuel(seq), NEW i \in 1..Len(seq), n + i > Len(seq),
         NEW name \in DOMAIN FunctionMap, seq[i] = RCURLY
  PROVE  Levels(seq)[n].copy[name][At(i, TRUE)] = Result(<<>>, Seeing(seq, i, FALSE))
<1>1. Levels(seq)[n].copy[name][At(i, TRUE)]
        = CopyOutcome(seq, Levels(seq)[n - 1], name, At(i, TRUE), i, TRUE)
  BY CopyRound
<1> QED
  BY <1>1 DEF CopyOutcome

LEMMA CopyClosesAgain ==
  ASSUME NEW seq, Prepared(seq), NEW n \in Fuel(seq), NEW i \in 1..Len(seq), n + i > Len(seq),
         NEW name \in DOMAIN FunctionMap, NEW l, l = Levels(seq)[n - 1],
         seq[i] = RCURLY
  PROVE  Levels(seq)[n].copy[name][Seeing(seq, i, FALSE)] =
           Result(<<>>, Seeing(seq, i, FALSE))
<1> DEFINE e == FALSE
           lex == Seeing(seq, i, FALSE)
<1>1. lex \in Lexers /\ Facing(seq, lex, i, e)
  <2>1. i \in Nat
    OBVIOUS
  <2>2. lex \in Lexers
    BY <2>1, LexersAt, Zenon
  <2>3. Facing(seq, lex, i, e)
    BY <2>1, SeeingFaces
  <2> QED
    BY <2>2, <2>3
<1> HIDE DEF lex, e
<1>2. Levels(seq)[n].copy[name][lex] = CopyTurn(seq, l, lex, name)
  BY <1>1, CopyLevel
<1>3. CopyTurn(seq, l, lex, name) = CopyOutcome(seq, l, name, lex, i, e)
  BY <1>1, CopyTurns
<1>4. RCURLY # LCURLY /\ "EXTRACT" \notin {LCURLY, RCURLY}
  BY NamesAreApart, Zenon DEF LCURLY, RCURLY
<1> QED
  BY <1>2, <1>3, <1>4 DEF lex, e, CopyOutcome

(* The rest of a sequence, up to its brace.                                 *)
CopyAt(seq, name, w, m, i) ==
  \A n \in Fuel(seq), v \in Text : n + i > Len(seq) /\ Words(seq)[i] = w \o (<<RCURLY>> \o v) =>
    \E j \in 1..Len(seq) :
      /\ j >= i /\ WordAt(seq, j, RCURLY, v)
      /\ Yields(Levels(seq)[n].copy[name][At(i, TRUE)], m, Seeing(seq, j, FALSE))

IsCopy(seq, name, w, m) == \A i \in PlacesIn(seq) : CopyAt(seq, name, w, m, i)

LEMMA BraceBehind ==
  ASSUME NEW v \in Text
  PROVE  <<RCURLY>> \o v \in Text /\ <<RCURLY>> \in Text /\ RCURLY \in Pieces
         /\ \A w \in Text : w \o (<<RCURLY>> \o v) \in Text /\ w \o (<<RCURLY>> \o v) # <<>>
<1>1. RCURLY \in Pieces /\ <<RCURLY>> \in Text
  BY AllMarks, MarkFacts, TextClosed
<1>2. <<RCURLY>> \o v \in Text /\ Len(<<RCURLY>> \o v) = Len(v) + 1 /\ Len(v) \in Nat
  BY <1>1, TextClosed, TextCons, TextPlaces
<1> DEFINE b == <<RCURLY>> \o v
<1> HIDE DEF b
<1>3. b \in Text /\ Len(b) # 0
  BY <1>2 DEF b
<1>4. \A w \in Text : w \o b \in Text
  BY <1>3, TextClosed
<1>5. \A w \in Text : w \o b # <<>>
  <2> SUFFICES ASSUME NEW w \in Text, w \o b = <<>> PROVE FALSE
    OBVIOUS
  <2>1. Len(w \o b) = Len(w) + Len(b) /\ Len(w) \in Nat /\ Len(b) \in Nat
    BY <1>3, TextPlaces
  <2>2. Len(<<>>) = 0
    OBVIOUS
  <2> QED
    BY <1>3, <2>1, <2>2
<1> QED
  BY <1>1, <1>2, <1>4, <1>5 DEF b

LEMMA CopyWithoutBlanks ==
  ASSUME NEW seq, Prepared(seq), NEW name \in DOMAIN FunctionMap, NEW w \in Text, NEW m \in Text,
         \A i \in 1..Len(seq) : seq[i] # SPACE => CopyAt(seq, name, w, m, i)
  PROVE  IsCopy(seq, name, w, m)
<1> DEFINE N == Len(seq)
           S == {i \in 1..(N + 1) : CopyAt(seq, name, w, m, i)}
<1>1. seq \in Text /\ N \in Nat
  BY TextPlaces DEF Prepared
<1>2. N + 1 \in S
  <2>1. \A v \in Text : w \o (<<RCURLY>> \o v) # <<>>
    BY BraceBehind
  <2>2. Words(seq)[N + 1] = <<>>
    BY <1>1, WordsStep
  <2>3. CopyAt(seq, name, w, m, N + 1)
    BY <2>1, <2>2 DEF CopyAt
  <2> QED
    BY <1>1, <2>3
<1>3. ASSUME NEW i \in 1..N, i + 1 \in S PROVE i \in S
  <2>0. i \in 1..(N + 1) /\ i + 1 \in 1..(N + 1) /\ CopyAt(seq, name, w, m, i + 1)
    BY <1>1, <1>3
  <2>1. CASE seq[i] # SPACE
    BY <2>0, <2>1
  <2>2. ASSUME seq[i] = SPACE PROVE CopyAt(seq, name, w, m, i)
    <3> SUFFICES ASSUME NEW n \in Fuel(seq), NEW v \in Text, n + i > Len(seq),
                        Words(seq)[i] = w \o (<<RCURLY>> \o v)
                 PROVE  \E j \in 1..Len(seq) :
                          /\ j >= i /\ WordAt(seq, j, RCURLY, v)
                          /\ Yields(Levels(seq)[n].copy[name][At(i, TRUE)], m, Seeing(seq, j, FALSE))
      BY DEF CopyAt
    <3> DEFINE loops == Levels(seq)[n - 1]
    <3>1. n - 1 \in Fuel(seq) /\ n - 1 + (i + 1) > Len(seq) /\ i \in Nat
      BY <1>1 DEF Fuel
    <3>2. Words(seq)[i + 1] = w \o (<<RCURLY>> \o v)
      BY <1>1, <2>2, WordsStep
    <3>3. PICK j \in 1..Len(seq) :
            /\ j >= i + 1 /\ WordAt(seq, j, RCURLY, v)
            /\ Yields(loops.copy[name][At(i + 1, TRUE)], m, Seeing(seq, j, FALSE))
      BY <2>0, <3>1, <3>2 DEF CopyAt
    <3> HIDE DEF loops
    <3>4. Levels(seq)[n].copy[name][At(i, TRUE)] = After(<<SPACE>>, loops.copy[name][At(i + 1, TRUE)])
      <4>3. SPACE \notin {LCURLY, RCURLY, "EXTRACT"} /\ Copied(name, SPACE) = SPACE
        <5>1. SPACE \notin Keywords
          BY AllMarks, MarkFacts
        <5>2. SPACE \notin DOMAIN LiteralMap /\ "EXTRACT" \in Keywords
          BY <5>1, MapFacts
        <5> QED
          BY <5>1, <5>2, NamesAreApart DEF Copied
      <4>4. Levels(seq)[n].copy[name][At(i, TRUE)]
              = CopyOutcome(seq, Levels(seq)[n - 1], name, At(i, TRUE), i, TRUE)
        BY <1>1, CopyRound
      <4> QED
        BY <2>2, <4>3, <4>4 DEF CopyOutcome, loops
    <3>5. <<SPACE>> \in Text
      BY AllMarks, MarkFacts, TextClosed
    <3>6. Yields(Levels(seq)[n].copy[name][At(i, TRUE)], WithoutSpaces(<<SPACE>>) \o m, Seeing(seq, j, FALSE))
      BY <3>3, <3>4, <3>5, YieldsAfter
    <3>7. Yields(Levels(seq)[n].copy[name][At(i, TRUE)], m, Seeing(seq, j, FALSE))
      BY <3>6, SpaceDropped
    <3>8. j >= i
      BY <3>3
    <3> QED
      BY <3>3, <3>7, <3>8
  <2> QED
    BY <2>0, <2>1, <2>2
<1>4. 1..(N + 1) \subseteq S
  <2> HIDE DEF S, N
  <2> QED
    BY <1>1, <1>2, <1>3, DownwardInduction
<1> QED
  BY <1>4 DEF IsCopy, PlacesIn

LEMMA CopyEnds ==
  ASSUME NEW seq, Prepared(seq), NEW name \in DOMAIN FunctionMap
  PROVE  IsCopy(seq, name, <<>>, <<>>)
<1> DEFINE w == <<>>
<1>1. w \in Text
  BY TextClosed
<1>1a. \A v \in Text : w \o (<<RCURLY>> \o v) = <<RCURLY>> \o v
  BY BraceBehind, TextEmpty
<1>1b. WithoutSpaces(w) = w
  BY WithoutSpacesPiece
<1> HIDE DEF w
<1>2. ASSUME NEW i \in 1..Len(seq), seq[i] # SPACE PROVE CopyAt(seq, name, w, w, i)
  <2> SUFFICES ASSUME NEW n \in Fuel(seq), NEW v \in Text, n + i > Len(seq),
                      Words(seq)[i] = w \o (<<RCURLY>> \o v)
               PROVE  \E j \in 1..Len(seq) :
                        /\ j >= i /\ WordAt(seq, j, RCURLY, v)
                        /\ Yields(Levels(seq)[n].copy[name][At(i, TRUE)], w, Seeing(seq, j, FALSE))
    BY DEF CopyAt
  <2>1. Words(seq)[i] = <<RCURLY>> \o v
    BY <1>1a
  <2>2. WordAt(seq, i, RCURLY, v)
    BY <1>2, <2>1, BraceBehind, WordHere
  <2>4. Levels(seq)[n].copy[name][At(i, TRUE)] = Result(<<>>, Seeing(seq, i, FALSE))
    BY <2>2, CopyCloses DEF WordAt
  <2>5. Yields(Result(w, Seeing(seq, i, FALSE)), WithoutSpaces(w), Seeing(seq, i, FALSE))
    BY <1>1, YieldsResult, Zenon
  <2>6. i >= i
    OBVIOUS
  <2> QED
    BY <1>1b, <2>2, <2>4, <2>5, <2>6 DEF w
<1>3. IsCopy(seq, name, w, w)
  BY <1>1, <1>2, CopyWithoutBlanks
<1> QED
  BY <1>3 DEF w

LEMMA CopiedFacts ==
  ASSUME NEW name, NEW p \in Pieces, p # SPACE
  PROVE  Copied(name, p) \in Pieces /\ Copied(name, p) # SPACE
BY MapFacts DEF Copied

LEMMA CopyCopies ==
  ASSUME NEW seq, Prepared(seq), NEW name \in DOMAIN FunctionMap,
         NEW p \in Pieces, p \notin {LCURLY, RCURLY, "EXTRACT"}, p # SPACE,
         NEW w \in Text, NEW m \in Text, IsCopy(seq, name, w, m)
  PROVE  IsCopy(seq, name, <<p>> \o w, <<Copied(name, p)>> \o m)
<1> DEFINE x == <<p>> \o w
           c == Copied(name, p)
           y == <<c>> \o m
<1>1. seq \in Text /\ Len(seq) \in Nat
  BY TextPlaces DEF Prepared
<1>2. c \in Pieces /\ c # SPACE
  BY CopiedFacts
<1> HIDE DEF c
<1>3. <<c>> \in Text /\ x \in Text /\ y \in Text
  BY <1>2, TextClosed
<1>4. ASSUME NEW i \in 1..Len(seq), seq[i] # SPACE PROVE CopyAt(seq, name, x, y, i)
  <2> SUFFICES ASSUME NEW n \in Fuel(seq), NEW v \in Text, n + i > Len(seq),
                      Words(seq)[i] = x \o (<<RCURLY>> \o v)
               PROVE  \E j \in 1..Len(seq) :
                        /\ j >= i /\ WordAt(seq, j, RCURLY, v)
                        /\ Yields(Levels(seq)[n].copy[name][At(i, TRUE)], y, Seeing(seq, j, FALSE))
    BY DEF CopyAt
  <2> DEFINE u == <<RCURLY>> \o v
             loops == Levels(seq)[n - 1]
  <2>1. u \in Text /\ Words(seq)[i] = x \o u
    BY BraceBehind
  <2>2. Words(seq)[i] = <<p>> \o (w \o u) /\ w \o u \in Text
    <3> HIDE DEF u
    <3> QED
      BY <2>1, WordAhead
  <2>3. WordAt(seq, i, p, w \o u)
    <3> HIDE DEF u
    <3> QED
      BY <1>4, <2>2, WordHere
  <2>4. seq[i] = p /\ Words(seq)[i + 1] = w \o u
    BY <2>3 DEF WordAt
  <2>5. i + 1 \in PlacesIn(seq) /\ n - 1 \in Fuel(seq) /\ n - 1 + (i + 1) > Len(seq)
    BY <1>1 DEF Fuel, PlacesIn
  <2>6. PICK j \in 1..Len(seq) :
          /\ j >= i + 1 /\ WordAt(seq, j, RCURLY, v)
          /\ Yields(loops.copy[name][At(i + 1, TRUE)], m, Seeing(seq, j, FALSE))
    BY <2>4, <2>5 DEF IsCopy, CopyAt
  <2>7. Levels(seq)[n].copy[name][At(i, TRUE)]
          = CopyOutcome(seq, Levels(seq)[n - 1], name, At(i, TRUE), i, TRUE)
    BY CopyRound
  <2>8. Levels(seq)[n].copy[name][At(i, TRUE)] = After(<<c>>, loops.copy[name][At(i + 1, TRUE)])
    BY <2>4, <2>7 DEF CopyOutcome, c
  <2> HIDE DEF loops
  <2>9. Yields(Levels(seq)[n].copy[name][At(i, TRUE)], WithoutSpaces(<<c>>) \o m, Seeing(seq, j, FALSE))
    BY <1>3, <2>6, <2>8, YieldsAfter
  <2>10. WithoutSpaces(<<c>>) = <<c>>
    BY <1>2, WordStays
  <2>11. Yields(Levels(seq)[n].copy[name][At(i, TRUE)], y, Seeing(seq, j, FALSE))
    BY <2>9, <2>10, Zenon
  <2>12. j >= i
    BY <2>6
  <2> HIDE DEF y
  <2> QED
    BY <2>6, <2>11, <2>12
<1> QED
  BY <1>3, <1>4, CopyWithoutBlanks DEF c

LEMMA CopyNests ==
  ASSUME NEW seq, Prepared(seq), NEW name \in DOMAIN FunctionMap,
         NEW a \in Text, NEW c \in Text, IsSequence(seq, a, c),
         NEW w \in Text, NEW m \in Text, IsCopy(seq, name, w, m)
  PROVE  IsCopy(seq, name, a \o w, c \o m)
<1> DEFINE x == a \o w
           y == c \o m
<1>1. seq \in Text /\ Len(seq) \in Nat
  BY TextPlaces DEF Prepared
<1>2. PICK r \in Text : a = <<LCURLY>> \o r
  BY DEF IsSequence, Starting
<1>3. x \in Text /\ y \in Text /\ LCURLY \in Pieces
  BY AllMarks, MarkFacts, TextClosed
<1>3a. \A b \in Text : x \o b = a \o (w \o b)
  BY TextAssoc
<1>4. ASSUME NEW i \in 1..Len(seq), seq[i] # SPACE PROVE CopyAt(seq, name, x, y, i)
  <2> SUFFICES ASSUME NEW n \in Fuel(seq), NEW v \in Text, n + i > Len(seq),
                      Words(seq)[i] = x \o (<<RCURLY>> \o v)
               PROVE  \E j \in 1..Len(seq) :
                        /\ j >= i /\ WordAt(seq, j, RCURLY, v)
                        /\ Yields(Levels(seq)[n].copy[name][At(i, TRUE)], y, Seeing(seq, j, FALSE))
    BY DEF CopyAt
  <2> DEFINE b == <<RCURLY>> \o v
             u == w \o b
             loops == Levels(seq)[n - 1]
             nested == NestedSequence(seq, loops, At(i, TRUE))
  <2>1. b \in Text /\ Words(seq)[i] = x \o b
    BY BraceBehind
  <2>2. u \in Text /\ Words(seq)[i] = a \o u
    <3> HIDE DEF b
    <3>1. u \in Text
      BY <2>1, TextClosed
    <3>2. x \o b = a \o u
      BY <1>3a, <2>1
    <3> QED
      BY <2>1, <3>1, <3>2
  <2> HIDE DEF u
  <2>3. r \o u \in Text /\ Words(seq)[i] = <<LCURLY>> \o (r \o u)
    BY <1>2, <1>3, <2>2, WordAhead
  <2>4. seq[i] = LCURLY
    <3>1. WordAt(seq, i, LCURLY, r \o u)
      BY <1>3, <1>4, <2>3, WordHere
    <3> QED
      BY <3>1 DEF WordAt
  <2>5. n - 1 \in Fuel(seq) /\ n - 1 + i >= Len(seq) /\ i \in Nat
    BY <1>1 DEF Fuel
  <2>6. PICK j0 \in PlacesIn(seq) : j0 > i /\ Words(seq)[j0] = u /\ Yields(nested, c, At(j0, TRUE))
    <3>1. SetEmitSpaces(At(i, TRUE), FALSE) = At(i, FALSE)
      BY SpacesOfLexers, Zenon
    <3>2. First(seq, i) = i
      <4>1. i \in 1..(Len(seq) + 1) /\ i <= Len(seq)
        BY <1>1
      <4> QED
        BY <1>1, <1>4, <4>1, FirstFacts
    <3>3. Facing(seq, SetEmitSpaces(At(i, TRUE), FALSE), i, FALSE)
      BY <2>5, <3>1, <3>2, AtFaces
    <3>4. IsNested(seq, a, c)
      BY SequenceNests
    <3> QED
      BY <3>4, <1>4, <2>2, <2>5, <3>3 DEF IsNested
  <2>7. n - 1 + j0 > Len(seq)
    BY <1>1, <2>5, <2>6 DEF Fuel, PlacesIn
  <2>8. PICK j \in 1..Len(seq) :
          /\ j >= j0 /\ WordAt(seq, j, RCURLY, v)
          /\ Yields(loops.copy[name][At(j0, TRUE)], m, Seeing(seq, j, FALSE))
    BY <2>5, <2>6, <2>7 DEF IsCopy, CopyAt, u
  <2>9. nested.lex = At(j0, TRUE)
    BY <2>6, YieldsParts
  <2>10. Levels(seq)[n].copy[name][At(i, TRUE)] = After(nested.out, loops.copy[name][nested.lex])
    <3>1. Levels(seq)[n].copy[name][At(i, TRUE)]
            = CopyOutcome(seq, Levels(seq)[n - 1], name, At(i, TRUE), i, TRUE)
      BY CopyRound
    <3>2. LCURLY # RCURLY
      BY NamesAreApart
    <3> QED
      BY <2>4, <3>1, <3>2 DEF CopyOutcome
  <2> HIDE DEF nested, loops
  <2>11. Yields(Levels(seq)[n].copy[name][At(i, TRUE)], c \o m, Seeing(seq, j, FALSE))
    BY <2>6, <2>8, <2>9, <2>10, YieldsThen
  <2>12. j >= i
    BY <2>6, <2>8 DEF PlacesIn
  <2> QED
    BY <2>8, <2>11, <2>12
<1> QED
  BY <1>3, <1>4, CopyWithoutBlanks

(* EXTRACT is a call of its own, which copies the rest. The loop that it is  *)
(* called from finds the brace that it stopped at.                          *)
LEMMA CopyExtracts ==
  ASSUME NEW seq, Prepared(seq), NEW name \in DOMAIN FunctionMap,
         NEW w \in Text, NEW m \in Text, IsCopy(seq, "EXTRACT", w, m)
  PROVE  IsCopy(seq, name, <<"EXTRACT">> \o w, <<"EXTRACT">> \o m)
<1> DEFINE p == "EXTRACT"
           x == <<p>> \o w
           y == <<p>> \o m
<1>1. seq \in Text /\ Len(seq) \in Nat
  BY TextPlaces DEF Prepared
<1>2. /\ p \in Pieces /\ p # SPACE /\ p \in Keywords /\ p \notin {LCURLY, RCURLY}
      /\ p \in DOMAIN FunctionMap \ {"TIMESTAMPADD"} /\ FunctionMap[p] = p
  <2>1. p \in Keywords /\ p \in DOMAIN FunctionMap /\ FunctionMap[p] = p
    BY MapFacts
  <2>2. p \in Pieces
    BY <2>1, LexerAssumption, Zenon
  <2>3. p # SPACE /\ p \notin {LCURLY, RCURLY}
    BY <2>1, AllMarks, NamesAreApart, Zenon
  <2> QED
    BY <2>1, <2>2, <2>3
<1>3. x \in Text /\ y \in Text /\ <<p>> \in Text
  BY <1>2, TextClosed
<1>4. IsCopy(seq, p, w, m)
  OBVIOUS
<1> HIDE DEF p
<1>5. ASSUME NEW i \in 1..Len(seq), seq[i] # SPACE PROVE CopyAt(seq, name, x, y, i)
  <2> SUFFICES ASSUME NEW n \in Fuel(seq), NEW v \in Text, n + i > Len(seq),
                      Words(seq)[i] = x \o (<<RCURLY>> \o v)
               PROVE  \E j \in 1..Len(seq) :
                        /\ j >= i /\ WordAt(seq, j, RCURLY, v)
                        /\ Yields(Levels(seq)[n].copy[name][At(i, TRUE)], y, Seeing(seq, j, FALSE))
    BY DEF CopyAt
  <2> DEFINE u == <<RCURLY>> \o v
             loops == Levels(seq)[n - 1]
             call == Function(seq, loops, At(i, TRUE))
  <2>1. u \in Text /\ Words(seq)[i] = x \o u
    BY BraceBehind
  <2>2. Words(seq)[i] = <<p>> \o (w \o u) /\ w \o u \in Text
    <3> HIDE DEF u
    <3> QED
      BY <1>2, <2>1, WordAhead
  <2>3. WordAt(seq, i, p, w \o u)
    <3> HIDE DEF u
    <3> QED
      BY <1>2, <1>5, <2>2, WordHere
  <2>4. seq[i] = p /\ Words(seq)[i + 1] = w \o u
    BY <2>3 DEF WordAt
  <2>5. i + 1 \in PlacesIn(seq) /\ n - 1 \in Fuel(seq) /\ n - 1 + (i + 1) > Len(seq) /\ i \in Nat
    BY <1>1 DEF Fuel, PlacesIn
  <2>6. PICK j \in 1..Len(seq) :
          /\ j >= i + 1 /\ WordAt(seq, j, RCURLY, v)
          /\ Yields(loops.copy[p][At(i + 1, TRUE)], m, Seeing(seq, j, FALSE))
    BY <1>4, <2>4, <2>5 DEF IsCopy, CopyAt
  <2> HIDE DEF loops
  <2>7. call = After(<<p>>, loops.copy[p][At(i + 1, TRUE)])
    <3> DEFINE e == TRUE
    <3>1. Facing(seq, At(i, e), i, e)
      BY <2>5, AtFaces
    <3> HIDE DEF e
    <3>2. Function(seq, loops, At(i, e)) = Named(seq, loops, seq[i], At(i + 1, e))
      BY <1>2, <2>4, <3>1, FunctionNamed
    <3>3. Named(seq, loops, p, At(i + 1, e)) = RenamedCall(loops, p, At(i + 1, e))
      BY <1>2, CallRenamed
    <3>4. Named(seq, loops, p, At(i + 1, e)) = After(<<p>>, loops.copy[p][SetEmitSpaces(At(i + 1, e), TRUE)])
      BY <1>2, <3>3 DEF RenamedCall
    <3>5. SetEmitSpaces(At(i + 1, e), TRUE) = At(i + 1, TRUE)
      BY SpacesOfLexers, Zenon
    <3> QED
      BY <2>4, <3>2, <3>4, <3>5 DEF e
  <2>8. Yields(call, WithoutSpaces(<<p>>) \o m, Seeing(seq, j, FALSE))
    BY <1>3, <2>6, <2>7, YieldsAfter
  <2>9. WithoutSpaces(<<p>>) = <<p>>
    BY <1>2, WordStays
  <2> HIDE DEF call
  <2>10. Levels(seq)[n].copy[name][At(i, TRUE)] = After(call.out, loops.copy[name][call.lex])
    <3>1. Levels(seq)[n].copy[name][At(i, TRUE)]
            = CopyOutcome(seq, Levels(seq)[n - 1], name, At(i, TRUE), i, TRUE)
      BY CopyRound
    <3> QED
      BY <1>2, <2>4, <3>1 DEF CopyOutcome, p, call, loops
  <2>11. call.lex = Seeing(seq, j, FALSE) /\ call.out \in Text /\ WithoutSpaces(call.out) = y
    BY <2>8, <2>9, YieldsParts
  <2>12. loops.copy[name][Seeing(seq, j, FALSE)] = Result(<<>>, Seeing(seq, j, FALSE))
    <3>1. n - 1 + j > Len(seq) /\ seq[j] = RCURLY
      BY <1>1, <2>5, <2>6 DEF WordAt, Fuel
    <3> QED
      BY <2>5, <2>6, <3>1, CopyClosesAgain DEF loops
  <2>13. Yields(loops.copy[name][Seeing(seq, j, FALSE)], WithoutSpaces(<<>>), Seeing(seq, j, FALSE))
    BY <2>12, TextClosed, YieldsResult
  <2>14. Yields(Levels(seq)[n].copy[name][At(i, TRUE)], y \o WithoutSpaces(<<>>), Seeing(seq, j, FALSE))
    BY <2>10, <2>11, <2>13, YieldsAfter
  <2>15. y \o WithoutSpaces(<<>>) = y
    BY <1>3, WithoutSpacesPiece, TextEmpty
  <2>16. j >= i
    BY <2>6
  <2> QED
    BY <2>6, <2>14, <2>15, <2>16
<1>6. IsCopy(seq, name, x, y)
  BY <1>3, <1>5, CopyWithoutBlanks
<1> QED
  BY <1>6 DEF p

-----------------------------------------------------------------------------
(* The token behind the next one.                                           *)
SecondAt(seq, k, e) == IF e THEN k + 1 ELSE First(seq, k + 1)

LEMMA TwoSeen ==
  ASSUME NEW seq, Prepared(seq), NEW k \in 1..Len(seq), NEW e \in BOOLEAN,
         SecondAt(seq, k, e) \in 1..Len(seq)
  PROVE  /\ Second(seq, Seeing(seq, k, e)) = TokenOn(seq, SecondAt(seq, k, e))
         /\ Consume(seq, TwoAhead(seq, Seeing(seq, k, e))) = Seeing(seq, SecondAt(seq, k, e), e)
<1> DEFINE s == Seeing(seq, k, e)
           g == SecondAt(seq, k, e)
           a == TokenOn(seq, k)
           b == TokenOn(seq, g)
           two == [at |-> g + 1, emitSpace |-> e, ahead |-> <<a, b>>]
<1>1. s.at = k + 1 /\ s.emitSpace = e /\ s.ahead = <<a>>
  BY DEF Seeing
<1>2. Ahead(seq, s) = s
  BY SeeingFaces DEF Facing
<1>3. NextToken(seq, k + 1, e) = b
  <2>1. CASE e = TRUE
    BY <2>1, NextTokenFrom, TokenOfPiece DEF SecondAt
  <2>2. CASE e = FALSE
    BY <2>2, NextTokenFrom, TokenOfPiece DEF SecondAt
  <2> QED
    BY <2>1, <2>2
<1>4. b.next = g + 1
  BY DEF TokenOn
<1>5. two.at = g + 1 /\ two.emitSpace = e /\ two.ahead = <<a, b>>
  OBVIOUS
<1> HIDE DEF s, g, a, b
<1>6. ReadOne(s, b) = two
  <2>1. Append(s.ahead, b) = <<a, b>>
    BY <1>1, TwoTokens
  <2>2. ReadOne(s, b) = [at |-> b.next, emitSpace |-> s.emitSpace, ahead |-> Append(s.ahead, b)]
    BY DEF ReadOne
  <2> QED
    BY <1>1, <1>4, <2>1, <2>2
<1>7. TwoAhead(seq, s) = two
  <2>1. ~(Len(s.ahead) >= 2)
    BY <1>1, TwoTokens
  <2> QED
    BY <1>1, <1>2, <1>3, <1>6, <2>1 DEF TwoAhead, AtLeast
<1>8. Second(seq, s) = b
  <2> HIDE DEF two
  <2> QED
    BY <1>5, <1>7, TwoTokens DEF Second
<1>9. Ahead(seq, two) = two
  <2> HIDE DEF two
  <2>1. Len(two.ahead) >= 1
    BY <1>5, TwoTokens
  <2> QED
    BY <2>1 DEF Ahead, AtLeast
<1>10. WithoutFirst(two) = Seeing(seq, g, e)
  <2>1. Tail(<<a, b>>) = <<b>>
    BY TwoTokens
  <2>2. [two EXCEPT !.ahead = Tail(@)] = [at |-> g + 1, emitSpace |-> e, ahead |-> <<b>>]
    BY <2>1
  <2> QED
    BY <2>2 DEF WithoutFirst, Seeing, b
<1>11. Consume(seq, TwoAhead(seq, s)) = Seeing(seq, g, e)
  <2> HIDE DEF two
  <2> QED
    BY <1>7, <1>9, <1>10 DEF Consume
<1> QED
  BY <1>8, <1>11 DEF s, g, b

-----------------------------------------------------------------------------
(* What processIdentOrFunction does at a piece.                              *)
ArgumentOutcome(seq, l, k, e) ==
  IF seq[k] = LCURLY THEN Behind(seq, <<>>, NestedSequence(seq, l, Seeing(seq, k, e)))
  ELSE IF seq[k] \in DOMAIN FunctionMap
  THEN Behind(seq, <<FunctionMap[seq[k]]>>, Parentheses(seq, l, At(k + 1, e)))
  ELSE IF seq[k] = LPARENT THEN Behind(seq, <<>>, Parentheses(seq, l, Seeing(seq, k, e)))
  ELSE IF Type(seq[k]) = "IDENT"
  THEN IF Second(seq, Seeing(seq, k, e)).type = LPARENT
       THEN Behind(seq, <<seq[k]>>, Parentheses(seq, l, Consume(seq, TwoAhead(seq, Seeing(seq, k, e)))))
       ELSE Behind(seq, <<seq[k]>>, Result(<<>>, Consume(seq, TwoAhead(seq, Seeing(seq, k, e)))))
  ELSE Behind(seq, <<seq[k]>>, Result(<<>>, At(k + 1, e)))

LEMMA ArgumentTurns ==
  ASSUME NEW seq, Prepared(seq), NEW l, NEW k \in 1..Len(seq), NEW e \in BOOLEAN,
         \/ seq[k] \in {LCURLY, LPARENT} \cup DOMAIN FunctionMap
         \/ Type(seq[k]) \in {"IDENT", "NUMBER", "STRING"}
  PROVE  IdentOrFunctionAt(seq, l, Seeing(seq, k, e)) = ArgumentOutcome(seq, l, k, e)
<1> DEFINE s == Seeing(seq, k, e)
           t == Peek(seq, s).type
           x == Peek(seq, s).text
           two == TwoAhead(seq, s)
           Second2 == Second(seq, s).type
           Call(name, lex) == Behind(seq, name, Parentheses(seq, l, Consume(seq, lex)))
           R1 == Behind(seq, <<>>, NestedSequence(seq, l, s))
           R2 == Call(<<FunctionMap[t]>>, s)
           R3 == Behind(seq, <<>>, Parentheses(seq, l, s))
           R4 == Call(x, two)
           R5 == Behind(seq, x, Result(<<>>, Consume(seq, two)))
           R6 == Behind(seq, x, Result(<<>>, Consume(seq, s)))
           R7 == Result(<<"now", LPARENT, RPARENT>>, s)
           R8 == Result(<<>>, s)
           F == DOMAIN FunctionMap
           turn == IdentOrFunctionAt(seq, l, s)
<1>1. turn = CASE t = LCURLY -> R1
               [] t \in F -> R2
               [] t = LPARENT -> R3
               [] t = "IDENT" /\ Second2 = LPARENT -> R4
               [] t = "IDENT" /\ Second2 # LPARENT -> R5
               [] t \in {"NUMBER", "STRING"} -> R6
               [] t = "CURRENT_TIMESTAMP" -> R7
               [] OTHER -> R8
  BY DEF IdentOrFunctionAt
<1>2. t = Type(seq[k]) /\ x = <<seq[k]>> /\ Consume(seq, s) = At(k + 1, e)
  BY SeeingFaces, FacingFacts
<1>3. \A p \in Delimiters \cup Keywords : t = p <=> seq[k] = p
  BY <1>2, ReadType
<1>4. F \subseteq Keywords
  BY MapFacts
<1>5. t \in F <=> seq[k] \in F
  BY <1>3, <1>4
<1>5a. t \in F => t = seq[k]
  BY <1>3, <1>4
<1>6. (t = LCURLY <=> seq[k] = LCURLY) /\ (t = LPARENT <=> seq[k] = LPARENT)
  BY <1>3, AllMarks
<1>7. /\ LCURLY \notin F /\ LPARENT \notin F /\ LCURLY # LPARENT
      /\ {"IDENT", "NUMBER", "STRING"} \cap (F \cup {LCURLY, LPARENT}) = {}
  <2>1. LCURLY \notin Keywords /\ LPARENT \notin Keywords /\ LCURLY # LPARENT
    BY AllMarks, NamesAreApart, Zenon
  <2>2. {"IDENT", "NUMBER", "STRING"} \subseteq Kinds
    BY DEF Kinds
  <2>3. Kinds \cap (Delimiters \cup Keywords) = {}
    BY NamesAreApart
  <2> HIDE DEF F
  <2> QED
    BY <1>4, <2>1, <2>2, <2>3, AllMarks
<1>7a. "CURRENT_TIMESTAMP" \in Keywords /\ "CURRENT_TIMESTAMP" \notin F
  BY MapFacts, Zenon DEF Keywords
<1>8. R2 = Behind(seq, <<FunctionMap[t]>>, Parentheses(seq, l, At(k + 1, e)))
  BY <1>2
<1>9. R6 = Behind(seq, <<seq[k]>>, Result(<<>>, At(k + 1, e)))
  BY <1>2
<1>10. /\ R4 = Behind(seq, <<seq[k]>>, Parentheses(seq, l, Consume(seq, two)))
       /\ R5 = Behind(seq, <<seq[k]>>, Result(<<>>, Consume(seq, two)))
  BY <1>2
<1>11. t \in {LCURLY, LPARENT} \cup F \/ t \in {"IDENT", "NUMBER", "STRING"}
  BY <1>2, <1>5, <1>6
<1>12. turn = IF t = LCURLY THEN R1 ELSE IF t \in F THEN R2 ELSE IF t = LPARENT THEN R3
              ELSE IF t = "IDENT" THEN IF Second2 = LPARENT THEN R4 ELSE R5 ELSE R6
  <2> HIDE DEF turn, t, F, R1, R2, R3, R4, R5, R6, R7, R8, Second2
  <2>1. CASE t = LCURLY
    <3>1. t \notin F /\ t \notin {"IDENT", "NUMBER", "STRING"} /\ t # "CURRENT_TIMESTAMP" /\ t # LPARENT
      BY <1>7, <1>7a, <2>1, AllMarks, NamesAreApart, Zenon
    <3> QED
      BY <1>1, <2>1, <3>1
  <2>2. CASE t \in F
    BY <1>1, <1>7, <1>7a, <2>2
  <2>3. CASE t = LPARENT
    <3>1. t \notin F /\ t \notin {"IDENT", "NUMBER", "STRING"} /\ t # "CURRENT_TIMESTAMP" /\ t # LCURLY
      BY <1>7, <1>7a, <2>3, AllMarks, NamesAreApart, Zenon
    <3> QED
      BY <1>1, <2>3, <3>1, Zenon
  <2>4. CASE t = "IDENT"
    BY <1>1, <1>7, <2>4
  <2>5. CASE t \in {"NUMBER", "STRING"}
    BY <1>1, <1>7, <2>5
  <2> QED
    BY <1>11, <2>1, <2>2, <2>3, <2>4, <2>5
<1>13. turn = IF seq[k] = LCURLY THEN R1 ELSE IF seq[k] \in F
              THEN Behind(seq, <<FunctionMap[seq[k]]>>, Parentheses(seq, l, At(k + 1, e)))
              ELSE IF seq[k] = LPARENT THEN R3
              ELSE IF Type(seq[k]) = "IDENT" THEN IF Second2 = LPARENT THEN R4 ELSE R5 ELSE R6
  <2> HIDE DEF turn, t, F, R1, R2, R3, R4, R5, R6, R7, R8, Second2
  <2> QED
    BY <1>2, <1>5, <1>5a, <1>6, <1>8, <1>12
<1> HIDE DEF turn, R2, R4, R5, R6
<1> QED
  BY <1>9, <1>10, <1>13 DEF ArgumentOutcome, turn

LEMMA BehindYields ==
  ASSUME NEW seq, NEW name \in Text, NEW part, NEW m, NEW lex, NEW s, Yields(part, m, lex),
         SkipSpaces(seq, lex) = s
  PROVE  Yields(Behind(seq, name, part), WithoutSpaces(name) \o m, s)
<1>1. PICK written \in Text : part = Result(written, lex) /\ WithoutSpaces(written) = m
  BY DEF Yields
<1>2. Behind(seq, name, part) = Result(name \o written, s)
  BY <1>1, ResultParts DEF Behind
<1>3. name \o written \in Text
  BY TextClosed
<1>4. WithoutSpaces(name \o written) = WithoutSpaces(name) \o m
  BY <1>1, WithoutSpacesConcat
<1> QED
  BY <1>2, <1>3, <1>4 DEF Yields

(* What it takes to say that the code reads the phrase w as an argument: it  *)
(* stops before the comma or the parenthesis that follows, wherever blanks  *)
(* stand.                                                                   *)
ReadsAs(seq, part, m, k, c, v) ==
  \E j \in 1..Len(seq), d \in BOOLEAN : j > k /\ WordAt(seq, j, c, v) /\ Yields(part, m, Seeing(seq, j, d))

Ends == {COMMA, RPARENT}

Begins(w) == \E p \in Pieces : Starting(p, w)

IsArgument(seq, w, m) ==
  /\ Begins(w) /\ m # <<>>
  /\ \A n \in Fuel(seq), k \in 1..Len(seq), e \in BOOLEAN, c \in Ends, v \in Text :
       seq[k] # SPACE /\ n + k >= Len(seq) /\ Words(seq)[k] = w \o (<<c>> \o v) =>
         ReadsAs(seq, IdentOrFunctionAt(seq, Levels(seq)[n], Seeing(seq, k, e)), m, k, c, v)

LEMMA EndFacts ==
  ASSUME NEW c \in Ends, NEW v \in Text
  PROVE  c \in Pieces /\ c # SPACE /\ c # LPARENT /\ c \in Delimiters /\ <<c>> \o v \in Text
<1>1. c \in Delimiters /\ c # SPACE /\ c # LPARENT
  BY AllMarks, NamesAreApart DEF Ends
<1>2. c \in Pieces
  BY <1>1, MarkFacts
<1> QED
  BY <1>1, <1>2, TextClosed

(* How an argument that a group or a sequence ends goes on.                 *)
LEMMA ReadsBehind ==
  ASSUME NEW seq, Prepared(seq), NEW name \in Text, NEW part, NEW m \in Text,
         NEW i \in PlacesIn(seq),
         NEW k \in 1..Len(seq), i > k,
         NEW c \in Ends, NEW v \in Text, Words(seq)[i] = <<c>> \o v,
         Yields(part, m, At(i, TRUE))
  PROVE  ReadsAs(seq, Behind(seq, name, part), WithoutSpaces(name) \o m, k, c, v)
<1>1. Len(seq) \in Nat /\ i \in 1..(Len(seq) + 1) /\ c \in Pieces
  BY TextPlaces, EndFacts DEF Prepared, PlacesIn
<1> DEFINE j == First(seq, i)
           e == TRUE
<1>2. j \in i..Len(seq) /\ WordAt(seq, j, c, v)
  BY <1>1, NextWord
<1>3. SkipSpaces(seq, At(i, e)) = Seeing(seq, j, e)
  BY <1>1, NextWord
<1>4. Yields(part, m, At(i, e))
  OBVIOUS
<1>5. e \in BOOLEAN
  OBVIOUS
<1> HIDE DEF j, e
<1>6. Yields(Behind(seq, name, part), WithoutSpaces(name) \o m, Seeing(seq, j, e))
  BY <1>3, <1>4, BehindYields
<1>7. j \in 1..Len(seq) /\ j > k
  BY <1>1, <1>2
<1> QED
  BY <1>2, <1>5, <1>6, <1>7 DEF ReadsAs

(* An argument that is a group or a sequence.                               *)
LEMMA GroupIsArgument ==
  ASSUME NEW seq, Prepared(seq), NEW w \in Text, NEW m \in Text, IsGroup(seq, w, m)
  PROVE  IsArgument(seq, w, m)
<1>1. seq \in Text /\ Len(seq) \in Nat
  BY TextPlaces DEF Prepared
<1>2. PICK r \in Text : w = <<LPARENT>> \o r
  BY DEF IsGroup, Starting
<1>3. m # <<>> /\ LPARENT \in Pieces /\ <<>> \in Text /\ WithoutSpaces(<<>>) \o m = m
  BY AllMarks, MarkFacts, TextClosed, WithoutSpacesPiece, TextEmpty DEF IsGroup
<1>4. ASSUME NEW n \in Fuel(seq), NEW k \in 1..Len(seq), NEW e \in BOOLEAN, NEW c \in Ends,
             NEW v \in Text, seq[k] # SPACE, n + k >= Len(seq), Words(seq)[k] = w \o (<<c>> \o v)
      PROVE  ReadsAs(seq, IdentOrFunctionAt(seq, Levels(seq)[n], Seeing(seq, k, e)), m, k, c, v)
  <2> DEFINE u == <<c>> \o v
             loops == Levels(seq)[n]
             part == Parentheses(seq, loops, Seeing(seq, k, e))
  <2>1. u \in Text
    BY EndFacts
  <2>2. seq[k] = LPARENT
    <3> HIDE DEF u
    <3>1. r \o u \in Text /\ Words(seq)[k] = <<LPARENT>> \o (r \o u)
      BY <1>2, <1>3, <1>4, <2>1, WordAhead DEF u
    <3>2. WordAt(seq, k, LPARENT, r \o u)
      BY <1>3, <1>4, <3>1, WordHere
    <3> QED
      BY <3>2 DEF WordAt
  <2>3. PICK i \in PlacesIn(seq) : i > k /\ Words(seq)[i] = u /\ Yields(part, m, At(i, TRUE))
    <3> DEFINE lex == Seeing(seq, k, e)
               t == TRUE
    <3>1. SetEmitSpaces(lex, t) = Seeing(seq, k, t)
      BY SpacesOfLexers, Zenon
    <3>2. t \in BOOLEAN
      OBVIOUS
    <3> HIDE DEF t
    <3>3. Facing(seq, Seeing(seq, k, t), k, t)
      BY <3>2, SeeingFaces
    <3>4. Facing(seq, SetEmitSpaces(lex, TRUE), k, TRUE)
      BY <3>1, <3>3 DEF t
    <3> HIDE DEF lex, u
    <3>5. Words(seq)[k] = w \o u
      BY <1>4 DEF u
    <3> QED
      BY <1>4, <2>1, <3>4, <3>5 DEF IsGroup, lex
  <2>4. IdentOrFunctionAt(seq, loops, Seeing(seq, k, e)) = Behind(seq, <<>>, part)
    <3>1. IdentOrFunctionAt(seq, loops, Seeing(seq, k, e)) = ArgumentOutcome(seq, loops, k, e)
      BY <2>2, ArgumentTurns
    <3>2. LPARENT # LCURLY /\ LPARENT \notin DOMAIN FunctionMap
      BY AllMarks, NamesAreApart, MapFacts, Zenon
    <3> QED
      BY <2>2, <3>1, <3>2 DEF ArgumentOutcome
  <2> HIDE DEF part, loops
  <2>5. ReadsAs(seq, Behind(seq, <<>>, part), WithoutSpaces(<<>>) \o m, k, c, v)
    BY <1>3, <2>3, ReadsBehind DEF u
  <2> QED
    BY <1>3, <2>4, <2>5 DEF loops
<1>5. Begins(w)
  BY <1>2, <1>3 DEF Begins, Starting
<1> QED
  BY <1>3, <1>4, <1>5 DEF IsArgument

LEMMA SequenceIsArgument ==
  ASSUME NEW seq, Prepared(seq), NEW w \in Text, NEW m \in Text, IsSequence(seq, w, m)
  PROVE  IsArgument(seq, w, m)
<1>1. seq \in Text /\ Len(seq) \in Nat
  BY TextPlaces DEF Prepared
<1>2. PICK r \in Text : w = <<LCURLY>> \o r
  BY DEF IsSequence, Starting
<1>2a. IsNested(seq, w, m)
  BY SequenceNests
<1>3. m # <<>> /\ LCURLY \in Pieces /\ <<>> \in Text /\ WithoutSpaces(<<>>) \o m = m
  BY AllMarks, MarkFacts, TextClosed, WithoutSpacesPiece, TextEmpty DEF IsSequence
<1>4. ASSUME NEW n \in Fuel(seq), NEW k \in 1..Len(seq), NEW e \in BOOLEAN, NEW c \in Ends,
             NEW v \in Text, seq[k] # SPACE, n + k >= Len(seq), Words(seq)[k] = w \o (<<c>> \o v)
      PROVE  ReadsAs(seq, IdentOrFunctionAt(seq, Levels(seq)[n], Seeing(seq, k, e)), m, k, c, v)
  <2> DEFINE u == <<c>> \o v
             loops == Levels(seq)[n]
             part == NestedSequence(seq, loops, Seeing(seq, k, e))
  <2>1. u \in Text
    BY EndFacts
  <2>2. seq[k] = LCURLY
    <3> HIDE DEF u
    <3>1. r \o u \in Text /\ Words(seq)[k] = <<LCURLY>> \o (r \o u)
      BY <1>2, <1>3, <1>4, <2>1, WordAhead DEF u
    <3>2. WordAt(seq, k, LCURLY, r \o u)
      BY <1>3, <1>4, <3>1, WordHere
    <3> QED
      BY <3>2 DEF WordAt
  <2>3. PICK i \in PlacesIn(seq) : i > k /\ Words(seq)[i] = u /\ Yields(part, m, At(i, TRUE))
    <3> DEFINE lex == Seeing(seq, k, e)
               t == FALSE
    <3>1. SetEmitSpaces(lex, t) = Seeing(seq, k, t)
      BY SpacesOfLexers, Zenon
    <3>2. t \in BOOLEAN
      OBVIOUS
    <3> HIDE DEF t
    <3>3. Facing(seq, Seeing(seq, k, t), k, t)
      BY <3>2, SeeingFaces
    <3>4. Facing(seq, SetEmitSpaces(lex, FALSE), k, FALSE)
      BY <3>1, <3>3 DEF t
    <3> HIDE DEF lex, u
    <3>5. Words(seq)[k] = w \o u
      BY <1>4 DEF u
    <3> QED
      BY <1>2a, <1>4, <2>1, <3>4, <3>5 DEF IsNested, lex
  <2>4. IdentOrFunctionAt(seq, loops, Seeing(seq, k, e)) = Behind(seq, <<>>, part)
    <3>1. IdentOrFunctionAt(seq, loops, Seeing(seq, k, e)) = ArgumentOutcome(seq, loops, k, e)
      BY <2>2, ArgumentTurns
    <3> QED
      BY <2>2, <3>1 DEF ArgumentOutcome
  <2> HIDE DEF part, loops
  <2>5. ReadsAs(seq, Behind(seq, <<>>, part), WithoutSpaces(<<>>) \o m, k, c, v)
    BY <1>3, <2>3, ReadsBehind DEF u
  <2> QED
    BY <1>3, <2>4, <2>5 DEF loops
<1>5. Begins(w)
  BY <1>2, <1>3 DEF Begins, Starting
<1> QED
  BY <1>3, <1>4, <1>5 DEF IsArgument

(* A group behind the name of a function, where no blank stands between.    *)
LEMMA GroupBehind ==
  ASSUME NEW seq, Prepared(seq), NEW w \in Text, NEW m \in Text, IsGroup(seq, w, m),
         NEW k \in 1..Len(seq), NEW u \in Text, Words(seq)[k + 1] = w \o u
  PROVE  k + 1 \in 1..Len(seq) /\ First(seq, k + 1) = k + 1 /\ seq[k + 1] = LPARENT
<1>1. seq \in Text /\ Len(seq) \in Nat
  BY TextPlaces DEF Prepared
<1>2. PICK r \in Text : w = <<LPARENT>> \o r
  BY DEF IsGroup, Starting
<1>3. LPARENT \in Pieces
  BY AllMarks, MarkFacts
<1>4. r \o u \in Text /\ Words(seq)[k + 1] = <<LPARENT>> \o (r \o u)
  BY <1>2, <1>3, WordAhead
<1>5. k + 1 \in 1..(Len(seq) + 1) /\ k \in Nat /\ k >= 1
  BY <1>1
<1>6. First(seq, k + 1) \in (k + 1)..Len(seq)
  BY <1>1, <1>3, <1>4, <1>5, FirstWord
<1>7. k + 1 \in 2..Len(seq)
  BY <1>1, <1>5, <1>6
<1>8. First(seq, k + 1) = k + 1 /\ seq[k + 1] = LPARENT
  BY <1>4, <1>7, NoBlankBefore
<1> QED
  BY <1>1, <1>7, <1>8

ReadsGroup(seq, part, m, k, u) ==
  \E i \in PlacesIn(seq) : i > k /\ Words(seq)[i] = u /\ Yields(part, m, At(i, TRUE))

LEMMA GroupRead ==
  ASSUME NEW seq, Prepared(seq), NEW w \in Text, NEW m \in Text, IsGroup(seq, w, m),
         NEW n \in Fuel(seq), NEW k \in 1..Len(seq), NEW e \in BOOLEAN, NEW u \in Text,
         n + k >= Len(seq), Words(seq)[k + 1] = w \o u,
         NEW lex, lex = At(k + 1, e) \/ lex = Seeing(seq, k + 1, e)
  PROVE  ReadsGroup(seq, Parentheses(seq, Levels(seq)[n], lex), m, k, u)
<1>1. k + 1 \in 1..Len(seq) /\ First(seq, k + 1) = k + 1 /\ seq[k + 1] = LPARENT
  BY GroupBehind
<1>1a. Len(seq) \in Nat
  BY TextPlaces DEF Prepared
<1> DEFINE t == TRUE
<1>2. Facing(seq, SetEmitSpaces(lex, t), k + 1, t)
  <2>1. CASE lex = At(k + 1, e)
    <3>1. SetEmitSpaces(lex, t) = At(k + 1, t)
      BY <2>1, SpacesOfLexers, Zenon
    <3>2. k + 1 \in Nat
      BY <1>1
    <3>3. Facing(seq, At(k + 1, t), k + 1, t)
      BY <1>1, <3>2, AtFaces
    <3> QED
      BY <3>1, <3>3
  <2>2. CASE lex = Seeing(seq, k + 1, e)
    <3>1. SetEmitSpaces(lex, t) = Seeing(seq, k + 1, t)
      BY <2>2, SpacesOfLexers, Zenon
    <3>2. t \in BOOLEAN
      OBVIOUS
    <3> HIDE DEF t
    <3>3. Facing(seq, Seeing(seq, k + 1, t), k + 1, t)
      BY <1>1, <3>2, SeeingFaces
    <3> QED
      BY <3>1, <3>3
  <2> QED
    BY <2>1, <2>2
<1>3. seq[k + 1] # SPACE
  BY <1>1, NamesAreApart
<1>4. n + (k + 1) >= Len(seq)
  BY <1>1a DEF Fuel
<1>5. PICK i \in PlacesIn(seq) :
        /\ i > k + 1 /\ Words(seq)[i] = u
        /\ Yields(Parentheses(seq, Levels(seq)[n], lex), m, At(i, TRUE))
  BY <1>1, <1>2, <1>3, <1>4 DEF IsGroup
<1>6. i > k
  BY <1>5 DEF PlacesIn
<1> QED
  BY <1>5, <1>6 DEF ReadsGroup

(* The name of a function is written as its map says, another name as it    *)
(* is.                                                                      *)
LEMMA CallIsArgument ==
  ASSUME NEW seq, Prepared(seq), NEW p \in Pieces, NEW c \in Pieces,
         \/ p \in DOMAIN FunctionMap /\ c = FunctionMap[p]
         \/ Type(p) = "IDENT" /\ c = p,
         NEW w \in Text, NEW m \in Text, IsGroup(seq, w, m)
  PROVE  IsArgument(seq, <<p>> \o w, <<c>> \o m)
<1> DEFINE x == <<p>> \o w
           y == <<c>> \o m
<1>1. seq \in Text /\ Len(seq) \in Nat
  BY TextPlaces DEF Prepared
<1>2. x \in Text /\ y \in Text /\ y # <<>> /\ <<c>> \in Text
  BY TextClosed, TextCons
<1>3. ASSUME NEW n \in Fuel(seq), NEW k \in 1..Len(seq), NEW e \in BOOLEAN, NEW d \in Ends,
             NEW v \in Text, seq[k] # SPACE, n + k >= Len(seq), Words(seq)[k] = x \o (<<d>> \o v)
      PROVE  ReadsAs(seq, IdentOrFunctionAt(seq, Levels(seq)[n], Seeing(seq, k, e)), y, k, d, v)
  <2> DEFINE u == <<d>> \o v
             loops == Levels(seq)[n]
  <2>1. u \in Text /\ Words(seq)[k] = x \o u
    BY <1>3, EndFacts
  <2>2. w \o u \in Text /\ Words(seq)[k] = <<p>> \o (w \o u)
    <3> HIDE DEF u
    <3> QED
      BY <2>1, WordAhead
  <2>3. seq[k] = p /\ p # SPACE /\ Words(seq)[k + 1] = w \o u
    <3> HIDE DEF u
    <3>1. WordAt(seq, k, p, w \o u)
      BY <1>3, <2>2, WordHere
    <3> QED
      BY <3>1 DEF WordAt
  <2>4. WithoutSpaces(<<c>>) = <<c>>
    <3>1. c # SPACE
      BY <2>3, MapFacts
    <3> QED
      BY <3>1, WordStays
  <2>5. \A lex : lex = At(k + 1, e) \/ lex = Seeing(seq, k + 1, e) =>
          ReadsAs(seq, Behind(seq, <<c>>, Parentheses(seq, loops, lex)), y, k, d, v)
    <3> HIDE DEF u
    <3> SUFFICES ASSUME NEW lex, lex = At(k + 1, e) \/ lex = Seeing(seq, k + 1, e)
                 PROVE  ReadsAs(seq, Behind(seq, <<c>>, Parentheses(seq, loops, lex)), y, k, d, v)
      OBVIOUS
    <3>0. ReadsGroup(seq, Parentheses(seq, loops, lex), m, k, u)
      BY <1>3, <2>1, <2>3, GroupRead
    <3>1. PICK i \in PlacesIn(seq) :
            /\ i > k /\ Words(seq)[i] = u
            /\ Yields(Parentheses(seq, loops, lex), m, At(i, TRUE))
      BY <3>0 DEF ReadsGroup
    <3> DEFINE part == Parentheses(seq, loops, lex)
    <3> HIDE DEF part
    <3>2. Yields(part, m, At(i, TRUE))
      BY <3>1 DEF part
    <3>3. ReadsAs(seq, Behind(seq, <<c>>, part), WithoutSpaces(<<c>>) \o m, k, d, v)
      BY <1>2, <3>1, <3>2, ReadsBehind DEF u
    <3> QED
      BY <2>4, <3>3 DEF part
  <2>6. SecondAt(seq, k, e) = k + 1 /\ k + 1 \in 1..Len(seq) /\ seq[k + 1] = LPARENT
    <3> HIDE DEF u
    <3> QED
      BY <2>1, <2>3, GroupBehind DEF SecondAt
  <2>7. \/ IdentOrFunctionAt(seq, loops, Seeing(seq, k, e)) = Behind(seq, <<c>>, Parentheses(seq, loops, At(k + 1, e)))
        \/ IdentOrFunctionAt(seq, loops, Seeing(seq, k, e)) = Behind(seq, <<c>>, Parentheses(seq, loops, Seeing(seq, k + 1, e)))
    <3> HIDE DEF u, loops
    <3>1. CASE p \in DOMAIN FunctionMap /\ c = FunctionMap[p]
      <4>1. IdentOrFunctionAt(seq, loops, Seeing(seq, k, e)) = ArgumentOutcome(seq, loops, k, e)
        BY <2>3, <3>1, ArgumentTurns
      <4>2. p # LCURLY
        BY <3>1, AllMarks, NamesAreApart, MapFacts, Zenon
      <4> QED
        BY <2>3, <3>1, <4>1, <4>2 DEF ArgumentOutcome
    <3>2. CASE Type(p) = "IDENT" /\ c = p
      <4>1. IdentOrFunctionAt(seq, loops, Seeing(seq, k, e)) = ArgumentOutcome(seq, loops, k, e)
        BY <2>3, <3>2, ArgumentTurns
      <4>2. p \notin Delimiters \cup Keywords
        <5>1. Type(p) \in Kinds
          BY <3>2 DEF Kinds
        <5> QED
          BY <5>1, TypeFacts
      <4>3. p # LCURLY /\ p # LPARENT /\ p \notin DOMAIN FunctionMap
        BY <4>2, AllMarks, MapFacts
      <4>4. /\ Second(seq, Seeing(seq, k, e)).type = LPARENT
            /\ Consume(seq, TwoAhead(seq, Seeing(seq, k, e))) = Seeing(seq, k + 1, e)
        <5>1. Second(seq, Seeing(seq, k, e)) = TokenOn(seq, k + 1)
          BY <2>6, TwoSeen
        <5>2. Consume(seq, TwoAhead(seq, Seeing(seq, k, e))) = Seeing(seq, k + 1, e)
          BY <2>6, TwoSeen
        <5>3. TokenOn(seq, k + 1).type = LPARENT
          BY <2>6, AllMarks, MarkFacts DEF TokenOn
        <5> QED
          BY <5>1, <5>2, <5>3
      <4> QED
        BY <2>3, <3>2, <4>1, <4>3, <4>4 DEF ArgumentOutcome
    <3> QED
      BY <3>1, <3>2
  <2> QED
    BY <2>5, <2>7, Zenon
<1>3a. Begins(x)
  BY DEF Begins, Starting
<1> HIDE DEF x, y
<1>4. IsArgument(seq, x, y)
  BY <1>2, <1>3, <1>3a DEF IsArgument
<1> QED
  BY <1>4 DEF x, y

(* An argument that is one piece.                                           *)
LEMMA PieceIsArgument ==
  ASSUME NEW seq, Prepared(seq), NEW p \in Pieces, Type(p) \in {"NUMBER", "STRING", "IDENT"}
  PROVE  IsArgument(seq, <<p>>, <<p>>)
<1> DEFINE x == <<p>>
<1>1. seq \in Text /\ Len(seq) \in Nat
  BY TextPlaces DEF Prepared
<1>2. x \in Text /\ x # <<>>
  BY TextClosed
<1>3. ASSUME NEW n \in Fuel(seq), NEW k \in 1..Len(seq), NEW e \in BOOLEAN, NEW c \in Ends,
             NEW v \in Text, seq[k] # SPACE, n + k >= Len(seq), Words(seq)[k] = x \o (<<c>> \o v)
      PROVE  ReadsAs(seq, IdentOrFunctionAt(seq, Levels(seq)[n], Seeing(seq, k, e)), x, k, c, v)
  <2> DEFINE u == <<c>> \o v
             loops == Levels(seq)[n]
             i == k + 1
             j == First(seq, i)
  <2>1. u \in Text /\ Words(seq)[k] = <<p>> \o u /\ c \in Pieces
    BY <1>3, EndFacts
  <2>2. seq[k] = p /\ p # SPACE /\ Words(seq)[i] = u
    <3> HIDE DEF u
    <3>1. WordAt(seq, k, p, u)
      BY <1>3, <2>1, WordHere
    <3> QED
      BY <3>1 DEF WordAt
  <2>3. i \in 1..(Len(seq) + 1) /\ i > k
    BY <1>1
  <2>4. j \in i..Len(seq) /\ WordAt(seq, j, c, v)
    BY <2>1, <2>2, <2>3, NextWord
  <2>5. i \in 1..Len(seq) /\ j \in 1..Len(seq) /\ j > k
    BY <1>1, <2>3, <2>4
  <2>6. SkipSpaces(seq, At(i, e)) = Seeing(seq, j, e)
    BY <2>1, <2>2, <2>3, NextWord
  <2>7. SkipSpaces(seq, Seeing(seq, i, e)) = Seeing(seq, j, e)
    <3> HIDE DEF i
    <3>1. i \in 1..Len(seq) + 1
      BY <2>3
    <3> QED
      BY <2>5, <3>1, SkipFaces
  <2>8. SkipSpaces(seq, Seeing(seq, j, e)) = Seeing(seq, j, e)
    <3>1. First(seq, j) = j
      <4>1. j \in 1..(Len(seq) + 1) /\ j <= Len(seq) /\ seq[j] # SPACE
        BY <1>1, <2>4, <2>5 DEF WordAt
      <4> HIDE DEF j
      <4> QED
        BY <1>1, <4>1, FirstFacts
    <3> HIDE DEF j
    <3>2. j \in 1..Len(seq) + 1
      BY <1>1, <2>5
    <3>3. SkipSpaces(seq, Seeing(seq, j, e)) = Seeing(seq, First(seq, j), e)
      BY <2>5, <3>1, <3>2, SkipFaces
    <3> QED
      BY <3>1, <3>3
  <2>9. p \notin Delimiters \cup Keywords /\ Type(p) \in {"NUMBER", "STRING", "IDENT"}
    <3>1. Type(p) \in Kinds
      BY DEF Kinds
    <3> QED
      BY <3>1, TypeFacts
  <2>10. p # LCURLY /\ p # LPARENT /\ p \notin DOMAIN FunctionMap
    BY <2>9, AllMarks, MapFacts
  <2>11. \E lex : /\ IdentOrFunctionAt(seq, loops, Seeing(seq, k, e)) = Behind(seq, x, Result(<<>>, lex))
                  /\ SkipSpaces(seq, lex) = Seeing(seq, j, e)
    <3> HIDE DEF u, i, j, loops
    <3>1. IdentOrFunctionAt(seq, loops, Seeing(seq, k, e)) = ArgumentOutcome(seq, loops, k, e)
      BY <2>2, ArgumentTurns
    <3>2. CASE Type(p) = "IDENT"
      <4> DEFINE g == SecondAt(seq, k, e)
                 two == Consume(seq, TwoAhead(seq, Seeing(seq, k, e)))
      <4>1. g = i \/ g = j
        BY DEF SecondAt, i, j
      <4>2. g \in 1..Len(seq)
        BY <2>5, <4>1
      <4>3. seq[g] # LPARENT
        <5>1. seq[j] = c /\ c # LPARENT
          BY <2>4, EndFacts DEF WordAt
        <5>2. CASE g = j
          BY <5>1, <5>2
        <5>3. CASE g # j
          <6>1. g = i /\ i # j
            BY <4>1, <5>3
          <6>2. seq[i] = SPACE
            <7>1. i <= Len(seq)
              BY <2>5
            <7>2. seq[i] # SPACE => First(seq, i) = i
              BY <1>1, <2>3, <7>1, FirstFacts
            <7> QED
              BY <6>1, <7>2 DEF j
          <6> QED
            BY <6>1, <6>2, NamesAreApart
        <5> QED
          BY <5>2, <5>3
      <4>4. Second(seq, Seeing(seq, k, e)).type # LPARENT
        <5>1. Second(seq, Seeing(seq, k, e)) = TokenOn(seq, g)
          BY <4>2, TwoSeen
        <5> HIDE DEF g
        <5>2. TokenOn(seq, g).type = Type(seq[g])
          BY DEF TokenOn
        <5>3. \A q \in Delimiters \cup Keywords : Type(seq[g]) = q <=> seq[g] = q
          BY <4>2, ReadType
        <5> QED
          BY <4>3, <5>1, <5>2, <5>3, AllMarks
      <4>5. two = Seeing(seq, g, e)
        BY <4>2, TwoSeen
      <4>6. SkipSpaces(seq, two) = Seeing(seq, j, e)
        BY <2>7, <2>8, <4>1, <4>5
      <4>7. IdentOrFunctionAt(seq, loops, Seeing(seq, k, e)) = Behind(seq, x, Result(<<>>, two))
        BY <2>2, <2>10, <3>1, <3>2, <4>4 DEF ArgumentOutcome
      <4> HIDE DEF two
      <4> QED
        BY <4>6, <4>7
    <3>3. CASE Type(p) # "IDENT"
      <4>1. IdentOrFunctionAt(seq, loops, Seeing(seq, k, e)) = Behind(seq, x, Result(<<>>, At(i, e)))
        BY <2>2, <2>10, <3>1, <3>3 DEF ArgumentOutcome, i
      <4> QED
        BY <2>6, <4>1
    <3> QED
      BY <3>2, <3>3
  <2>12. PICK lex : /\ IdentOrFunctionAt(seq, loops, Seeing(seq, k, e)) = Behind(seq, x, Result(<<>>, lex))
                    /\ SkipSpaces(seq, lex) = Seeing(seq, j, e)
    BY <2>11
  <2> HIDE DEF loops, j
  <2>13. Yields(Result(<<>>, lex), WithoutSpaces(<<>>), lex)
    BY TextClosed, YieldsResult
  <2>14. Yields(Behind(seq, x, Result(<<>>, lex)), WithoutSpaces(x) \o WithoutSpaces(<<>>), Seeing(seq, j, e))
    BY <1>2, <2>12, <2>13, BehindYields
  <2>15. WithoutSpaces(x) \o WithoutSpaces(<<>>) = x
    <3>1. WithoutSpaces(x) = x
      BY <2>2, WordStays
    <3> QED
      BY <1>2, <3>1, WithoutSpacesPiece, TextEmpty
  <2> QED
    BY <2>4, <2>5, <2>12, <2>14, <2>15 DEF ReadsAs, loops
<1>3a. Begins(x)
  <2>1. x = <<p>> \o <<>> /\ <<>> \in Text
    BY <1>2, TextClosed, TextEmpty
  <2> QED
    BY <2>1 DEF Begins, Starting
<1> HIDE DEF x
<1>4. IsArgument(seq, x, x)
  BY <1>2, <1>3, <1>3a DEF IsArgument
<1> QED
  BY <1>4 DEF x

-----------------------------------------------------------------------------
(* Lists of pieces that the code reads and writes.                          *)
LEMMA ConsIs ==
  ASSUME NEW S, NEW p \in S, NEW y \in Seq(S), NEW z \in Seq(S), Len(z) = Len(y) + 1, z[1] = p,
         \A i \in 1..Len(y) : z[i + 1] = y[i]
  PROVE  <<p>> \o y = z
<1>1. <<p>> \in Seq(S) /\ Len(<<p>>) = 1 /\ <<p>>[1] = p
  OBVIOUS
<1> DEFINE a == <<p>>
<1> HIDE DEF a
<1>2. a \o y \in Seq(S) /\ Len(a \o y) = Len(y) + 1
  BY <1>1 DEF a
<1>3. \A i \in 1..Len(z) : (a \o y)[i] = z[i]
  <2> TAKE i \in 1..Len(z)
  <2>1. CASE i = 1
    BY <1>1, <2>1 DEF a
  <2>2. CASE i # 1
    <3>1. i - 1 \in 1..Len(y) /\ (i - 1) + 1 = i
      BY <2>2
    <3>2. (a \o y)[i] = y[i - 1]
      BY <1>1, <3>1 DEF a
    <3> QED
      BY <3>1, <3>2
  <2> QED
    BY <2>1, <2>2
<1>4. a \o y = z
  BY <1>2, <1>3, SeqEqual
<1> QED
  BY <1>4 DEF a

LEMMA ListOf2 ==
  ASSUME NEW a, NEW b
  PROVE  <<a>> \o <<b>> = <<a, b>>
<1> DEFINE S == {a, b}
           y == <<b>>
           z == <<a, b>>
<1>1. /\ y \in Seq(S) /\ Len(y) = 1 /\ y[1] = b
  OBVIOUS
<1>2. /\ z \in Seq(S) /\ Len(z) = 2 /\ z[1] = a /\ z[2] = b
  OBVIOUS
<1>3. a \in S
  OBVIOUS
<1> HIDE DEF S, y, z
<1>4. (\A i \in 1..Len(y) : z[i + 1] = y[i]) /\ Len(z) = Len(y) + 1
  BY <1>1, <1>2
<1>5. <<a>> \o y = z
  BY <1>1, <1>2, <1>3, <1>4, ConsIs, Zenon
<1> QED
  BY <1>5 DEF y, z

LEMMA ListOf3 ==
  ASSUME NEW a, NEW b, NEW c
  PROVE  <<a>> \o <<b, c>> = <<a, b, c>>
<1> DEFINE S == {a, b, c}
           y == <<b, c>>
           z == <<a, b, c>>
<1>1. /\ y \in Seq(S) /\ Len(y) = 2 /\ y[1] = b /\ y[2] = c
  OBVIOUS
<1>2. /\ z \in Seq(S) /\ Len(z) = 3 /\ z[1] = a /\ z[2] = b
      /\ z[3] = c
  OBVIOUS
<1>3. a \in S
  OBVIOUS
<1> HIDE DEF S, y, z
<1>4. (\A i \in 1..Len(y) : z[i + 1] = y[i]) /\ Len(z) = Len(y) + 1
  BY <1>1, <1>2
<1>5. <<a>> \o y = z
  BY <1>1, <1>2, <1>3, <1>4, ConsIs, Zenon
<1> QED
  BY <1>5 DEF y, z

LEMMA ListOf4 ==
  ASSUME NEW a, NEW b, NEW c, NEW d
  PROVE  <<a>> \o <<b, c, d>> = <<a, b, c, d>>
<1> DEFINE S == {a, b, c, d}
           y == <<b, c, d>>
           z == <<a, b, c, d>>
<1>1. /\ y \in Seq(S) /\ Len(y) = 3 /\ y[1] = b /\ y[2] = c
      /\ y[3] = d
  OBVIOUS
<1>2. /\ z \in Seq(S) /\ Len(z) = 4 /\ z[1] = a /\ z[2] = b
      /\ z[3] = c /\ z[4] = d
  OBVIOUS
<1>3. a \in S
  OBVIOUS
<1> HIDE DEF S, y, z
<1>4. (\A i \in 1..Len(y) : z[i + 1] = y[i]) /\ Len(z) = Len(y) + 1
  BY <1>1, <1>2
<1>5. <<a>> \o y = z
  BY <1>1, <1>2, <1>3, <1>4, ConsIs, Zenon
<1> QED
  BY <1>5 DEF y, z

LEMMA ListOf5 ==
  ASSUME NEW a, NEW b, NEW c, NEW d, NEW e
  PROVE  <<a>> \o <<b, c, d, e>> = <<a, b, c, d, e>>
<1> DEFINE S == {a, b, c, d, e}
           y == <<b, c, d, e>>
           z == <<a, b, c, d, e>>
<1>1. /\ y \in Seq(S) /\ Len(y) = 4 /\ y[1] = b /\ y[2] = c
      /\ y[3] = d /\ y[4] = e
  OBVIOUS
<1>2. /\ z \in Seq(S) /\ Len(z) = 5 /\ z[1] = a /\ z[2] = b
      /\ z[3] = c /\ z[4] = d /\ z[5] = e
  OBVIOUS
<1>3. a \in S
  OBVIOUS
<1> HIDE DEF S, y, z
<1>4. (\A i \in 1..Len(y) : z[i + 1] = y[i]) /\ Len(z) = Len(y) + 1
  BY <1>1, <1>2
<1>5. <<a>> \o y = z
  BY <1>1, <1>2, <1>3, <1>4, ConsIs, Zenon
<1> QED
  BY <1>5 DEF y, z

LEMMA ListOf6 ==
  ASSUME NEW a, NEW b, NEW c, NEW d, NEW e, NEW f
  PROVE  <<a>> \o <<b, c, d, e, f>> = <<a, b, c, d, e, f>>
<1> DEFINE S == {a, b, c, d, e, f}
           y == <<b, c, d, e, f>>
           z == <<a, b, c, d, e, f>>
<1>1. /\ y \in Seq(S) /\ Len(y) = 5 /\ y[1] = b /\ y[2] = c
      /\ y[3] = d /\ y[4] = e /\ y[5] = f
  OBVIOUS
<1>2. /\ z \in Seq(S) /\ Len(z) = 6 /\ z[1] = a /\ z[2] = b
      /\ z[3] = c /\ z[4] = d /\ z[5] = e /\ z[6] = f
  OBVIOUS
<1>3. a \in S
  OBVIOUS
<1> HIDE DEF S, y, z
<1>4. (\A i \in 1..Len(y) : z[i + 1] = y[i]) /\ Len(z) = Len(y) + 1
  BY <1>1, <1>2
<1>5. <<a>> \o y = z
  BY <1>1, <1>2, <1>3, <1>4, ConsIs, Zenon
<1> QED
  BY <1>5 DEF y, z

LEMMA ListOf7 ==
  ASSUME NEW a, NEW b, NEW c, NEW d, NEW e, NEW f, NEW g
  PROVE  <<a>> \o <<b, c, d, e, f, g>> = <<a, b, c, d, e, f, g>>
<1> DEFINE S == {a, b, c, d, e, f, g}
           y == <<b, c, d, e, f, g>>
           z == <<a, b, c, d, e, f, g>>
<1>1. /\ y \in Seq(S) /\ Len(y) = 6 /\ y[1] = b /\ y[2] = c
      /\ y[3] = d /\ y[4] = e /\ y[5] = f /\ y[6] = g
  OBVIOUS
<1>2. /\ z \in Seq(S) /\ Len(z) = 7 /\ z[1] = a /\ z[2] = b
      /\ z[3] = c /\ z[4] = d /\ z[5] = e /\ z[6] = f /\ z[7] = g
  OBVIOUS
<1>3. a \in S
  OBVIOUS
<1> HIDE DEF S, y, z
<1>4. (\A i \in 1..Len(y) : z[i + 1] = y[i]) /\ Len(z) = Len(y) + 1
  BY <1>1, <1>2
<1>5. <<a>> \o y = z
  BY <1>1, <1>2, <1>3, <1>4, ConsIs, Zenon
<1> QED
  BY <1>5 DEF y, z

LEMMA ConsStays ==
  \A p \in Pieces, y \in Text : p # SPACE => WithoutSpaces(<<p>> \o y) = <<p>> \o WithoutSpaces(y)
<1> SUFFICES ASSUME NEW p \in Pieces, NEW y \in Text, p # SPACE
             PROVE  WithoutSpaces(<<p>> \o y) = <<p>> \o WithoutSpaces(y)
  OBVIOUS
<1>1. <<p>> \in Text
  BY TextClosed
<1>2. WithoutSpaces(<<p>>) = <<p>>
  BY WordStays
<1> QED
  BY <1>1, <1>2, WithoutSpacesConcat

LEMMA ConsDropped == \A y \in Text : WithoutSpaces(<<SPACE>> \o y) = WithoutSpaces(y)
<1> SUFFICES ASSUME NEW y \in Text PROVE WithoutSpaces(<<SPACE>> \o y) = WithoutSpaces(y)
  OBVIOUS
<1>1. <<SPACE>> \in Text /\ WithoutSpaces(y) \in Text
  BY AllMarks, MarkFacts, TextClosed, TextPlaces, WordsType DEF WithoutSpaces
<1>2. WithoutSpaces(<<SPACE>>) \o WithoutSpaces(y) = WithoutSpaces(y)
  BY <1>1, SpaceDropped
<1> QED
  BY <1>1, <1>2, WithoutSpacesConcat

LEMMA WordsOfTwo ==
  ASSUME NEW a \in Pieces, NEW b \in Pieces,
         a # SPACE, b # SPACE
  PROVE  <<a, b>> \in Text /\ WithoutSpaces(<<a, b>>) = <<a, b>>
<1>0. SPACE \in Pieces
  BY AllMarks, MarkFacts
<1>2. <<b>> \in Text /\ WithoutSpaces(<<b>>) = <<b>>
  BY <1>0, TextClosed, WithoutSpacesPiece
<1>1. <<a, b>> \in Text /\ WithoutSpaces(<<a, b>>) = <<a, b>>
  <2> DEFINE y == <<b>>
             r == <<b>>
  <2>1. <<a>> \o y = <<a, b>>
    BY ListOf2
  <2>2. y \in Text /\ WithoutSpaces(y) = r
    BY <1>2
  <2>3. <<a>> \o r = <<a, b>>
    BY ListOf2
  <2> HIDE DEF y, r
  <2>4. <<a>> \o y \in Text /\ WithoutSpaces(<<a>> \o y) = <<a>> \o r
    BY <2>2, TextClosed, ConsStays
  <2> QED
    BY <2>1, <2>3, <2>4
<1> QED
  BY <1>1

LEMMA WordsOfThree ==
  ASSUME NEW a \in Pieces, NEW b \in Pieces, NEW c \in Pieces,
         a # SPACE, b # SPACE, c # SPACE
  PROVE  <<a, b, c>> \in Text /\ WithoutSpaces(<<a, b, c>>) = <<a, b, c>>
<1>0. SPACE \in Pieces
  BY AllMarks, MarkFacts
<1>3. <<c>> \in Text /\ WithoutSpaces(<<c>>) = <<c>>
  BY <1>0, TextClosed, WithoutSpacesPiece
<1>2. <<b, c>> \in Text /\ WithoutSpaces(<<b, c>>) = <<b, c>>
  <2> DEFINE y == <<c>>
             r == <<c>>
  <2>1. <<b>> \o y = <<b, c>>
    BY ListOf2
  <2>2. y \in Text /\ WithoutSpaces(y) = r
    BY <1>3
  <2>3. <<b>> \o r = <<b, c>>
    BY ListOf2
  <2> HIDE DEF y, r
  <2>4. <<b>> \o y \in Text /\ WithoutSpaces(<<b>> \o y) = <<b>> \o r
    BY <2>2, TextClosed, ConsStays
  <2> QED
    BY <2>1, <2>3, <2>4
<1>1. <<a, b, c>> \in Text /\ WithoutSpaces(<<a, b, c>>) = <<a, b, c>>
  <2> DEFINE y == <<b, c>>
             r == <<b, c>>
  <2>1. <<a>> \o y = <<a, b, c>>
    BY ListOf3
  <2>2. y \in Text /\ WithoutSpaces(y) = r
    BY <1>2
  <2>3. <<a>> \o r = <<a, b, c>>
    BY ListOf3
  <2> HIDE DEF y, r
  <2>4. <<a>> \o y \in Text /\ WithoutSpaces(<<a>> \o y) = <<a>> \o r
    BY <2>2, TextClosed, ConsStays
  <2> QED
    BY <2>1, <2>3, <2>4
<1> QED
  BY <1>1

LEMMA WordsOfComma ==
  ASSUME NEW a \in Pieces,
         a # SPACE
  PROVE  <<a, SPACE>> \in Text /\ WithoutSpaces(<<a, SPACE>>) = <<a>>
<1>0. SPACE \in Pieces
  BY AllMarks, MarkFacts
<1>2. <<SPACE>> \in Text /\ WithoutSpaces(<<SPACE>>) = <<>>
  BY <1>0, TextClosed, WithoutSpacesPiece
<1>1. <<a, SPACE>> \in Text /\ WithoutSpaces(<<a, SPACE>>) = <<a>>
  <2> DEFINE y == <<SPACE>>
             r == <<>>
  <2>1. <<a>> \o y = <<a, SPACE>>
    BY ListOf2
  <2>2. y \in Text /\ WithoutSpaces(y) = r
    BY <1>2
  <2>3. <<a>> \o r = <<a>>
    BY TextClosed, TextEmpty
  <2> HIDE DEF y, r
  <2>4. <<a>> \o y \in Text /\ WithoutSpaces(<<a>> \o y) = <<a>> \o r
    BY <2>2, TextClosed, ConsStays
  <2> QED
    BY <2>1, <2>3, <2>4
<1> QED
  BY <1>1

LEMMA WordsOfCall ==
  ASSUME NEW a \in Pieces, NEW b \in Pieces, NEW c \in Pieces, NEW d \in Pieces,
         a # SPACE, b # SPACE, c # SPACE, d # SPACE
  PROVE  <<a, b, c, d, SPACE>> \in Text /\ WithoutSpaces(<<a, b, c, d, SPACE>>) = <<a, b, c, d>>
<1>0. SPACE \in Pieces
  BY AllMarks, MarkFacts
<1>5. <<SPACE>> \in Text /\ WithoutSpaces(<<SPACE>>) = <<>>
  BY <1>0, TextClosed, WithoutSpacesPiece
<1>4. <<d, SPACE>> \in Text /\ WithoutSpaces(<<d, SPACE>>) = <<d>>
  <2> DEFINE y == <<SPACE>>
             r == <<>>
  <2>1. <<d>> \o y = <<d, SPACE>>
    BY ListOf2
  <2>2. y \in Text /\ WithoutSpaces(y) = r
    BY <1>5
  <2>3. <<d>> \o r = <<d>>
    BY TextClosed, TextEmpty
  <2> HIDE DEF y, r
  <2>4. <<d>> \o y \in Text /\ WithoutSpaces(<<d>> \o y) = <<d>> \o r
    BY <2>2, TextClosed, ConsStays
  <2> QED
    BY <2>1, <2>3, <2>4
<1>3. <<c, d, SPACE>> \in Text /\ WithoutSpaces(<<c, d, SPACE>>) = <<c, d>>
  <2> DEFINE y == <<d, SPACE>>
             r == <<d>>
  <2>1. <<c>> \o y = <<c, d, SPACE>>
    BY ListOf3
  <2>2. y \in Text /\ WithoutSpaces(y) = r
    BY <1>4
  <2>3. <<c>> \o r = <<c, d>>
    BY ListOf2
  <2> HIDE DEF y, r
  <2>4. <<c>> \o y \in Text /\ WithoutSpaces(<<c>> \o y) = <<c>> \o r
    BY <2>2, TextClosed, ConsStays
  <2> QED
    BY <2>1, <2>3, <2>4
<1>2. <<b, c, d, SPACE>> \in Text /\ WithoutSpaces(<<b, c, d, SPACE>>) = <<b, c, d>>
  <2> DEFINE y == <<c, d, SPACE>>
             r == <<c, d>>
  <2>1. <<b>> \o y = <<b, c, d, SPACE>>
    BY ListOf4
  <2>2. y \in Text /\ WithoutSpaces(y) = r
    BY <1>3
  <2>3. <<b>> \o r = <<b, c, d>>
    BY ListOf3
  <2> HIDE DEF y, r
  <2>4. <<b>> \o y \in Text /\ WithoutSpaces(<<b>> \o y) = <<b>> \o r
    BY <2>2, TextClosed, ConsStays
  <2> QED
    BY <2>1, <2>3, <2>4
<1>1. <<a, b, c, d, SPACE>> \in Text /\ WithoutSpaces(<<a, b, c, d, SPACE>>) = <<a, b, c, d>>
  <2> DEFINE y == <<b, c, d, SPACE>>
             r == <<b, c, d>>
  <2>1. <<a>> \o y = <<a, b, c, d, SPACE>>
    BY ListOf5
  <2>2. y \in Text /\ WithoutSpaces(y) = r
    BY <1>2
  <2>3. <<a>> \o r = <<a, b, c, d>>
    BY ListOf4
  <2> HIDE DEF y, r
  <2>4. <<a>> \o y \in Text /\ WithoutSpaces(<<a>> \o y) = <<a>> \o r
    BY <2>2, TextClosed, ConsStays
  <2> QED
    BY <2>1, <2>3, <2>4
<1> QED
  BY <1>1

LEMMA WordsOfTrim ==
  ASSUME NEW a \in Pieces, NEW b \in Pieces, NEW c \in Pieces, NEW d \in Pieces,
         a # SPACE, b # SPACE, c # SPACE, d # SPACE
  PROVE  <<a, SPACE, b, a, SPACE, c, d>> \in Text /\ WithoutSpaces(<<a, SPACE, b, a, SPACE, c, d>>) = <<a, b, a, c, d>>
<1>0. SPACE \in Pieces
  BY AllMarks, MarkFacts
<1>7. <<d>> \in Text /\ WithoutSpaces(<<d>>) = <<d>>
  BY <1>0, TextClosed, WithoutSpacesPiece
<1>6. <<c, d>> \in Text /\ WithoutSpaces(<<c, d>>) = <<c, d>>
  <2> DEFINE y == <<d>>
             r == <<d>>
  <2>1. <<c>> \o y = <<c, d>>
    BY ListOf2
  <2>2. y \in Text /\ WithoutSpaces(y) = r
    BY <1>7
  <2>3. <<c>> \o r = <<c, d>>
    BY ListOf2
  <2> HIDE DEF y, r
  <2>4. <<c>> \o y \in Text /\ WithoutSpaces(<<c>> \o y) = <<c>> \o r
    BY <2>2, TextClosed, ConsStays
  <2> QED
    BY <2>1, <2>3, <2>4
<1>5. <<SPACE, c, d>> \in Text /\ WithoutSpaces(<<SPACE, c, d>>) = <<c, d>>
  <2> DEFINE y == <<c, d>>
             r == <<c, d>>
  <2>1. <<SPACE>> \o y = <<SPACE, c, d>>
    BY ListOf3
  <2>2. y \in Text /\ WithoutSpaces(y) = r
    BY <1>6
  <2> HIDE DEF y, r
  <2>3. <<SPACE>> \o y \in Text /\ WithoutSpaces(<<SPACE>> \o y) = r
    BY <1>0, <2>2, TextClosed, ConsDropped
  <2> QED
    BY <2>1, <2>3 DEF r
<1>4. <<a, SPACE, c, d>> \in Text /\ WithoutSpaces(<<a, SPACE, c, d>>) = <<a, c, d>>
  <2> DEFINE y == <<SPACE, c, d>>
             r == <<c, d>>
  <2>1. <<a>> \o y = <<a, SPACE, c, d>>
    BY ListOf4
  <2>2. y \in Text /\ WithoutSpaces(y) = r
    BY <1>5
  <2>3. <<a>> \o r = <<a, c, d>>
    BY ListOf3
  <2> HIDE DEF y, r
  <2>4. <<a>> \o y \in Text /\ WithoutSpaces(<<a>> \o y) = <<a>> \o r
    BY <2>2, TextClosed, ConsStays
  <2> QED
    BY <2>1, <2>3, <2>4
<1>3. <<b, a, SPACE, c, d>> \in Text /\ WithoutSpaces(<<b, a, SPACE, c, d>>) = <<b, a, c, d>>
  <2> DEFINE y == <<a, SPACE, c, d>>
             r == <<a, c, d>>
  <2>1. <<b>> \o y = <<b, a, SPACE, c, d>>
    BY ListOf5
  <2>2. y \in Text /\ WithoutSpaces(y) = r
    BY <1>4
  <2>3. <<b>> \o r = <<b, a, c, d>>
    BY ListOf4
  <2> HIDE DEF y, r
  <2>4. <<b>> \o y \in Text /\ WithoutSpaces(<<b>> \o y) = <<b>> \o r
    BY <2>2, TextClosed, ConsStays
  <2> QED
    BY <2>1, <2>3, <2>4
<1>2. <<SPACE, b, a, SPACE, c, d>> \in Text /\ WithoutSpaces(<<SPACE, b, a, SPACE, c, d>>) = <<b, a, c, d>>
  <2> DEFINE y == <<b, a, SPACE, c, d>>
             r == <<b, a, c, d>>
  <2>1. <<SPACE>> \o y = <<SPACE, b, a, SPACE, c, d>>
    BY ListOf6
  <2>2. y \in Text /\ WithoutSpaces(y) = r
    BY <1>3
  <2> HIDE DEF y, r
  <2>3. <<SPACE>> \o y \in Text /\ WithoutSpaces(<<SPACE>> \o y) = r
    BY <1>0, <2>2, TextClosed, ConsDropped
  <2> QED
    BY <2>1, <2>3 DEF r
<1>1. <<a, SPACE, b, a, SPACE, c, d>> \in Text /\ WithoutSpaces(<<a, SPACE, b, a, SPACE, c, d>>) = <<a, b, a, c, d>>
  <2> DEFINE y == <<SPACE, b, a, SPACE, c, d>>
             r == <<b, a, c, d>>
  <2>1. <<a>> \o y = <<a, SPACE, b, a, SPACE, c, d>>
    BY ListOf7
  <2>2. y \in Text /\ WithoutSpaces(y) = r
    BY <1>2
  <2>3. <<a>> \o r = <<a, b, a, c, d>>
    BY ListOf5
  <2> HIDE DEF y, r
  <2>4. <<a>> \o y \in Text /\ WithoutSpaces(<<a>> \o y) = <<a>> \o r
    BY <2>2, TextClosed, ConsStays
  <2> QED
    BY <2>1, <2>3, <2>4
<1> QED
  BY <1>1

-----------------------------------------------------------------------------
(* A chain whose steps have succeeded so far.                               *)
Going(lex, args) == [ok |-> TRUE, lex |-> lex, args |-> args]

LEMMA ChainStarts == \A lex : Chain(lex) = Going(lex, <<>>)
BY DEF Chain, Going

LEMMA ExpectGoes ==
  ASSUME NEW seq, Prepared(seq), NEW lex, NEW k, NEW e, Facing(seq, lex, k, e),
         NEW p \in Delimiters, seq[k] = p, NEW args
  PROVE  Expect(seq, Going(lex, args), p) = Going(At(k + 1, e), args)
<1>1. Peek(seq, lex).type = p /\ Consume(seq, lex) = At(k + 1, e)
  BY FacingFacts, MarkFacts
<1> QED
  BY <1>1 DEF Expect, Going

LEMMA SkipGoes ==
  ASSUME NEW seq, Prepared(seq), NEW lex, NEW k, NEW e, Facing(seq, lex, k, e), NEW args
  PROVE  Skip(seq, Going(lex, args)) = Going(At(k + 1, e), args)
<1>1. Consume(seq, lex) = At(k + 1, e)
  BY FacingFacts
<1> QED
  BY <1>1 DEF Skip, Going

LEMMA SpacesGo ==
  ASSUME NEW seq, NEW lex, NEW args
  PROVE  Spaces(seq, Going(lex, args)) = Going(SkipSpaces(seq, lex), args)
BY DEF Spaces, Going

LEMMA ArgumentGoes ==
  ASSUME NEW seq, NEW l, NEW lex, NEW args, NEW o, NEW next, o # <<>>,
         IdentOrFunction(seq, l, lex) = Result(o, next)
  PROVE  Argument(seq, l, Going(lex, args)) = Going(next, Append(args, o))
<1> DEFINE r == IdentOrFunction(seq, l, lex)
<1>1. r.out = o /\ r.lex = next
  BY ResultParts
<1>2. Argument(seq, l, Going(lex, args)) = Added(Going(lex, args), r)
  BY DEF Argument, Going
<1> HIDE DEF r
<1>3. Added(Going(lex, args), r) = Going(next, Append(args, o))
  BY <1>1 DEF Added, Going
<1> QED
  BY <1>2, <1>3

LEMMA DroppedGoes ==
  ASSUME NEW seq, NEW l, NEW lex, NEW args, NEW o, NEW next,
         IdentOrFunction(seq, l, lex) = Result(o, next)
  PROVE  Dropped(seq, l, Going(lex, args)) = Going(next, args)
<1>1. IdentOrFunction(seq, l, lex).lex = next
  BY ResultParts
<1> QED
  BY <1>1 DEF Dropped, Going

LEMMA UnitGoes ==
  ASSUME NEW seq, Prepared(seq), NEW lex, NEW k, NEW e, Facing(seq, lex, k, e), NEW args,
         seq[k] \in DOMAIN UnitsMap
  PROVE  Unit(seq, Going(lex, args)) = Going(At(k + 1, e), <<seq[k]>>)
<1>1. Peek(seq, lex).type = Type(seq[k]) /\ Consume(seq, lex) = At(k + 1, e) /\ k \in 1..Len(seq)
  BY FacingFacts
<1>2. Type(seq[k]) = seq[k]
  <2>1. seq[k] \in Keywords
    BY MapFacts
  <2>2. \A p \in Keywords : Type(seq[k]) = p <=> seq[k] = p
    BY <1>1, ReadType
  <2> QED
    BY <2>1, <2>2
<1> QED
  BY <1>1, <1>2 DEF Unit, Going

LEMMA ContributionGoes ==
  ASSUME NEW seq, NEW lex, NEW args, NEW o
  PROVE  Contribution(seq, Going(lex, args), o) = Result(o, lex)
BY DEF Contribution, Going

LEMMA ListOfThree ==
  ASSUME NEW a, NEW b, NEW c
  PROVE  Append(<<a, b>>, c) = <<a, b, c>>
<1> DEFINE S == {a, b, c}
           x == <<a, b>>
           y == <<a, b, c>>
<1>1. x \in Seq(S) /\ c \in S /\ Len(x) = 2 /\ x[1] = a /\ x[2] = b
  OBVIOUS
<1>2. y \in Seq(S) /\ Len(y) = 3 /\ y[1] = a /\ y[2] = b /\ y[3] = c
  OBVIOUS
<1> HIDE DEF S, x, y
<1>3. Append(x, c) \in Seq(S)
  BY <1>1
<1> HIDE DEF S
<1>4. Len(Append(x, c)) = Len(x) + 1
  BY <1>1, AppendProperties, Zenon
<1>5. \A i \in 1..Len(x) : Append(x, c)[i] = x[i]
  <2>1. x \in Seq(S) /\ c \in S
    BY <1>1
  <2> QED
    BY <2>1, AppendProperties
<1>6. Append(x, c)[Len(x) + 1] = c
  BY <1>1, AppendProperties, Zenon
<1>7. 1 \in 1..Len(x) /\ 2 \in 1..Len(x) /\ Len(x) + 1 = 3
  BY <1>1
<1>8. Append(x, c) = y
  BY <1>1, <1>2, <1>3, <1>4, <1>5, <1>6, <1>7, SeqEqual
<1> QED
  BY <1>8 DEF x, y

(* The arguments of a chain.                                                *)
LEMMA ArgumentLists ==
  ASSUME NEW a, NEW b, NEW c
  PROVE  /\ Append(<<>>, a) = <<a>> /\ <<a>>[1] = a
         /\ Append(<<a>>, b) = <<a, b>> /\ <<a, b>>[1] = a /\ <<a, b>>[2] = b
         /\ Append(<<a, b>>, c) = <<a, b, c>>
         /\ <<a, b, c>>[1] = a /\ <<a, b, c>>[2] = b /\ <<a, b, c>>[3] = c
<1>1. Append(<<>>, a) = <<a>> /\ <<a>>[1] = a
  OBVIOUS
<1>2. Append(<<a>>, b) = <<a, b>> /\ <<a, b>>[1] = a /\ <<a, b>>[2] = b
  BY TwoTokens
<1>3. Append(<<a, b>>, c) = <<a, b, c>>
  BY ListOfThree
<1>4. <<a, b, c>>[1] = a /\ <<a, b, c>>[2] = b /\ <<a, b, c>>[3] = c
  OBVIOUS
<1> QED
  BY <1>1, <1>2, <1>3, <1>4

-----------------------------------------------------------------------------
(* What it takes to say that the code reads the phrase w as a call of a      *)
(* function: it stops before the brace that follows, or before the blanks   *)
(* in front of it.                                                          *)
ReadsCall(seq, part, m, k, v) ==
  \E lex \in Lexers, j \in 1..Len(seq), d \in BOOLEAN :
    /\ j > k /\ WordAt(seq, j, RCURLY, v)
    /\ Yields(part, m, lex)
    /\ SkipSpaces(seq, lex) = Seeing(seq, j, d)

IsFunction(seq, w, m) ==
  /\ Begins(w)
  /\ \A lex : \A n \in Fuel(seq), k \in 1..Len(seq), v \in Text :
       Facing(seq, lex, k, FALSE) /\ seq[k] # SPACE
       /\ n + k > Len(seq) /\ Words(seq)[k] = w \o (<<RCURLY>> \o v) =>
         ReadsCall(seq, Function(seq, Levels(seq)[n], lex), m, k, v)

LEMMA CallEnds ==
  ASSUME NEW seq, Prepared(seq), NEW k \in 1..Len(seq), NEW i \in PlacesIn(seq), i > k,
         NEW v \in Text,
         Words(seq)[i] = <<RCURLY>> \o v, NEW d \in BOOLEAN, NEW part, NEW m, Yields(part, m, At(i, d))
  PROVE  ReadsCall(seq, part, m, k, v)
<1>1. Len(seq) \in Nat /\ i \in 1..(Len(seq) + 1) /\ RCURLY \in Pieces /\ i \in Nat
  <2>1. RCURLY \in Pieces
    BY AllMarks, MarkFacts
  <2> QED
    BY <2>1, TextPlaces DEF Prepared, PlacesIn
<1> DEFINE j == First(seq, i)
<1>2. j \in i..Len(seq) /\ WordAt(seq, j, RCURLY, v)
  BY <1>1, NextWord
<1>3. SkipSpaces(seq, At(i, d)) = Seeing(seq, j, d)
  BY <1>1, NextWord
<1>4. At(i, d) \in Lexers
  BY <1>1, LexersAt, Zenon
<1> HIDE DEF j
<1>5. j \in 1..Len(seq) /\ j > k
  BY <1>1, <1>2
<1> QED
  BY <1>2, <1>3, <1>4, <1>5 DEF ReadsCall

LEMMA CallEndsSeen ==
  ASSUME NEW seq, Prepared(seq), NEW k \in 1..Len(seq), NEW j \in 1..Len(seq), j > k,
         NEW v \in Text,
         WordAt(seq, j, RCURLY, v), NEW part, NEW m, Yields(part, m, Seeing(seq, j, FALSE))
  PROVE  ReadsCall(seq, part, m, k, v)
<1> DEFINE d == FALSE
<1>1. d \in BOOLEAN /\ Yields(part, m, Seeing(seq, j, d))
  OBVIOUS
<1> HIDE DEF d
<1>2. Seeing(seq, j, d) \in Lexers
  BY <1>1, LexersAt, Zenon
<1>3. j \in 1..(Len(seq) + 1) /\ j <= Len(seq) /\ seq[j] # SPACE /\ seq \in Text
  BY TextPlaces DEF WordAt, Prepared
<1>4. First(seq, j) = j
  BY <1>3, FirstFacts
<1>5. SkipSpaces(seq, Seeing(seq, j, d)) = Seeing(seq, First(seq, j), d)
  <2>1. j \in 1..Len(seq) + 1
    BY <1>3
  <2> QED
    BY <1>1, <1>4, <2>1, SkipFaces
<1> QED
  BY <1>1, <1>2, <1>4, <1>5 DEF ReadsCall

(* How a call begins.                                                       *)
LEMMA CallIsNamed ==
  ASSUME NEW seq, Prepared(seq), NEW lex, NEW k, Facing(seq, lex, k, FALSE), seq[k] \in Keywords,
         NEW l
  PROVE  Function(seq, l, lex) = Named(seq, l, seq[k], At(k + 1, FALSE))
<1> DEFINE e == FALSE
<1>1. Facing(seq, lex, k, e)
  OBVIOUS
<1> HIDE DEF e
<1>2. Function(seq, l, lex) = Named(seq, l, seq[k], At(k + 1, e))
  BY <1>1, FunctionNamed
<1> QED
  BY <1>2 DEF e

LEMMA KeywordBegins ==
  ASSUME NEW p \in Keywords, NEW w \in Text
  PROVE  p \in Pieces /\ <<p>> \o w \in Text /\ Begins(<<p>> \o w)
<1>1. p \in Pieces
  BY LexerAssumption, Zenon
<1>2. <<p>> \o w \in Text
  BY <1>1, TextClosed
<1>3. Begins(<<p>> \o w)
  BY <1>1 DEF Begins, Starting
<1> QED
  BY <1>1, <1>2, <1>3

LEMMA RenamedIsFunction ==
  ASSUME NEW seq, Prepared(seq), NEW f \in DOMAIN FunctionMap \ {"TIMESTAMPADD"},
         NEW w \in Text, NEW m \in Text, IsCopy(seq, f, w, m)
  PROVE  IsFunction(seq, <<f>> \o w, <<FunctionMap[f]>> \o m)
<1> DEFINE x == <<f>> \o w
           g == FunctionMap[f]
           y == <<g>> \o m
<1>1. seq \in Text /\ Len(seq) \in Nat
  BY TextPlaces DEF Prepared
<1>2. f \in Keywords /\ f \in Pieces /\ x \in Text /\ Begins(x)
  BY MapFacts, KeywordBegins
<1>3. <<g>> \in Text /\ WithoutSpaces(<<g>>) = <<g>>
  BY MapFacts, TextClosed, WordStays
<1>4. ASSUME NEW lex, NEW n \in Fuel(seq), NEW k \in 1..Len(seq), NEW v \in Text,
             Facing(seq, lex, k, FALSE), seq[k] # SPACE, n + k > Len(seq),
             Words(seq)[k] = x \o (<<RCURLY>> \o v)
      PROVE  ReadsCall(seq, Function(seq, Levels(seq)[n], lex), y, k, v)
  <2> DEFINE u == <<RCURLY>> \o v
             loops == Levels(seq)[n]
             part == Function(seq, loops, lex)
  <2>1. u \in Text /\ Words(seq)[k] = x \o u
    BY <1>4, BraceBehind
  <2>2. w \o u \in Text /\ Words(seq)[k] = <<f>> \o (w \o u)
    <3> HIDE DEF u
    <3> QED
      BY <1>2, <2>1, WordAhead
  <2>3. part = Named(seq, loops, f, At(k + 1, FALSE)) /\ Words(seq)[k + 1] = w \o u
    <3> HIDE DEF u, loops
    <3>0. WordAt(seq, k, f, w \o u)
      BY <1>2, <1>4, <2>2, WordHere
    <3>1. seq[k] = f /\ Words(seq)[k + 1] = w \o u
      BY <3>0 DEF WordAt
    <3> QED
      BY <1>2, <1>4, <3>1, CallIsNamed
  <2>4. k + 1 \in PlacesIn(seq) /\ n + (k + 1) > Len(seq)
    BY <1>1, <1>4 DEF PlacesIn, Fuel
  <2>5. PICK j \in 1..Len(seq) :
          /\ j >= k + 1 /\ WordAt(seq, j, RCURLY, v)
          /\ Yields(loops.copy[f][At(k + 1, TRUE)], m, Seeing(seq, j, FALSE))
    BY <2>3, <2>4 DEF IsCopy, CopyAt
  <2> HIDE DEF loops
  <2>6. Named(seq, loops, f, At(k + 1, FALSE)) = After(<<g>>, loops.copy[f][At(k + 1, TRUE)])
    <3>1. SetEmitSpaces(At(k + 1, FALSE), TRUE) = At(k + 1, TRUE)
      BY SpacesOfLexers, Zenon
    <3> DEFINE b == FALSE
    <3> HIDE DEF b
    <3>2. Named(seq, loops, f, At(k + 1, b)) = RenamedCall(loops, f, At(k + 1, b))
      BY CallRenamed
    <3> QED
      BY <3>1, <3>2 DEF RenamedCall, b
  <2>7. Yields(part, WithoutSpaces(<<g>>) \o m, Seeing(seq, j, FALSE))
    <3>1. Yields(After(<<g>>, loops.copy[f][At(k + 1, TRUE)]), WithoutSpaces(<<g>>) \o m, Seeing(seq, j, FALSE))
      BY <1>3, <2>5, YieldsAfter
    <3> HIDE DEF part, g
    <3> QED
      BY <2>3, <2>6, <3>1
  <2>8. j > k /\ WordAt(seq, j, RCURLY, v)
    BY <2>5
  <2> HIDE DEF part, g
  <2>9. Yields(part, y, Seeing(seq, j, FALSE))
    BY <1>3, <2>7
  <2> HIDE DEF y
  <2>10. ReadsCall(seq, part, y, k, v)
    BY <2>8, <2>9, CallEndsSeen
  <2> QED
    BY <2>10 DEF part, loops
<1> HIDE DEF x, y
<1>5. IsFunction(seq, x, y)
  BY <1>2, <1>4 DEF IsFunction
<1> QED
  BY <1>5 DEF x, y

LEMMA NowFacts ==
  /\ Now \in Text /\ WithoutSpaces(Now) = Now /\ Now # <<>>
  /\ "CURRENT_TIMESTAMP" \in Keywords
<1>1. "now" \in Pieces /\ "now" # SPACE
  BY EscapesAssumption, Zenon DEF SPACE
<1>2. LPARENT \in Pieces /\ RPARENT \in Pieces /\ LPARENT # SPACE /\ RPARENT # SPACE
  BY AllMarks, MarkFacts, NamesAreApart
<1>3. Now \in Text /\ WithoutSpaces(Now) = Now
  BY <1>1, <1>2, WordsOfThree, Zenon DEF Now
<1>4. Now # <<>>
  BY DEF Now
<1>5. "CURRENT_TIMESTAMP" \in Keywords
  BY DEF Keywords
<1> QED
  BY <1>3, <1>4, <1>5

(* CURRENT_TIMESTAMP, which the code reads without what stands behind it.    *)
LEMMA NowIsFunction ==
  ASSUME NEW seq, Prepared(seq)
  PROVE  IsFunction(seq, <<"CURRENT_TIMESTAMP">>, Now)
<1> DEFINE f == "CURRENT_TIMESTAMP"
           x == <<f>>
           y == Now
<1>1. seq \in Text /\ Len(seq) \in Nat
  BY TextPlaces DEF Prepared
<1>2. f \in Keywords /\ y \in Text /\ WithoutSpaces(y) = y
  BY NowFacts
<1>2a. \A l, lex : Named(seq, l, f, lex) = NowCall(seq, l, lex)
  BY CallNamed
<1> HIDE DEF f, y
<1>3. f \in Pieces /\ x \in Text /\ Begins(x)
  <2>1. x = <<f>> \o <<>> /\ f \in Pieces
    BY <1>2, KeywordBegins, TextClosed, TextEmpty
  <2> QED
    BY <1>2, <2>1, KeywordBegins, TextClosed
<1>4. ASSUME NEW lex, NEW n \in Fuel(seq), NEW k \in 1..Len(seq), NEW v \in Text,
             Facing(seq, lex, k, FALSE), seq[k] # SPACE, n + k > Len(seq),
             Words(seq)[k] = x \o (<<RCURLY>> \o v)
      PROVE  ReadsCall(seq, Function(seq, Levels(seq)[n], lex), y, k, v)
  <2> DEFINE u == <<RCURLY>> \o v
             loops == Levels(seq)[n]
             part == Function(seq, loops, lex)
             i == k + 1
             j == First(seq, i)
  <2> HIDE DEF loops
  <2>1. u \in Text /\ RCURLY \in Pieces /\ Words(seq)[k] = <<f>> \o u
    BY <1>4, BraceBehind
  <2>2. seq[k] = f /\ Words(seq)[i] = u
    <3> HIDE DEF u
    <3>1. WordAt(seq, k, f, u)
      BY <1>3, <1>4, <2>1, WordHere
    <3> QED
      BY <3>1 DEF WordAt
  <2>3. part = NowCall(seq, loops, At(i, FALSE))
    <3>1. part = Named(seq, loops, seq[k], At(k + 1, FALSE))
      BY <1>2, <1>4, <2>2, CallIsNamed
    <3> QED
      BY <1>2a, <2>2, <3>1
  <2>4. i \in 1..(Len(seq) + 1) /\ i > k
    BY <1>1
  <2>5. j \in i..Len(seq) /\ WordAt(seq, j, RCURLY, v)
    BY <2>1, <2>2, <2>4, NextWord
  <2>6. Facing(seq, At(i, FALSE), j, FALSE)
    BY <2>1, <2>2, <2>4, NextWord
  <2>7. j \in 1..Len(seq) /\ j > k
    BY <1>1, <2>4, <2>5
  <2>8. /\ Peek(seq, At(i, FALSE)).type # LPARENT
        /\ Ahead(seq, At(i, FALSE)) = Seeing(seq, j, FALSE)
    <3> DEFINE e == FALSE
               lx == At(i, e)
    <3>1. Facing(seq, lx, j, e)
      BY <2>6
    <3> HIDE DEF e, lx, j
    <3>2. Peek(seq, lx).type = Type(seq[j]) /\ Ahead(seq, lx) = Seeing(seq, j, e)
      BY <3>1, FacingFacts
    <3>3. Type(seq[j]) = RCURLY /\ RCURLY # LPARENT
      BY <2>5, AllMarks, MarkFacts, NamesAreApart DEF WordAt
    <3> QED
      BY <3>2, <3>3 DEF e, lx
  <2>9. part = Result(y, Seeing(seq, j, FALSE))
    BY <2>3, <2>8 DEF NowCall, y, Now
  <2> HIDE DEF part, j
  <2>10. Yields(part, y, Seeing(seq, j, FALSE))
    BY <1>2, <2>9, YieldsResult
  <2>11. ReadsCall(seq, part, y, k, v)
    BY <2>5, <2>7, <2>10, CallEndsSeen
  <2> QED
    BY <2>11 DEF part, loops
<1> HIDE DEF x
<1>5. IsFunction(seq, x, y)
  BY <1>3, <1>4 DEF IsFunction
<1> QED
  BY <1>5 DEF x, y, f

LEMMA NowGroupIsFunction ==
  ASSUME NEW seq, Prepared(seq), NEW w \in Text, NEW m \in Text, IsGroup(seq, w, m)
  PROVE  IsFunction(seq, <<"CURRENT_TIMESTAMP">> \o w, Now)
<1> DEFINE f == "CURRENT_TIMESTAMP"
           x == <<f>> \o w
           y == Now
<1>1. seq \in Text /\ Len(seq) \in Nat
  BY TextPlaces DEF Prepared
<1>2. f \in Keywords /\ y \in Text /\ WithoutSpaces(y) = y
  BY NowFacts
<1>2a. \A l, lex : Named(seq, l, f, lex) = NowCall(seq, l, lex)
  BY CallNamed
<1> HIDE DEF f, y
<1>3. f \in Pieces /\ x \in Text /\ Begins(x)
  BY <1>2, KeywordBegins
<1>4. ASSUME NEW lex, NEW n \in Fuel(seq), NEW k \in 1..Len(seq), NEW v \in Text,
             Facing(seq, lex, k, FALSE), seq[k] # SPACE, n + k > Len(seq),
             Words(seq)[k] = x \o (<<RCURLY>> \o v)
      PROVE  ReadsCall(seq, Function(seq, Levels(seq)[n], lex), y, k, v)
  <2> DEFINE u == <<RCURLY>> \o v
             loops == Levels(seq)[n]
             part == Function(seq, loops, lex)
             i == k + 1
             group == Parentheses(seq, loops, At(i, FALSE))
  <2>1. u \in Text /\ Words(seq)[k] = x \o u
    BY <1>4, BraceBehind
  <2>2. w \o u \in Text /\ Words(seq)[k] = <<f>> \o (w \o u)
    <3> HIDE DEF u
    <3> QED
      BY <1>3, <2>1, WordAhead
  <2>3. seq[k] = f /\ Words(seq)[i] = w \o u
    <3> HIDE DEF u, loops
    <3>1. WordAt(seq, k, f, w \o u)
      BY <1>3, <1>4, <2>2, WordHere
    <3> QED
      BY <3>1 DEF WordAt
  <2>4. part = NowCall(seq, loops, At(i, FALSE))
    <3> HIDE DEF loops
    <3>1. part = Named(seq, loops, seq[k], At(k + 1, FALSE))
      BY <1>2, <1>4, <2>3, CallIsNamed
    <3> QED
      BY <1>2a, <2>3, <3>1
  <2>5. PICK i2 \in PlacesIn(seq) : i2 > k /\ Words(seq)[i2] = u /\ Yields(group, m, At(i2, TRUE))
    <3> HIDE DEF u
    <3> DEFINE e == FALSE
               lx == At(i, e)
    <3>1. e \in BOOLEAN /\ lx = At(k + 1, e) /\ n + k >= Len(seq)
      BY <1>1, <1>4 DEF Fuel
    <3> HIDE DEF e, lx
    <3>2. ReadsGroup(seq, Parentheses(seq, Levels(seq)[n], lx), m, k, u)
      BY <1>4, <2>1, <2>3, <3>1, GroupRead
    <3> QED
      BY <3>2 DEF ReadsGroup, lx, e
  <2> HIDE DEF loops
  <2>6. Peek(seq, At(i, FALSE)).type = LPARENT
    <3> HIDE DEF u
    <3>1. i \in 1..Len(seq) /\ First(seq, i) = i /\ seq[i] = LPARENT
      BY <2>1, <2>3, GroupBehind
    <3> DEFINE e == FALSE
               lx == At(i, e)
    <3>2. Facing(seq, lx, i, e)
      <4>1. i \in Nat /\ First(seq, i) \in 1..Len(seq)
        BY <1>1, <3>1
      <4> HIDE DEF i
      <4>2. Facing(seq, At(i, FALSE), First(seq, i), FALSE)
        BY <4>1, AtFaces
      <4> QED
        BY <3>1, <4>2
    <3> HIDE DEF e, lx
    <3>3. Peek(seq, lx).type = Type(seq[i])
      BY <3>2, FacingFacts
    <3>4. Type(seq[i]) = LPARENT
      BY <3>1, AllMarks, MarkFacts
    <3> QED
      BY <3>3, <3>4 DEF e, lx
  <2>7. part = Result(y, group.lex)
    BY <2>4, <2>6 DEF NowCall, y, Now
  <2> HIDE DEF part, group
  <2>8. group.lex = At(i2, TRUE)
    BY <2>5, YieldsParts
  <2>9. Yields(part, y, At(i2, TRUE))
    BY <1>2, <2>7, <2>8, YieldsResult
  <2>10. ReadsCall(seq, part, y, k, v)
    <3> DEFINE d == TRUE
    <3>1. d \in BOOLEAN /\ Yields(part, y, At(i2, d))
      BY <2>9
    <3> HIDE DEF d
    <3> QED
      BY <2>5, <3>1, CallEnds
  <2> QED
    BY <2>10 DEF part, loops
<1> HIDE DEF x
<1>5. IsFunction(seq, x, y)
  BY <1>3, <1>4 DEF IsFunction
<1> QED
  BY <1>5 DEF x, y, f

-----------------------------------------------------------------------------
(* The steps of a chain, where their words are.                             *)
LEMMA ArgumentRead ==
  ASSUME NEW seq, Prepared(seq), NEW a \in Text, NEW m \in Text, IsArgument(seq, a, m),
         NEW n \in Fuel(seq), NEW i \in PlacesIn(seq), NEW e \in BOOLEAN, NEW c \in Ends,
         NEW v \in Text,
         n + i >= Len(seq), Words(seq)[i] = a \o (<<c>> \o v)
  PROVE  ReadsAs(seq, IdentOrFunction(seq, Levels(seq)[n], At(i, e)), m, i, c, v)
<1> DEFINE u == <<c>> \o v
           k == First(seq, i)
<1>1. Len(seq) \in Nat /\ i \in 1..(Len(seq) + 1) /\ u \in Text
  BY TextPlaces, EndFacts DEF Prepared, PlacesIn
<1>2. PICK p \in Pieces, r \in Text : a = <<p>> \o r
  BY DEF IsArgument, Begins, Starting
<1>3. r \o u \in Text /\ Words(seq)[i] = <<p>> \o (r \o u)
  <2> HIDE DEF u
  <2>1. Words(seq)[i] = a \o u
    BY DEF u
  <2> QED
    BY <1>1, <1>2, <2>1, WordAhead
<1>4. k \in i..Len(seq) /\ WordAt(seq, k, p, r \o u)
  <2> HIDE DEF u
  <2> QED
    BY <1>1, <1>3, NextWord
<1>5. SkipSpaces(seq, At(i, e)) = Seeing(seq, k, e)
  <2> HIDE DEF u
  <2> QED
    BY <1>1, <1>3, NextWord
<1>6. seq[k] # SPACE /\ Words(seq)[k] = a \o (<<c>> \o v)
  <2> HIDE DEF k
  <2> QED
    BY <1>3, <1>4 DEF WordAt
<1>7. k \in 1..Len(seq) /\ n + k >= Len(seq) /\ k >= i
  <2> HIDE DEF k
  <2> QED
    BY <1>1, <1>4 DEF Fuel
<1> HIDE DEF k
<1>8. ReadsAs(seq, IdentOrFunctionAt(seq, Levels(seq)[n], Seeing(seq, k, e)), m, k, c, v)
  BY <1>6, <1>7 DEF IsArgument
<1>9. ReadsAs(seq, IdentOrFunction(seq, Levels(seq)[n], At(i, e)), m, k, c, v)
  BY <1>5, <1>8 DEF IdentOrFunction
<1> DEFINE part == IdentOrFunction(seq, Levels(seq)[n], At(i, e))
<1> HIDE DEF part
<1>10. PICK j \in 1..Len(seq), d \in BOOLEAN : j > k /\ WordAt(seq, j, c, v) /\ Yields(part, m, Seeing(seq, j, d))
  BY <1>9 DEF ReadsAs, part
<1>11. j > i
  BY <1>1, <1>7, <1>10
<1> QED
  BY <1>10, <1>11 DEF ReadsAs, part

Adds(seq, l, i, e, args, m, c, v) ==
  \E o \in Text, j \in 1..Len(seq), d \in BOOLEAN :
    /\ j > i /\ WordAt(seq, j, c, v)
    /\ WithoutSpaces(o) = m
    /\ Argument(seq, l, Going(At(i, e), args)) = Going(Seeing(seq, j, d), Append(args, o))
    /\ Dropped(seq, l, Going(At(i, e), args)) = Going(Seeing(seq, j, d), args)

LEMMA ArgumentAdds ==
  ASSUME NEW seq, Prepared(seq), NEW a \in Text, NEW m \in Text, IsArgument(seq, a, m),
         NEW n \in Fuel(seq), NEW i \in PlacesIn(seq), NEW e \in BOOLEAN, NEW c \in Ends,
         NEW v \in Text,
         n + i >= Len(seq), Words(seq)[i] = a \o (<<c>> \o v), NEW args
  PROVE  Adds(seq, Levels(seq)[n], i, e, args, m, c, v)
<1> DEFINE l == Levels(seq)[n]
           part == IdentOrFunction(seq, l, At(i, e))
<1>1. ReadsAs(seq, part, m, i, c, v)
  BY ArgumentRead
<1> HIDE DEF l, part
<1>2. PICK j \in 1..Len(seq), d \in BOOLEAN : j > i /\ WordAt(seq, j, c, v) /\ Yields(part, m, Seeing(seq, j, d))
  BY <1>1 DEF ReadsAs
<1>3. PICK o \in Text : part = Result(o, Seeing(seq, j, d)) /\ WithoutSpaces(o) = m
  BY <1>2 DEF Yields
<1>4. o # <<>>
  BY <1>3, WithoutSpacesPiece DEF IsArgument
<1>5. IdentOrFunction(seq, l, At(i, e)) = Result(o, Seeing(seq, j, d))
  BY <1>3 DEF part
<1>6. Argument(seq, l, Going(At(i, e), args)) = Going(Seeing(seq, j, d), Append(args, o))
  BY <1>4, <1>5, ArgumentGoes
<1>7. Dropped(seq, l, Going(At(i, e), args)) = Going(Seeing(seq, j, d), args)
  BY <1>5, DroppedGoes
<1>8. Adds(seq, l, i, e, args, m, c, v)
  BY <1>2, <1>3, <1>6, <1>7 DEF Adds
<1> QED
  BY <1>8 DEF l

(* A separator that the lexer has read ahead is passed.                     *)
LEMMA SeenSkipped ==
  ASSUME NEW seq, Prepared(seq), NEW j \in 1..Len(seq), NEW d \in BOOLEAN, NEW args
  PROVE  Skip(seq, Going(Seeing(seq, j, d), args)) = Going(At(j + 1, d), args)
<1>1. Facing(seq, Seeing(seq, j, d), j, d)
  BY SeeingFaces
<1> QED
  BY <1>1, SkipGoes

LEMMA SeenExpected ==
  ASSUME NEW seq, Prepared(seq), NEW j \in 1..Len(seq), NEW d \in BOOLEAN, NEW args,
         NEW p \in Delimiters, NEW v \in Text, WordAt(seq, j, p, v)
  PROVE  Expect(seq, Spaces(seq, Going(Seeing(seq, j, d), args)), p) = Going(At(j + 1, d), args)
<1>1. j \in 1..(Len(seq) + 1) /\ j <= Len(seq) /\ seq[j] # SPACE /\ seq[j] = p /\ seq \in Text
  BY TextPlaces DEF WordAt, Prepared
<1>2. First(seq, j) = j
  BY <1>1, FirstFacts
<1>3. SkipSpaces(seq, Seeing(seq, j, d)) = Seeing(seq, First(seq, j), d)
  <2>1. j \in 1..Len(seq) + 1
    BY <1>1
  <2> QED
    BY <1>2, <2>1, SkipFaces
<1>4. Spaces(seq, Going(Seeing(seq, j, d), args)) = Going(Seeing(seq, j, d), args)
  BY <1>2, <1>3, SpacesGo
<1>5. Facing(seq, Seeing(seq, j, d), j, d)
  BY SeeingFaces
<1> QED
  BY <1>1, <1>4, <1>5, ExpectGoes

(* Where blanks are no tokens, a word is expected wherever it stands.       *)
Passed(seq, i, p, u) ==
  LET k == First(seq, i)
  IN /\ k \in 1..Len(seq) /\ k >= i /\ k + 1 \in PlacesIn(seq)
     /\ seq[k] = p /\ Words(seq)[k + 1] = u
     /\ Facing(seq, At(i, FALSE), k, FALSE)

LEMMA WordPassed ==
  ASSUME NEW seq, Prepared(seq), NEW i \in PlacesIn(seq), NEW p \in Pieces, NEW u \in Text,
         Words(seq)[i] = <<p>> \o u
  PROVE  Passed(seq, i, p, u)
<1> DEFINE k == First(seq, i)
<1>1. Len(seq) \in Nat /\ i \in 1..(Len(seq) + 1)
  BY TextPlaces DEF Prepared, PlacesIn
<1>2. k \in i..Len(seq) /\ WordAt(seq, k, p, u) /\ Facing(seq, At(i, FALSE), k, FALSE)
  BY <1>1, NextWord
<1> HIDE DEF k
<1>3. k \in 1..Len(seq) /\ k >= i /\ k + 1 \in PlacesIn(seq)
  BY <1>1, <1>2 DEF PlacesIn
<1>4. seq[k] = p /\ Words(seq)[k + 1] = u
  BY <1>2 DEF WordAt
<1> QED
  BY <1>2, <1>3, <1>4 DEF k, Passed

(* What a step of a chain leaves: the lexer behind the word, at text u.     *)
Goes(seq, i, c, u, args) ==
  \E j \in PlacesIn(seq) : j > i /\ Words(seq)[j] = u /\ c = Going(At(j, FALSE), args)

LEMMA WordExpected ==
  ASSUME NEW seq, Prepared(seq), NEW i \in PlacesIn(seq), NEW p \in Delimiters, NEW u \in Text,
         Words(seq)[i] = <<p>> \o u, NEW args
  PROVE  Goes(seq, i, Expect(seq, Going(At(i, FALSE), args), p), u, args)
<1> DEFINE k == First(seq, i)
<1>0. p \in Pieces
  BY MarkFacts
<1>1. Passed(seq, i, p, u)
  BY <1>0, WordPassed
<1>2. /\ k \in 1..Len(seq) /\ k >= i /\ k + 1 \in PlacesIn(seq)
      /\ seq[k] = p /\ Words(seq)[k + 1] = u
      /\ Facing(seq, At(i, FALSE), k, FALSE)
  BY <1>1 DEF Passed
<1> HIDE DEF k
<1>3. Expect(seq, Going(At(i, FALSE), args), p) = Going(At(k + 1, FALSE), args)
  <2> DEFINE e == FALSE
             lex == At(i, e)
  <2>1. Facing(seq, lex, k, e)
    BY <1>2
  <2> HIDE DEF e, lex
  <2>2. Expect(seq, Going(lex, args), p) = Going(At(k + 1, e), args)
    BY <1>2, <2>1, ExpectGoes
  <2> QED
    BY <2>2 DEF e, lex
<1>4. k + 1 > i
  BY <1>2 DEF PlacesIn
<1> QED
  BY <1>2, <1>3, <1>4 DEF Goes

LEMMA UnitRead ==
  ASSUME NEW seq, Prepared(seq), NEW i \in PlacesIn(seq), NEW p \in DOMAIN UnitsMap,
         NEW u \in Text,
         Words(seq)[i] = <<p>> \o u, NEW args
  PROVE  Goes(seq, i, Unit(seq, Going(At(i, FALSE), args)), u, <<p>>)
<1> DEFINE k == First(seq, i)
<1>0. p \in Pieces
  <2>1. p \in Keywords
    BY MapFacts
  <2> QED
    BY <2>1, LexerAssumption, Zenon
<1>1. Passed(seq, i, p, u)
  BY <1>0, WordPassed
<1>2. /\ k \in 1..Len(seq) /\ k >= i /\ k + 1 \in PlacesIn(seq)
      /\ seq[k] = p /\ Words(seq)[k + 1] = u
      /\ Facing(seq, At(i, FALSE), k, FALSE)
  BY <1>1 DEF Passed
<1> HIDE DEF k
<1>3. Unit(seq, Going(At(i, FALSE), args)) = Going(At(k + 1, FALSE), <<p>>)
  <2> DEFINE e == FALSE
             lex == At(i, e)
  <2>1. Facing(seq, lex, k, e) /\ seq[k] \in DOMAIN UnitsMap
    BY <1>2
  <2> HIDE DEF e, lex
  <2>2. Unit(seq, Going(lex, args)) = Going(At(k + 1, e), <<seq[k]>>)
    BY <2>1, UnitGoes
  <2> QED
    BY <1>2, <2>2 DEF e, lex
<1>4. k + 1 > i
  BY <1>2 DEF PlacesIn
<1> QED
  BY <1>2, <1>3, <1>4 DEF Goes

-----------------------------------------------------------------------------
(* The functions with special arguments.                                    *)
Joined(c, u, y) == \A w \in Text : (w \o c) \o u = w \o y

LEMMA TextJoined ==
  ASSUME NEW c \in Text, NEW u \in Text
  PROVE  Joined(c, u, c \o u)
<1>1. \A w \in Text : (w \o c) \o u = w \o (c \o u)
  BY TextAssoc
<1> QED
  BY <1>1 DEF Joined

CallText(p, q, a, c, u) ==
  ((<<p, q>> \o a) \o <<c>>) \o u = <<p>> \o (<<q>> \o (a \o (<<c>> \o u)))

LEMMA TextRegrouped ==
  ASSUME NEW p \in Pieces, NEW q \in Pieces, NEW c \in Pieces, NEW a \in Text, NEW u \in Text
  PROVE  CallText(p, q, a, c, u)
<1> DEFINE x == (<<p, q>> \o a) \o <<c>>
           t == a \o (<<c>> \o u)
           P == <<p>>
           Q == <<q>>
           C == <<c>>
           PQ == <<p, q>>
           y == C \o u
           w == PQ \o a
           z == Q \o t
<1>1. P \in Text /\ Q \in Text /\ C \in Text
  BY TextClosed
<1>2. PQ = P \o Q
  BY ListOf2
<1>3. x = w \o C /\ t = a \o y
  OBVIOUS
<1> HIDE DEF x, t, P, Q, C, PQ
<1>4. PQ \in Text /\ y \in Text /\ w \in Text
  <2>1. PQ \in Text
    BY <1>1, <1>2, TextClosed
  <2> QED
    BY <1>1, <2>1, TextClosed
<1>5. Joined(C, u, y)
  BY <1>1, TextJoined
<1> HIDE DEF y
<1>6. Joined(a, y, t)
  BY <1>3, <1>4, TextJoined
<1>7. t \in Text
  BY <1>3, <1>4, TextClosed
<1>8. Joined(Q, t, z)
  BY <1>1, <1>7, TextJoined
<1>9. PQ \o t = P \o z
  BY <1>1, <1>2, <1>8 DEF Joined
<1>10. w \o y = PQ \o t
  BY <1>4, <1>6 DEF Joined
<1> HIDE DEF w, z
<1>11. x \o u = w \o y
  BY <1>3, <1>4, <1>5 DEF Joined
<1>12. x \o u = P \o z
  BY <1>9, <1>10, <1>11
<1> QED
  BY <1>12 DEF x, t, P, Q, z, CallText

(* How such a call begins.                                                  *)
Called(seq, l, lex, k, p, t) ==
  /\ Function(seq, l, lex) = Named(seq, l, p, At(k + 1, FALSE))
  /\ Goes(seq, k, Expect(seq, Chain(At(k + 1, FALSE)), LPARENT), t, <<>>)

LEMMA CallBegins ==
  ASSUME NEW seq, Prepared(seq), NEW lex, NEW l,
         NEW k \in 1..Len(seq), Facing(seq, lex, k, FALSE), seq[k] # SPACE,
         NEW p \in Keywords, NEW t \in Text, Words(seq)[k] = <<p>> \o (<<LPARENT>> \o t)
  PROVE  Called(seq, l, lex, k, p, t)
<1> DEFINE r == <<LPARENT>> \o t
           c == Going(At(k + 1, FALSE), <<>>)
<1>1. LPARENT \in Delimiters /\ LPARENT \in Pieces /\ p \in Pieces /\ r \in Text
  <2>1. LPARENT \in Delimiters /\ LPARENT \in Pieces
    BY AllMarks, MarkFacts
  <2>2. p \in Pieces
    BY TextClosed, KeywordBegins
  <2> QED
    BY <2>1, <2>2, TextClosed
<1>2. Len(seq) \in Nat /\ k + 1 \in PlacesIn(seq)
  BY TextPlaces DEF Prepared, PlacesIn
<1>3. seq[k] = p /\ Words(seq)[k + 1] = r
  <2> HIDE DEF r
  <2>1. Words(seq)[k] = <<p>> \o r
    BY DEF r
  <2>2. WordAt(seq, k, p, r)
    BY <1>1, <2>1, WordHere
  <2> QED
    BY <2>2 DEF WordAt
<1>4. Function(seq, l, lex) = Named(seq, l, p, At(k + 1, FALSE))
  BY <1>3, CallIsNamed
<1>5. Goes(seq, k + 1, Expect(seq, c, LPARENT), t, <<>>)
  BY <1>1, <1>2, <1>3, WordExpected
<1>6. Chain(At(k + 1, FALSE)) = c
  BY ChainStarts
<1> HIDE DEF c
<1>7. Goes(seq, k, Expect(seq, c, LPARENT), t, <<>>)
  <2> HIDE DEF r
  <2>1. PICK j \in PlacesIn(seq) : j > k + 1 /\ Words(seq)[j] = t /\ Expect(seq, c, LPARENT) = Going(At(j, FALSE), <<>>)
    BY <1>5 DEF Goes
  <2>2. j > k
    BY <1>2, <2>1 DEF PlacesIn
  <2> QED
    BY <2>1, <2>2 DEF Goes
<1> QED
  BY <1>4, <1>6, <1>7 DEF Called

LEMMA TrimmedGoes ==
  ASSUME NEW seq, NEW lex, NEW o \in Text
  PROVE  Yields(Trimmed(seq, Going(lex, <<o>>)),
                <<"replaceRegexpOne", LPARENT>> \o WithoutSpaces(o) \o <<COMMA, "'^s'", COMMA, "''", RPARENT>>, lex)
<1> DEFINE A == <<"replaceRegexpOne", LPARENT>>
           B == <<COMMA, SPACE, "'^s'", COMMA, SPACE, "''", RPARENT>>
           C == <<COMMA, "'^s'", COMMA, "''", RPARENT>>
           written == (A \o o) \o B
<1>1. A \in Text /\ WithoutSpaces(A) = A
  <2>1. "replaceRegexpOne" \in Pieces /\ LPARENT \in Pieces /\ LPARENT # SPACE
    BY EscapesAssumption, AllMarks, MarkFacts, NamesAreApart
  <2>2. "replaceRegexpOne" # SPACE
    BY Zenon DEF SPACE
  <2> QED
    BY <2>1, <2>2, WordsOfTwo
<1>2. B \in Text /\ WithoutSpaces(B) = C
  <2> DEFINE s == "'^s'"
             t == "''"
  <2>1. s \in Pieces /\ t \in Pieces
    BY EscapesAssumption, Zenon
  <2>2. s # SPACE /\ t # SPACE
    BY Zenon DEF SPACE
  <2>3. COMMA \in Pieces /\ RPARENT \in Pieces /\ COMMA # SPACE /\ RPARENT # SPACE
    BY AllMarks, MarkFacts, NamesAreApart
  <2> HIDE DEF s, t
  <2>4. <<COMMA, SPACE, s, COMMA, SPACE, t, RPARENT>> \in Text
         /\ WithoutSpaces(<<COMMA, SPACE, s, COMMA, SPACE, t, RPARENT>>) = <<COMMA, s, COMMA, t, RPARENT>>
    BY <2>1, <2>2, <2>3, WordsOfTrim
  <2> QED
    BY <2>4 DEF s, t
<1>3. Trimmed(seq, Going(lex, <<o>>)) = Result(written, lex)
  <2>1. Going(lex, <<o>>).args[1] = o
    BY DEF Going
  <2>2. Trimmed(seq, Going(lex, <<o>>)) = Contribution(seq, Going(lex, <<o>>), written)
    BY <2>1, Zenon DEF Trimmed
  <2> HIDE DEF written
  <2> QED
    BY <2>2, ContributionGoes
<1> HIDE DEF A, B, C
<1>4. written \in Text /\ A \o o \in Text
  BY <1>1, <1>2, TextClosed
<1>5. WithoutSpaces(written) = (A \o WithoutSpaces(o)) \o C
  <2>1. WithoutSpaces(written) = WithoutSpaces(A \o o) \o WithoutSpaces(B)
    BY <1>2, <1>4, WithoutSpacesConcat
  <2>2. WithoutSpaces(A \o o) = WithoutSpaces(A) \o WithoutSpaces(o)
    BY <1>1, WithoutSpacesConcat
  <2> QED
    BY <1>1, <1>2, <2>1, <2>2
<1> HIDE DEF written
<1>6. Yields(Trimmed(seq, Going(lex, <<o>>)), (A \o WithoutSpaces(o)) \o C, lex)
  BY <1>3, <1>4, <1>5 DEF Yields
<1> QED
  BY <1>6 DEF A, C

LEMMA TrimIsFunction ==
  ASSUME NEW seq, Prepared(seq), NEW a \in Text, NEW m \in Text, IsArgument(seq, a, m)
  PROVE  IsFunction(seq, <<"LTRIM", LPARENT>> \o a \o <<RPARENT>>,
                    <<"replaceRegexpOne", LPARENT>> \o m \o <<COMMA, "'^s'", COMMA, "''", RPARENT>>)
<1> DEFINE p == "LTRIM"
           x == (<<p, LPARENT>> \o a) \o <<RPARENT>>
           y == <<"replaceRegexpOne", LPARENT>> \o m \o <<COMMA, "'^s'", COMMA, "''", RPARENT>>
<1>1. p \in Keywords
  BY DEF Keywords
<1>2. p \in Pieces /\ LPARENT \in Pieces /\ RPARENT \in Pieces /\ RPARENT \in Ends
  <2>1. p \in Pieces
    BY <1>1, KeywordBegins, TextClosed
  <2>2. LPARENT \in Pieces /\ RPARENT \in Pieces
    BY AllMarks, MarkFacts
  <2> QED
    BY <2>1, <2>2 DEF Ends
<1>3. Len(seq) \in Nat
  BY TextPlaces DEF Prepared
<1>4. Begins(x)
  <2>1. <<>> \in Text
    BY TextClosed
  <2> DEFINE t == <<LPARENT>> \o (a \o (<<RPARENT>> \o <<>>))
  <2>2. x \o <<>> = <<p>> \o t
    <3> HIDE DEF p
    <3>1. CallText(p, LPARENT, a, RPARENT, <<>>)
      BY <1>2, <2>1, TextRegrouped
    <3> QED
      BY <3>1 DEF CallText
  <2>3. t \in Text
    BY <1>2, <2>1, TextClosed
  <2>4. x \in Text
    <3>1. <<p, LPARENT>> = <<p>> \o <<LPARENT>>
      BY ListOf2
    <3> HIDE DEF p
    <3>2. <<p, LPARENT>> \in Text
      BY <1>2, <3>1, TextClosed
    <3> QED
      BY <1>2, <3>2, TextClosed
  <2> HIDE DEF x, t, p
  <2>5. x = <<p>> \o t
    BY <2>2, <2>4, TextEmpty
  <2> QED
    BY <1>2, <2>3, <2>5 DEF Begins, Starting
<1>5. ASSUME NEW lex, NEW n \in Fuel(seq), NEW k \in 1..Len(seq), NEW v \in Text,
             Facing(seq, lex, k, FALSE), seq[k] # SPACE, n + k > Len(seq),
             Words(seq)[k] = x \o (<<RCURLY>> \o v)
      PROVE  ReadsCall(seq, Function(seq, Levels(seq)[n], lex), y, k, v)
  <2> DEFINE u == <<RCURLY>> \o v
             t == a \o (<<RPARENT>> \o u)
             loops == Levels(seq)[n]
             part == Function(seq, loops, lex)
  <2>1. u \in Text
    BY BraceBehind
  <2>2. t \in Text /\ <<RPARENT>> \o u \in Text
    BY <1>2, <2>1, TextClosed
  <2>3. Words(seq)[k] = <<p>> \o (<<LPARENT>> \o t)
    <3>1. Words(seq)[k] = x \o u
      BY <1>5
    <3> HIDE DEF u, p
    <3>2. CallText(p, LPARENT, a, RPARENT, u)
      BY <1>2, <2>1, TextRegrouped
    <3>3. x \o u = <<p>> \o (<<LPARENT>> \o t)
      BY <3>2 DEF CallText
    <3> QED
      BY <3>1, <3>3, Zenon
  <2>4. Called(seq, loops, lex, k, p, t)
    <3> HIDE DEF t, p, loops
    <3> QED
      BY <1>1, <1>5, <2>2, <2>3, CallBegins
  <2>5. PICK i \in PlacesIn(seq) :
          i > k /\ Words(seq)[i] = t /\ Expect(seq, Chain(At(k + 1, FALSE)), LPARENT) = Going(At(i, FALSE), <<>>)
    BY <2>4 DEF Called, Goes
  <2> DEFINE e == FALSE
             no == <<>>
  <2>6. Adds(seq, loops, i, e, no, m, RPARENT, u)
    <3>1. e \in BOOLEAN /\ n + i >= Len(seq) /\ Words(seq)[i] = a \o (<<RPARENT>> \o u)
      BY <1>3, <1>5, <2>5 DEF PlacesIn, Fuel
    <3> HIDE DEF u, e, no
    <3> QED
      BY <1>2, <2>1, <3>1, ArgumentAdds
  <2>7. PICK o \in Text, j \in 1..Len(seq), d \in BOOLEAN :
          /\ j > i /\ WordAt(seq, j, RPARENT, u)
          /\ WithoutSpaces(o) = m
          /\ Argument(seq, loops, Going(At(i, e), no)) = Going(Seeing(seq, j, d), Append(no, o))
    <3> HIDE DEF u, e, loops, no
    <3> QED
      BY <2>6 DEF Adds
  <2>8. Argument(seq, loops, Going(At(i, FALSE), <<>>)) = Going(Seeing(seq, j, d), <<o>>)
    BY <2>7, ArgumentLists
  <2>9. Skip(seq, Going(Seeing(seq, j, d), <<o>>)) = Going(At(j + 1, d), <<o>>)
    BY SeenSkipped
  <2>10. LTrim(seq, loops, At(k + 1, FALSE)) = Trimmed(seq, Going(At(j + 1, d), <<o>>))
    <3> HIDE DEF loops
    <3> QED
      BY <2>5, <2>8, <2>9 DEF LTrim
  <2>11. part = LTrim(seq, loops, At(k + 1, FALSE))
    <3>1. part = Named(seq, loops, p, At(k + 1, FALSE))
      BY <2>4 DEF Called
    <3> HIDE DEF loops
    <3>2. Named(seq, loops, "LTRIM", At(k + 1, FALSE)) = LTrim(seq, loops, At(k + 1, FALSE))
      BY CallNamed
    <3> QED
      BY <3>1, <3>2 DEF loops
  <2>12. Yields(Trimmed(seq, Going(At(j + 1, d), <<o>>)), y, At(j + 1, d))
    <3>1. Yields(Trimmed(seq, Going(At(j + 1, d), <<o>>)),
                <<"replaceRegexpOne", LPARENT>> \o WithoutSpaces(o) \o <<COMMA, "'^s'", COMMA, "''", RPARENT>>, At(j + 1, d))
      BY TrimmedGoes
    <3> QED
      BY <2>7, <3>1
  <2> HIDE DEF part, y
  <2>13. Yields(part, y, At(j + 1, d))
    BY <2>10, <2>11, <2>12
  <2>14. j + 1 \in PlacesIn(seq) /\ j + 1 > k /\ Words(seq)[j + 1] = u
    BY <1>3, <2>5, <2>7 DEF PlacesIn, WordAt
  <2>15. ReadsCall(seq, part, y, k, v)
    BY <2>13, <2>14, CallEnds
  <2> QED
    BY <2>15 DEF part, loops
<1> HIDE DEF x, y
<1>6. IsFunction(seq, x, y)
  BY <1>4, <1>5 DEF IsFunction
<1> QED
  BY <1>6 DEF x, y, p

Shifts(a, s, u) == \A w \in Text : ((w \o a) \o s) \o u = w \o (a \o (s \o u))

LEMMA TextShifts ==
  ASSUME NEW a \in Text, NEW s \in Text, NEW u \in Text
  PROVE  Shifts(a, s, u)
<1> DEFINE y == s \o u
           z == a \o y
<1>1. y \in Text /\ Joined(s, u, y)
  BY TextClosed, TextJoined
<1> HIDE DEF y
<1>2. Joined(a, y, z)
  BY <1>1, TextJoined
<1> HIDE DEF z
<1>3. ASSUME NEW w \in Text PROVE ((w \o a) \o s) \o u = w \o z
  <2> DEFINE x == w \o a
  <2>1. x \in Text
    BY TextClosed
  <2>2. x \o y = w \o z
    BY <1>2 DEF Joined
  <2> HIDE DEF x
  <2>3. (x \o s) \o u = x \o y
    BY <1>1, <2>1 DEF Joined
  <2>4. (x \o s) \o u = w \o z
    BY <2>2, <2>3
  <2> QED
    BY <2>4 DEF x
<1> QED
  BY <1>3 DEF z, y, Shifts

LEMMA TextShifted ==
  ASSUME NEW a \in Text, NEW s \in Pieces, NEW u \in Text
  PROVE  Shifts(a, <<s>>, u) /\ a \o (<<s>> \o u) \in Text
<1> DEFINE S == <<s>>
<1>1. S \in Text
  BY TextClosed
<1> HIDE DEF S
<1>2. Shifts(a, S, u)
  BY <1>1, TextShifts
<1>3. a \o (S \o u) \in Text
  BY <1>1, TextClosed
<1> QED
  BY <1>2, <1>3 DEF S

PairAhead(p, q, t) == <<p, q>> \o t = <<p>> \o (<<q>> \o t) /\ <<p, q>> \in Text

LEMMA TextPair ==
  ASSUME NEW p \in Pieces, NEW q \in Pieces, NEW t \in Text
  PROVE  PairAhead(p, q, t)
<1> DEFINE P == <<p>>
           Q == <<q>>
<1>1. P \in Text /\ Q \in Text
  BY TextClosed
<1>2. <<p, q>> = P \o Q
  BY ListOf2
<1> HIDE DEF P, Q
<1> DEFINE z == Q \o t
<1>3. Joined(Q, t, z)
  BY <1>1, TextJoined
<1> HIDE DEF z
<1>4. (P \o Q) \o t = P \o z /\ P \o Q \in Text
  BY <1>1, <1>3, TextClosed DEF Joined
<1>5. <<p, q>> \o t = P \o z /\ <<p, q>> \in Text
  BY <1>2, <1>4
<1> QED
  BY <1>5 DEF P, Q, z, PairAhead

FourAhead(p, q, r, s, t) ==
  <<p, q, r, s>> \o t = <<p>> \o (<<q>> \o (<<r>> \o (<<s>> \o t))) /\ <<p, q, r, s>> \in Text

LEMMA TextFour ==
  ASSUME NEW p \in Pieces, NEW q \in Pieces, NEW r \in Pieces, NEW s \in Pieces, NEW t \in Text
  PROVE  FourAhead(p, q, r, s, t)
<1> DEFINE P == <<p>>
           Q == <<q>>
           R == <<r>>
           RS == <<r, s>>
           QRS == <<q, r, s>>
           y == RS \o t
           z == QRS \o t
<1>1. P \in Text /\ Q \in Text
  BY TextClosed
<1>2. <<p, q, r, s>> = P \o QRS /\ QRS = Q \o RS
  BY ListOf3, ListOf4
<1>3. y = R \o (<<s>> \o t) /\ RS \in Text
  <2>1. PairAhead(r, s, t)
    BY TextPair
  <2> QED
    BY <2>1 DEF PairAhead
<1> HIDE DEF P, Q, R, RS, QRS
<1>4. QRS \in Text
  BY <1>1, <1>2, <1>3, TextClosed
<1>5. Joined(RS, t, y) /\ Joined(QRS, t, z)
  BY <1>3, <1>4, TextJoined
<1> HIDE DEF y, z
<1>6. (Q \o RS) \o t = Q \o y
  BY <1>1, <1>5 DEF Joined
<1>7. (P \o QRS) \o t = P \o z /\ P \o QRS \in Text
  BY <1>1, <1>4, <1>5, TextClosed DEF Joined
<1>8. z = Q \o y
  BY <1>2, <1>6 DEF z
<1>9. <<p, q, r, s>> \o t = P \o (Q \o (R \o (<<s>> \o t))) /\ <<p, q, r, s>> \in Text
  BY <1>2, <1>3, <1>7, <1>8
<1> QED
  BY <1>9 DEF P, Q, R, FourAhead

-----------------------------------------------------------------------------
(* The texts of a call of LOCATE and of one of TIMESTAMPADD.                *)
LocateText(p, a, b, c) ==
  <<p, LPARENT>> \o a \o <<COMMA>> \o b \o <<COMMA>> \o c \o <<RPARENT>>
LocateAhead(p, a, b, c, u) ==
  <<p>> \o (<<LPARENT>> \o (a \o (<<COMMA>> \o (b \o (<<COMMA>> \o (c \o (<<RPARENT>> \o u)))))))

LEMMA LocateReads ==
  ASSUME NEW p \in Pieces, NEW a \in Text, NEW b \in Text, NEW c \in Text, NEW u \in Text
  PROVE  LocateText(p, a, b, c) \o u = LocateAhead(p, a, b, c, u) /\ LocateText(p, a, b, c) \in Text
<1> DEFINE w0 == <<p, LPARENT>>
           w1 == (w0 \o a) \o <<COMMA>>
           w2 == (w1 \o b) \o <<COMMA>>
           w3 == (w2 \o c) \o <<RPARENT>>
           t3 == c \o (<<RPARENT>> \o u)
           t2 == b \o (<<COMMA>> \o t3)
           t1 == a \o (<<COMMA>> \o t2)
<1>1. COMMA \in Pieces /\ LPARENT \in Pieces /\ RPARENT \in Pieces
  BY AllMarks, MarkFacts
<1>2. Shifts(c, <<RPARENT>>, u) /\ t3 \in Text
  BY <1>1, TextShifted
<1> HIDE DEF t3
<1>3. Shifts(b, <<COMMA>>, t3) /\ t2 \in Text
  BY <1>1, <1>2, TextShifted
<1> HIDE DEF t2
<1>4. Shifts(a, <<COMMA>>, t2) /\ t1 \in Text
  BY <1>1, <1>3, TextShifted
<1> HIDE DEF t1
<1>5. PairAhead(p, LPARENT, t1)
  BY <1>1, <1>4, TextPair
<1>6. w0 \in Text
  BY <1>5 DEF PairAhead
<1>7. w1 \in Text
  <2> HIDE DEF w0
  <2> QED
    BY <1>1, <1>6, TextClosed
<1>8. w2 \in Text
  <2> HIDE DEF w1
  <2> QED
    BY <1>1, <1>7, TextClosed
<1>9. w3 \in Text
  <2> HIDE DEF w2
  <2> QED
    BY <1>1, <1>8, TextClosed
<1>10. w3 \o u = w2 \o t3
  <2> HIDE DEF w2
  <2> QED
    BY <1>2, <1>8 DEF Shifts, t3
<1>11. w2 \o t3 = w1 \o t2
  <2> HIDE DEF w1
  <2> QED
    BY <1>3, <1>7 DEF Shifts, t2
<1>12. w1 \o t2 = w0 \o t1
  <2> HIDE DEF w0
  <2> QED
    BY <1>4, <1>6 DEF Shifts, t1
<1>13. w0 \o t1 = <<p>> \o (<<LPARENT>> \o t1)
  BY <1>5 DEF PairAhead
<1> HIDE DEF w0, w1, w2, w3
<1>14. w3 \o u = <<p>> \o (<<LPARENT>> \o t1)
  BY <1>10, <1>11, <1>12, <1>13
<1>15. w3 = LocateText(p, a, b, c)
  BY DEF w0, w1, w2, w3, LocateText
<1> QED
  BY <1>9, <1>14, <1>15 DEF t1, t2, t3, LocateAhead

AddText(p, unit, a, b) == <<p, LPARENT, unit, COMMA>> \o a \o <<COMMA>> \o b \o <<RPARENT>>
AddAhead(p, unit, a, b, u) ==
  <<p>> \o (<<LPARENT>> \o (<<unit>> \o (<<COMMA>> \o (a \o (<<COMMA>> \o (b \o (<<RPARENT>> \o u)))))))

LEMMA AddReads ==
  ASSUME NEW p \in Pieces, NEW unit \in Pieces, NEW a \in Text, NEW b \in Text, NEW u \in Text
  PROVE  AddText(p, unit, a, b) \o u = AddAhead(p, unit, a, b, u) /\ AddText(p, unit, a, b) \in Text
<1> DEFINE w0 == <<p, LPARENT, unit, COMMA>>
           w1 == (w0 \o a) \o <<COMMA>>
           w2 == (w1 \o b) \o <<RPARENT>>
           t2 == b \o (<<RPARENT>> \o u)
           t1 == a \o (<<COMMA>> \o t2)
<1>1. COMMA \in Pieces /\ LPARENT \in Pieces /\ RPARENT \in Pieces
  BY AllMarks, MarkFacts
<1>3. Shifts(b, <<RPARENT>>, u) /\ t2 \in Text
  BY <1>1, TextShifted
<1> HIDE DEF t2
<1>4. Shifts(a, <<COMMA>>, t2) /\ t1 \in Text
  BY <1>1, <1>3, TextShifted
<1> HIDE DEF t1
<1>5. FourAhead(p, LPARENT, unit, COMMA, t1)
  BY <1>1, <1>4, TextFour
<1>6. w0 \in Text
  BY <1>5 DEF FourAhead
<1>7. w1 \in Text
  <2> HIDE DEF w0
  <2> QED
    BY <1>1, <1>6, TextClosed
<1>8. w2 \in Text
  <2> HIDE DEF w1
  <2> QED
    BY <1>1, <1>7, TextClosed
<1>10. w2 \o u = w1 \o t2
  <2> HIDE DEF w1
  <2> QED
    BY <1>3, <1>7 DEF Shifts, t2
<1>11. w1 \o t2 = w0 \o t1
  <2> HIDE DEF w0
  <2> QED
    BY <1>4, <1>6 DEF Shifts, t1
<1>12. w0 \o t1 = <<p>> \o (<<LPARENT>> \o (<<unit>> \o (<<COMMA>> \o t1)))
  BY <1>5 DEF FourAhead
<1> HIDE DEF w0, w1, w2
<1>13. w2 \o u = <<p>> \o (<<LPARENT>> \o (<<unit>> \o (<<COMMA>> \o t1)))
  BY <1>10, <1>11, <1>12
<1>14. w2 = AddText(p, unit, a, b)
  BY DEF w0, w1, w2, AddText
<1> QED
  BY <1>8, <1>13, <1>14 DEF t1, t2, AddAhead

-----------------------------------------------------------------------------
(* An argument and the separator behind it, in each of the ways in which    *)
(* the code passes them.                                                    *)
Takes(seq, l, i, e, args, m, c, v) ==
  \E o \in Text, j \in PlacesIn(seq), d \in BOOLEAN :
    /\ j > i /\ Words(seq)[j] = v /\ WithoutSpaces(o) = m
    /\ Skip(seq, Argument(seq, l, Going(At(i, e), args))) = Going(At(j, d), Append(args, o))
    /\ Skip(seq, Dropped(seq, l, Going(At(i, e), args))) = Going(At(j, d), args)
    /\ Expect(seq, Spaces(seq, Argument(seq, l, Going(At(i, e), args))), c) = Going(At(j, d), Append(args, o))

LEMMA ArgumentTaken ==
  ASSUME NEW seq, Prepared(seq), NEW a \in Text, NEW m \in Text, IsArgument(seq, a, m),
         NEW n \in Fuel(seq), NEW i \in PlacesIn(seq), NEW e \in BOOLEAN, NEW c \in Ends,
         NEW v \in Text,
         n + i >= Len(seq), Words(seq)[i] = a \o (<<c>> \o v), NEW args
  PROVE  Takes(seq, Levels(seq)[n], i, e, args, m, c, v)
<1> DEFINE l == Levels(seq)[n]
<1>1. Adds(seq, l, i, e, args, m, c, v)
  BY ArgumentAdds
<1> HIDE DEF l
<1>2. PICK o \in Text, j \in 1..Len(seq), d \in BOOLEAN :
        /\ j > i /\ WordAt(seq, j, c, v)
        /\ WithoutSpaces(o) = m
        /\ Argument(seq, l, Going(At(i, e), args)) = Going(Seeing(seq, j, d), Append(args, o))
        /\ Dropped(seq, l, Going(At(i, e), args)) = Going(Seeing(seq, j, d), args)
  BY <1>1 DEF Adds
<1> DEFINE more == Append(args, o)
<1> HIDE DEF more
<1>3. Skip(seq, Going(Seeing(seq, j, d), args)) = Going(At(j + 1, d), args)
  BY SeenSkipped
<1>4. Skip(seq, Going(Seeing(seq, j, d), more)) = Going(At(j + 1, d), more)
  BY SeenSkipped
<1>5. Expect(seq, Spaces(seq, Going(Seeing(seq, j, d), more)), c) = Going(At(j + 1, d), more)
  <2>1. c \in Delimiters /\ WordAt(seq, j, c, v)
    BY <1>2, EndFacts
  <2> QED
    BY <2>1, SeenExpected
<1>6. Len(seq) \in Nat
  BY TextPlaces DEF Prepared
<1>7. j + 1 \in PlacesIn(seq) /\ j + 1 > i /\ Words(seq)[j + 1] = v
  BY <1>2, <1>6 DEF PlacesIn, WordAt
<1>8. Takes(seq, l, i, e, args, m, c, v)
  BY <1>2, <1>3, <1>4, <1>5, <1>7 DEF Takes, more
<1> QED
  BY <1>8 DEF l

(* What is left of a text without its blanks.                               *)
Leaves(x, y) == x \in Text /\ WithoutSpaces(x) = y

LEMMA LeavesBoth ==
  ASSUME NEW x, NEW y, Leaves(x, y), NEW a, NEW b, Leaves(a, b)
  PROVE  Leaves(x \o a, y \o b)
BY TextClosed, WithoutSpacesConcat DEF Leaves

LEMMA MarkLeaves ==
  ASSUME NEW p \in Pieces, p # SPACE
  PROVE  Leaves(<<p>>, <<p>>)
BY TextClosed, WordStays DEF Leaves

LEMMA PositionGoes ==
  ASSUME NEW seq, NEW lex, NEW a \in Text, NEW b \in Text
  PROVE  Yields(Position(seq, Going(lex, <<a, b>>)),
                <<"position", LPARENT>> \o WithoutSpaces(b) \o <<COMMA>> \o WithoutSpaces(a) \o <<RPARENT>>, lex)
<1> DEFINE x == WithoutSpaces(a)
           y == WithoutSpaces(b)
           P == <<"position", LPARENT>>
           K == <<COMMA>>
           R == <<RPARENT>>
           written == (((P \o b) \o K) \o a) \o R
           r == (((P \o y) \o K) \o x) \o R
<1>1. Leaves(P, P)
  <2>1. "position" \in Pieces /\ LPARENT \in Pieces /\ LPARENT # SPACE
    BY EscapesAssumption, AllMarks, MarkFacts, NamesAreApart
  <2>2. "position" # SPACE
    BY Zenon DEF SPACE
  <2> QED
    BY <2>1, <2>2, WordsOfTwo DEF Leaves
<1>2. Leaves(K, K) /\ Leaves(R, R)
  BY AllMarks, MarkFacts, NamesAreApart, MarkLeaves
<1>3. Leaves(a, x) /\ Leaves(b, y)
  BY DEF Leaves
<1>4. Position(seq, Going(lex, <<a, b>>)) = Result(written, lex)
  <2>1. Going(lex, <<a, b>>).args[1] = a /\ Going(lex, <<a, b>>).args[2] = b
    BY DEF Going
  <2>2. Position(seq, Going(lex, <<a, b>>)) = Contribution(seq, Going(lex, <<a, b>>), written)
    BY <2>1, Zenon DEF Position
  <2> HIDE DEF written
  <2> QED
    BY <2>2, ContributionGoes
<1> HIDE DEF x, y, P, K, R
<1>5. Leaves(P \o b, P \o y)
  BY <1>1, <1>3, LeavesBoth
<1>6. Leaves((P \o b) \o K, (P \o y) \o K)
  BY <1>2, <1>5, LeavesBoth
<1>7. Leaves(((P \o b) \o K) \o a, ((P \o y) \o K) \o x)
  BY <1>3, <1>6, LeavesBoth
<1>8. Leaves(written, r)
  BY <1>2, <1>7, LeavesBoth
<1> HIDE DEF written, r
<1>9. Yields(Position(seq, Going(lex, <<a, b>>)), r, lex)
  BY <1>4, <1>8 DEF Yields, Leaves
<1> QED
  BY <1>9 DEF r, x, y, P, K, R

LEMMA DateAddGoes ==
  ASSUME NEW seq, NEW lex, NEW unit \in DOMAIN UnitsMap, NEW a \in Text, NEW b \in Text
  PROVE  Yields(DateAdd(seq, Going(lex, <<unit, a, b>>)),
                <<"dateAdd", LPARENT, UnitsMap[unit], COMMA>> \o WithoutSpaces(a) \o <<COMMA>> \o WithoutSpaces(b)
                  \o <<RPARENT>>, lex)
<1> DEFINE x == WithoutSpaces(a)
           y == WithoutSpaces(b)
           f == FunctionMap["TIMESTAMPADD"]
           P == <<f, LPARENT, UnitsMap[unit], COMMA, SPACE>>
           PP == <<f, LPARENT, UnitsMap[unit], COMMA>>
           K == <<COMMA, SPACE>>
           KK == <<COMMA>>
           R == <<RPARENT>>
           written == (((P \o a) \o K) \o b) \o R
           r == (((PP \o x) \o KK) \o y) \o R
<1>1. /\ COMMA \in Pieces /\ COMMA # SPACE /\ LPARENT \in Pieces /\ LPARENT # SPACE
      /\ RPARENT \in Pieces /\ RPARENT # SPACE
  BY AllMarks, MarkFacts, NamesAreApart
<1>2. f \in Pieces /\ f # SPACE /\ f = "dateAdd"
  <2>1. "TIMESTAMPADD" \in DOMAIN FunctionMap
    BY MapFacts
  <2> QED
    BY <2>1, MapFacts
<1>3. UnitsMap[unit] \in Pieces /\ UnitsMap[unit] # SPACE
  BY MapFacts
<1>4. Leaves(P, PP)
  BY <1>1, <1>2, <1>3, WordsOfCall DEF Leaves
<1>5. Leaves(K, KK) /\ Leaves(R, R)
  BY <1>1, WordsOfComma, MarkLeaves DEF Leaves
<1>6. Leaves(a, x) /\ Leaves(b, y)
  BY DEF Leaves
<1>7. DateAdd(seq, Going(lex, <<unit, a, b>>)) = Result(written, lex)
  <2>1. LET args == Going(lex, <<unit, a, b>>).args IN args[1] = unit /\ args[2] = a /\ args[3] = b
    BY DEF Going
  <2>2. DateAdd(seq, Going(lex, <<unit, a, b>>)) = Contribution(seq, Going(lex, <<unit, a, b>>), written)
    BY <2>1, Zenon DEF DateAdd
  <2> HIDE DEF written
  <2> QED
    BY <2>2, ContributionGoes
<1> HIDE DEF f, x, y, P, PP, K, KK, R
<1>8. Leaves(P \o a, PP \o x)
  BY <1>4, <1>6, LeavesBoth
<1>9. Leaves((P \o a) \o K, (PP \o x) \o KK)
  BY <1>5, <1>8, LeavesBoth
<1>10. Leaves(((P \o a) \o K) \o b, ((PP \o x) \o KK) \o y)
  BY <1>6, <1>9, LeavesBoth
<1>11. Leaves(written, r)
  BY <1>5, <1>10, LeavesBoth
<1> HIDE DEF written
<1>12. Yields(DateAdd(seq, Going(lex, <<unit, a, b>>)), r, lex)
  <2> HIDE DEF r
  <2> QED
    BY <1>7, <1>11 DEF Yields, Leaves
<1>13. PP = <<"dateAdd", LPARENT, UnitsMap[unit], COMMA>>
  BY <1>2 DEF PP
<1> QED
  BY <1>12, <1>13 DEF x, y, KK, R

Taken(seq, a, m) ==
  \A args : \A n \in Fuel(seq), i \in PlacesIn(seq), e \in BOOLEAN, c \in Ends, v \in Text :
    n + i >= Len(seq) /\ Words(seq)[i] = a \o (<<c>> \o v) => Takes(seq, Levels(seq)[n], i, e, args, m, c, v)

LEMMA AllTaken ==
  ASSUME NEW seq, Prepared(seq), NEW a \in Text, NEW m \in Text, IsArgument(seq, a, m)
  PROVE  Taken(seq, a, m)
<1>1. ASSUME NEW args, NEW n \in Fuel(seq), NEW i \in PlacesIn(seq), NEW e \in BOOLEAN,
             NEW c \in Ends, NEW v \in Text,
             n + i >= Len(seq), Words(seq)[i] = a \o (<<c>> \o v)
      PROVE  Takes(seq, Levels(seq)[n], i, e, args, m, c, v)
  BY <1>1, ArgumentTaken
<1> QED
  BY <1>1 DEF Taken

LEMMA LocateBegins ==
  ASSUME NEW p \in Keywords, NEW a \in Text, NEW b \in Text, NEW c \in Text
  PROVE  Begins(LocateText(p, a, b, c))
<1> DEFINE x == LocateText(p, a, b, c)
           t3 == c \o (<<RPARENT>> \o <<>>)
           t2 == b \o (<<COMMA>> \o t3)
           t1 == a \o (<<COMMA>> \o t2)
           r == <<LPARENT>> \o t1
<1>1. <<>> \in Text /\ p \in Pieces /\ COMMA \in Pieces /\ LPARENT \in Pieces /\ RPARENT \in Pieces
  <2>1. p \in Pieces
    BY KeywordBegins, TextClosed
  <2> QED
    BY <2>1, AllMarks, MarkFacts, TextClosed
<1>2. x \o <<>> = LocateAhead(p, a, b, c, <<>>) /\ x \in Text
  <2> DEFINE no == <<>>
  <2>1. no \in Text
    BY <1>1
  <2> HIDE DEF no
  <2>2. LocateText(p, a, b, c) \o no = LocateAhead(p, a, b, c, no) /\ LocateText(p, a, b, c) \in Text
    BY <1>1, <2>1, LocateReads
  <2> QED
    BY <2>2 DEF no
<1>3. t3 \in Text
  BY <1>1, TextClosed
<1>4. t2 \in Text
  <2> HIDE DEF t3
  <2> QED
    BY <1>1, <1>3, TextClosed
<1>5. t1 \in Text
  <2> HIDE DEF t2
  <2> QED
    BY <1>1, <1>4, TextClosed
<1>6. r \in Text
  <2> HIDE DEF t1
  <2> QED
    BY <1>1, <1>5, TextClosed
<1>7. LocateAhead(p, a, b, c, <<>>) = <<p>> \o r
  BY DEF LocateAhead
<1> HIDE DEF x, r
<1>8. x = <<p>> \o r
  BY <1>2, <1>7, TextEmpty
<1>9. Begins(x)
  BY <1>1, <1>6, <1>8 DEF Begins, Starting
<1> QED
  BY <1>9 DEF x

LEMMA LocateIsFunction ==
  ASSUME NEW seq, Prepared(seq), NEW a \in Text, NEW am \in Text, IsArgument(seq, a, am),
         NEW b \in Text, NEW bm \in Text, IsArgument(seq, b, bm),
         NEW c \in Text, NEW cm \in Text, IsArgument(seq, c, cm)
  PROVE  IsFunction(seq, LocateText("LOCATE", a, b, c),
                    <<"position", LPARENT>> \o bm \o <<COMMA>> \o am \o <<RPARENT>>)
<1> DEFINE p == "LOCATE"
           x == LocateText(p, a, b, c)
           y == <<"position", LPARENT>> \o bm \o <<COMMA>> \o am \o <<RPARENT>>
<1>1. p \in Keywords
  BY DEF Keywords
<1> HIDE DEF y
<1>2. COMMA \in Pieces /\ LPARENT \in Pieces /\ RPARENT \in Pieces /\ RPARENT \in Ends /\ COMMA \in Ends
  BY AllMarks, MarkFacts DEF Ends
<1>3. Len(seq) \in Nat
  BY TextPlaces DEF Prepared
<1>4. Begins(x)
  <2> HIDE DEF p
  <2> QED
    BY <1>1, LocateBegins
<1>5. p \in Pieces
  <2> HIDE DEF p
  <2> QED
    BY <1>1, KeywordBegins, TextClosed
<1>a. Taken(seq, b, bm)
  BY AllTaken
<1>b. Taken(seq, c, cm)
  BY AllTaken
<1>6. ASSUME NEW lex, NEW n \in Fuel(seq), NEW k \in 1..Len(seq), NEW v \in Text,
             Facing(seq, lex, k, FALSE), seq[k] # SPACE, n + k > Len(seq),
             Words(seq)[k] = x \o (<<RCURLY>> \o v)
      PROVE  ReadsCall(seq, Function(seq, Levels(seq)[n], lex), y, k, v)
  <2> DEFINE u == <<RCURLY>> \o v
             t3 == c \o (<<RPARENT>> \o u)
             t2 == b \o (<<COMMA>> \o t3)
             t1 == a \o (<<COMMA>> \o t2)
             loops == Levels(seq)[n]
             part == Function(seq, loops, lex)
             start == Chain(At(k + 1, FALSE))
  <2>1. u \in Text
    BY BraceBehind
  <2>2. Words(seq)[k] = <<p>> \o (<<LPARENT>> \o t1)
    <3>1. Words(seq)[k] = x \o u
      BY <1>6
    <3>2. x \o u = LocateAhead(p, a, b, c, u)
      <4> HIDE DEF u, p
      <4> QED
        BY <1>5, <2>1, LocateReads
    <3> QED
      BY <3>1, <3>2, Zenon DEF LocateAhead
  <2> HIDE DEF u, x
  <2>3. t3 \in Text
    BY <1>2, <2>1, TextShifted
  <2> HIDE DEF t3
  <2>4. t2 \in Text
    BY <1>2, <2>3, TextShifted
  <2> HIDE DEF t2
  <2>5. t1 \in Text
    BY <1>2, <2>4, TextShifted
  <2> HIDE DEF t1
  <2>6. Called(seq, loops, lex, k, p, t1)
    <3> HIDE DEF p, loops
    <3> QED
      BY <1>1, <1>6, <2>2, <2>5, CallBegins
  <2>7. PICK i \in PlacesIn(seq) : i > k /\ Words(seq)[i] = t1 /\ Expect(seq, start, LPARENT) = Going(At(i, FALSE), <<>>)
    BY <2>6 DEF Called, Goes
  <2> DEFINE e == FALSE
             no == <<>>
  <2>8. Takes(seq, loops, i, e, no, am, COMMA, t2)
    <3>1. e \in BOOLEAN /\ n + i >= Len(seq) /\ Words(seq)[i] = a \o (<<COMMA>> \o t2)
      BY <1>3, <1>6, <2>7 DEF PlacesIn, Fuel, t1
    <3> HIDE DEF e, no
    <3> QED
      BY <1>2, <2>4, <3>1, ArgumentTaken
  <2>9. PICK o1 \in Text, i1 \in PlacesIn(seq), e1 \in BOOLEAN :
          /\ i1 > i /\ Words(seq)[i1] = t2 /\ WithoutSpaces(o1) = am
          /\ Skip(seq, Argument(seq, loops, Going(At(i, e), no))) = Going(At(i1, e1), Append(no, o1))
    <3> HIDE DEF e, no, loops
    <3> QED
      BY <2>8 DEF Takes
  <2>10. Skip(seq, Argument(seq, loops, Going(At(i, FALSE), <<>>))) = Going(At(i1, e1), <<o1>>)
    BY <2>9, ArgumentLists
  <2>11. Takes(seq, loops, i1, e1, <<o1>>, bm, COMMA, t3)
    <3>1. n + i1 >= Len(seq) /\ Words(seq)[i1] = b \o (<<COMMA>> \o t3)
      BY <1>3, <1>6, <2>7, <2>9 DEF PlacesIn, Fuel, t2
    <3> DEFINE one == <<o1>>
    <3> HIDE DEF one
    <3>2. Takes(seq, Levels(seq)[n], i1, e1, one, bm, COMMA, t3)
      <4>1. COMMA \in Ends /\ n + i1 >= Len(seq) /\ Words(seq)[i1] = b \o (<<COMMA>> \o t3) /\ t3 \in Text
        BY <1>2, <2>3, <3>1
      <4> HIDE DEF loops, part
      <4> QED
        BY <1>a, <4>1 DEF Taken
    <3> QED
      BY <3>2 DEF one
  <2>12. PICK o2 \in Text, i2 \in PlacesIn(seq), e2 \in BOOLEAN :
          /\ i2 > i1 /\ Words(seq)[i2] = t3 /\ WithoutSpaces(o2) = bm
          /\ Skip(seq, Argument(seq, loops, Going(At(i1, e1), <<o1>>))) = Going(At(i2, e2), Append(<<o1>>, o2))
    <3> HIDE DEF loops
    <3> QED
      BY <2>11 DEF Takes
  <2>13. Skip(seq, Argument(seq, loops, Going(At(i1, e1), <<o1>>))) = Going(At(i2, e2), <<o1, o2>>)
    BY <2>12, ArgumentLists
  <2>14. Takes(seq, loops, i2, e2, <<o1, o2>>, cm, RPARENT, u)
    <3>1. n + i2 >= Len(seq) /\ Words(seq)[i2] = c \o (<<RPARENT>> \o u)
      BY <1>3, <1>6, <2>7, <2>9, <2>12 DEF PlacesIn, Fuel, t3
    <3> DEFINE two == <<o1, o2>>
    <3> HIDE DEF two
    <3>2. Takes(seq, Levels(seq)[n], i2, e2, two, cm, RPARENT, u)
      <4>1. RPARENT \in Ends /\ n + i2 >= Len(seq) /\ Words(seq)[i2] = c \o (<<RPARENT>> \o u) /\ u \in Text
        BY <1>2, <2>1, <3>1
      <4> HIDE DEF loops, part
      <4> QED
        BY <1>b, <4>1 DEF Taken
    <3> QED
      BY <3>2 DEF two
  <2>15. PICK i3 \in PlacesIn(seq), e3 \in BOOLEAN :
          /\ i3 > i2 /\ Words(seq)[i3] = u
          /\ Skip(seq, Dropped(seq, loops, Going(At(i2, e2), <<o1, o2>>))) = Going(At(i3, e3), <<o1, o2>>)
    <3> HIDE DEF loops
    <3> QED
      BY <2>14 DEF Takes
  <2> HIDE DEF loops, p
  <2>16. Locate(seq, loops, At(k + 1, FALSE)) = Position(seq, Going(At(i3, e3), <<o1, o2>>))
    BY <2>7, <2>10, <2>13, <2>15 DEF Locate, start
  <2>17. part = Locate(seq, loops, At(k + 1, FALSE))
    <3>1. part = Named(seq, loops, p, At(k + 1, FALSE))
      BY <2>6 DEF Called
    <3>2. Named(seq, loops, "LOCATE", At(k + 1, FALSE)) = Locate(seq, loops, At(k + 1, FALSE))
      BY CallNamed
    <3> QED
      BY <3>1, <3>2 DEF p
  <2>18. Yields(Position(seq, Going(At(i3, e3), <<o1, o2>>)), y, At(i3, e3))
    <3>1. Yields(Position(seq, Going(At(i3, e3), <<o1, o2>>)),
                <<"position", LPARENT>> \o WithoutSpaces(o2) \o <<COMMA>> \o WithoutSpaces(o1) \o <<RPARENT>>, At(i3, e3))
      BY PositionGoes
    <3> QED
      BY <2>9, <2>12, <3>1 DEF y
  <2> HIDE DEF part
  <2>19. Yields(part, y, At(i3, e3))
    BY <2>16, <2>17, <2>18
  <2>20. i3 > k /\ Words(seq)[i3] = <<RCURLY>> \o v
    BY <1>3, <2>7, <2>9, <2>12, <2>15 DEF PlacesIn, u
  <2>21. ReadsCall(seq, part, y, k, v)
    BY <2>19, <2>20, CallEnds
  <2> QED
    BY <2>21 DEF part, loops
<1> HIDE DEF x
<1>7. IsFunction(seq, x, y)
  BY <1>4, <1>6 DEF IsFunction
<1> QED
  BY <1>7 DEF x, y, p

LEMMA AddBegins ==
  ASSUME NEW p \in Keywords, NEW unit \in Pieces, NEW a \in Text, NEW b \in Text
  PROVE  Begins(AddText(p, unit, a, b))
<1> DEFINE x == AddText(p, unit, a, b)
           t2 == b \o (<<RPARENT>> \o <<>>)
           t1 == a \o (<<COMMA>> \o t2)
           t0 == <<unit>> \o (<<COMMA>> \o t1)
           r == <<LPARENT>> \o t0
<1>1. <<>> \in Text /\ p \in Pieces /\ COMMA \in Pieces /\ LPARENT \in Pieces /\ RPARENT \in Pieces
  <2>1. p \in Pieces
    BY KeywordBegins, TextClosed
  <2> QED
    BY <2>1, AllMarks, MarkFacts, TextClosed
<1>2. x \o <<>> = AddAhead(p, unit, a, b, <<>>) /\ x \in Text
  <2> DEFINE no == <<>>
  <2>1. no \in Text
    BY <1>1
  <2> HIDE DEF no
  <2>2. AddText(p, unit, a, b) \o no = AddAhead(p, unit, a, b, no) /\ AddText(p, unit, a, b) \in Text
    BY <1>1, <2>1, AddReads
  <2> QED
    BY <2>2 DEF no
<1>4. t2 \in Text
  BY <1>1, TextClosed
<1>5. t1 \in Text
  <2> HIDE DEF t2
  <2> QED
    BY <1>1, <1>4, TextClosed
<1>6. t0 \in Text
  <2> HIDE DEF t1
  <2> QED
    BY <1>1, <1>5, TextClosed
<1>7. r \in Text
  <2> HIDE DEF t0
  <2> QED
    BY <1>1, <1>6, TextClosed
<1>8. AddAhead(p, unit, a, b, <<>>) = <<p>> \o r
  BY DEF AddAhead
<1> HIDE DEF x, r
<1>9. x = <<p>> \o r
  BY <1>2, <1>8, TextEmpty
<1>10. Begins(x)
  BY <1>1, <1>7, <1>9 DEF Begins, Starting
<1> QED
  BY <1>10 DEF x

LEMMA AddIsFunction ==
  ASSUME NEW seq, Prepared(seq), NEW unit \in DOMAIN UnitsMap,
         NEW a \in Text, NEW am \in Text, IsArgument(seq, a, am),
         NEW b \in Text, NEW bm \in Text, IsArgument(seq, b, bm)
  PROVE  IsFunction(seq, AddText("TIMESTAMPADD", unit, a, b),
                    <<"dateAdd", LPARENT, UnitsMap[unit], COMMA>> \o am \o <<COMMA>> \o bm \o <<RPARENT>>)
<1> DEFINE p == "TIMESTAMPADD"
           x == AddText(p, unit, a, b)
           y == <<"dateAdd", LPARENT, UnitsMap[unit], COMMA>> \o am \o <<COMMA>> \o bm \o <<RPARENT>>
<1>1. p \in Keywords
  BY MapFacts
<1> HIDE DEF y
<1>2. COMMA \in Pieces /\ LPARENT \in Pieces /\ RPARENT \in Pieces /\ RPARENT \in Ends /\ COMMA \in Ends
  BY AllMarks, MarkFacts DEF Ends
<1>3. Len(seq) \in Nat
  BY TextPlaces DEF Prepared
<1>4. p \in Pieces /\ unit \in Pieces
  <2>1. unit \in Keywords
    BY MapFacts
  <2> HIDE DEF p
  <2> QED
    BY <1>1, <2>1, KeywordBegins, TextClosed
<1>5. Begins(x)
  <2> HIDE DEF p
  <2> QED
    BY <1>1, <1>4, AddBegins
<1>6. Taken(seq, a, am) /\ Taken(seq, b, bm)
  BY AllTaken
<1>7. ASSUME NEW lex, NEW n \in Fuel(seq), NEW k \in 1..Len(seq), NEW v \in Text,
             Facing(seq, lex, k, FALSE), seq[k] # SPACE, n + k > Len(seq),
             Words(seq)[k] = x \o (<<RCURLY>> \o v)
      PROVE  ReadsCall(seq, Function(seq, Levels(seq)[n], lex), y, k, v)
  <2> DEFINE u == <<RCURLY>> \o v
             t2 == b \o (<<RPARENT>> \o u)
             t1 == a \o (<<COMMA>> \o t2)
             t0 == <<COMMA>> \o t1
             t == <<unit>> \o t0
             loops == Levels(seq)[n]
             part == Function(seq, loops, lex)
             start == Chain(At(k + 1, FALSE))
  <2>1. u \in Text
    BY BraceBehind
  <2>2. Words(seq)[k] = <<p>> \o (<<LPARENT>> \o t)
    <3>1. Words(seq)[k] = x \o u
      BY <1>7
    <3>2. x \o u = AddAhead(p, unit, a, b, u)
      <4> HIDE DEF u, p
      <4> QED
        BY <1>4, <2>1, AddReads
    <3> QED
      BY <3>1, <3>2, Zenon DEF AddAhead
  <2> HIDE DEF u, x
  <2>3. t2 \in Text
    BY <1>2, <2>1, TextShifted
  <2> HIDE DEF t2
  <2>4. t1 \in Text
    BY <1>2, <2>3, TextShifted
  <2> HIDE DEF t1
  <2>5. t0 \in Text
    BY <1>2, <2>4, TextClosed
  <2> HIDE DEF t0
  <2>6. t \in Text
    BY <1>4, <2>5, TextClosed
  <2> HIDE DEF t
  <2>7. Called(seq, loops, lex, k, p, t)
    <3> HIDE DEF p, loops
    <3> QED
      BY <1>1, <1>7, <2>2, <2>6, CallBegins
  <2>8. PICK i \in PlacesIn(seq) : i > k /\ Words(seq)[i] = t /\ Expect(seq, start, LPARENT) = Going(At(i, FALSE), <<>>)
    BY <2>7 DEF Called, Goes
  <2> DEFINE c1 == Unit(seq, Going(At(i, FALSE), <<>>))
  <2>9. Goes(seq, i, c1, t0, <<unit>>)
    <3> DEFINE no == <<>>
    <3>1. Words(seq)[i] = <<unit>> \o t0
      BY <2>8 DEF t
    <3> HIDE DEF no
    <3>2. Goes(seq, i, Unit(seq, Going(At(i, FALSE), no)), t0, <<unit>>)
      BY <2>5, <3>1, UnitRead
    <3> QED
      BY <3>2 DEF no
  <2> HIDE DEF c1
  <2>10. PICK i0 \in PlacesIn(seq) : i0 > i /\ Words(seq)[i0] = t0 /\ c1 = Going(At(i0, FALSE), <<unit>>)
    BY <2>9 DEF Goes
  <2> DEFINE one == <<unit>>
             c2 == Expect(seq, Going(At(i0, FALSE), one), COMMA)
  <2> HIDE DEF one
  <2>11. Goes(seq, i0, c2, t1, one)
    <3>1. Words(seq)[i0] = <<COMMA>> \o t1 /\ COMMA \in Delimiters
      BY <2>10, AllMarks DEF t0
    <3> QED
      BY <2>4, <3>1, WordExpected
  <2> HIDE DEF c2
  <2>12. PICK i1 \in PlacesIn(seq) : i1 > i0 /\ Words(seq)[i1] = t1 /\ c2 = Going(At(i1, FALSE), one)
    BY <2>11 DEF Goes
  <2> DEFINE e == FALSE
  <2>13. Takes(seq, loops, i1, e, one, am, COMMA, t2)
    <3>1. e \in BOOLEAN /\ n + i1 >= Len(seq) /\ Words(seq)[i1] = a \o (<<COMMA>> \o t2)
      BY <1>3, <1>7, <2>8, <2>10, <2>12 DEF PlacesIn, Fuel, t1
    <3> HIDE DEF e
    <3> QED
      BY <1>2, <1>6, <2>3, <3>1 DEF Taken
  <2>14. PICK o1 \in Text, i2 \in PlacesIn(seq), e2 \in BOOLEAN :
          /\ i2 > i1 /\ Words(seq)[i2] = t2 /\ WithoutSpaces(o1) = am
          /\ Expect(seq, Spaces(seq, Argument(seq, loops, Going(At(i1, e), one))), COMMA) = Going(At(i2, e2), Append(one, o1))
    <3> HIDE DEF e, loops
    <3> QED
      BY <2>13 DEF Takes
  <2> DEFINE two == <<unit, o1>>
  <2>15. Append(one, o1) = two
    BY ArgumentLists DEF one
  <2> HIDE DEF two
  <2>16. Takes(seq, loops, i2, e2, two, bm, RPARENT, u)
    <3>1. n + i2 >= Len(seq) /\ Words(seq)[i2] = b \o (<<RPARENT>> \o u)
      BY <1>3, <1>7, <2>8, <2>10, <2>12, <2>14 DEF PlacesIn, Fuel, t2
    <3> QED
      BY <1>2, <1>6, <2>1, <3>1 DEF Taken
  <2>17. PICK o2 \in Text, i3 \in PlacesIn(seq), e3 \in BOOLEAN :
          /\ i3 > i2 /\ Words(seq)[i3] = u /\ WithoutSpaces(o2) = bm
          /\ Expect(seq, Spaces(seq, Argument(seq, loops, Going(At(i2, e2), two))), RPARENT) = Going(At(i3, e3), Append(two, o2))
    <3> HIDE DEF loops
    <3> QED
      BY <2>16 DEF Takes
  <2>18. Append(two, o2) = <<unit, o1, o2>>
    <3>1. Append(<<unit, o1>>, o2) = <<unit, o1, o2>>
      BY ListOfThree
    <3> QED
      BY <3>1 DEF two
  <2> HIDE DEF loops, p
  <2>19. TimestampAdd(seq, loops, At(k + 1, FALSE)) = DateAdd(seq, Going(At(i3, e3), <<unit, o1, o2>>))
    <3>1. Expect(seq, c1, COMMA) = Going(At(i1, e), one)
      BY <2>10, <2>12 DEF c2, one
    <3>2. TimestampAddTo(seq, loops, c1) = DateAdd(seq, Going(At(i3, e3), <<unit, o1, o2>>))
      BY <3>1, <2>14, <2>15, <2>17, <2>18 DEF TimestampAddTo
    <3>3. TimestampAdd(seq, loops, At(k + 1, FALSE)) = TimestampAddTo(seq, loops, c1)
      BY <2>8 DEF TimestampAdd, start, c1
    <3> QED
      BY <3>2, <3>3
  <2>20. part = TimestampAdd(seq, loops, At(k + 1, FALSE))
    <3>1. part = Named(seq, loops, p, At(k + 1, FALSE))
      BY <2>7 DEF Called
    <3>2. Named(seq, loops, "TIMESTAMPADD", At(k + 1, FALSE)) = TimestampAdd(seq, loops, At(k + 1, FALSE))
      BY CallNamed
    <3> QED
      BY <3>1, <3>2 DEF p
  <2>21. Yields(DateAdd(seq, Going(At(i3, e3), <<unit, o1, o2>>)), y, At(i3, e3))
    <3>1. Yields(DateAdd(seq, Going(At(i3, e3), <<unit, o1, o2>>)),
                <<"dateAdd", LPARENT, UnitsMap[unit], COMMA>> \o WithoutSpaces(o1) \o <<COMMA>> \o WithoutSpaces(o2)
                  \o <<RPARENT>>, At(i3, e3))
      BY DateAddGoes
    <3> QED
      BY <2>14, <2>17, <3>1 DEF y
  <2> HIDE DEF part
  <2>22. Yields(part, y, At(i3, e3))
    BY <2>19, <2>20, <2>21
  <2>23. i3 > k /\ Words(seq)[i3] = <<RCURLY>> \o v
    BY <1>3, <2>8, <2>10, <2>12, <2>14, <2>17 DEF PlacesIn, u
  <2>24. ReadsCall(seq, part, y, k, v)
    BY <2>22, <2>23, CallEnds
  <2> QED
    BY <2>24 DEF part, loops
<1> HIDE DEF x
<1>8. IsFunction(seq, x, y)
  BY <1>5, <1>7 DEF IsFunction
<1> QED
  BY <1>8 DEF x, y, p

-----------------------------------------------------------------------------
(* A sequence: what stands behind its opening brace.                        *)
Started(seq, l, p, lex) ==
  IF p = "FN" THEN Function(seq, l, lex) ELSE IF p = "D" THEN Date(seq, lex) ELSE DateTime(seq, lex)

StartedTurn(l, part, written) == l.sequence[written \o part.out][part.lex]

LEMMA StartFacts ==
  /\ Starts \subseteq Keywords /\ RCURLY \notin Keywords
  /\ "FN" # "D" /\ "FN" # "TS" /\ "D" # "TS"
<1>1. RCURLY \notin Keywords
  BY AllMarks, MarkFacts
<1> QED
  BY <1>1 DEF Starts, Keywords

LEMMA SequenceStarts ==
  ASSUME NEW seq, Prepared(seq), NEW l, NEW k \in 1..Len(seq), NEW e \in BOOLEAN,
         NEW written, seq[k] \in Starts
  PROVE  SequenceAt(seq, l, Seeing(seq, k, e), written)
           = StartedTurn(l, Started(seq, l, seq[k], At(k + 1, e)), written)
<1> DEFINE s == Seeing(seq, k, e)
           t == Peek(seq, s).type
           after == Consume(seq, s)
           With(part) == StartedTurn(l, part, written)
           R1 == With(Function(seq, l, after))
           R2 == With(Date(seq, after))
           R3 == With(DateTime(seq, after))
           R4 == Result(written, after)
           R5 == Result(seq, after)
<1>1. Facing(seq, s, k, e)
  BY SeeingFaces
<1>2. t = Type(seq[k]) /\ after = At(k + 1, e)
  <2> HIDE DEF s
  <2> QED
    BY <1>1, FacingFacts
<1>3. Type(seq[k]) = seq[k]
  <2>1. seq[k] \in Keywords
    BY StartFacts
  <2>2. \A p \in Keywords : Type(seq[k]) = p <=> seq[k] = p
    BY ReadType
  <2> QED
    BY <2>1, <2>2
<1>4. SequenceAt(seq, l, s, written) =
        CASE t = "FN" -> R1 [] t = "D" -> R2 [] t = "TS" -> R3 [] t = RCURLY -> R4 [] OTHER -> R5
  BY DEF SequenceAt, StartedTurn
<1> HIDE DEF R1, R2, R3, R4, R5, t, s, after
<1>5. t \in Starts /\ t # RCURLY
  BY <1>2, <1>3, StartFacts
<1>6. SequenceAt(seq, l, s, written) = IF t = "FN" THEN R1 ELSE IF t = "D" THEN R2 ELSE R3
  BY <1>4, <1>5 DEF Starts
<1>7. SequenceAt(seq, l, s, written) = With(Started(seq, l, t, after))
  BY <1>6 DEF Started, R1, R2, R3
<1> QED
  BY <1>2, <1>3, <1>7 DEF s

LEMMA SequenceCloses ==
  ASSUME NEW seq, Prepared(seq), NEW l, NEW k \in 1..Len(seq), NEW e \in BOOLEAN,
         NEW written, seq[k] = RCURLY
  PROVE  SequenceAt(seq, l, Seeing(seq, k, e), written) = Result(written, At(k + 1, e))
<1> DEFINE s == Seeing(seq, k, e)
           t == Peek(seq, s).type
           after == Consume(seq, s)
           With(part) == StartedTurn(l, part, written)
           R1 == With(Function(seq, l, after))
           R2 == With(Date(seq, after))
           R3 == With(DateTime(seq, after))
           R4 == Result(written, after)
           R5 == Result(seq, after)
<1>1. Facing(seq, s, k, e)
  BY SeeingFaces
<1>2. t = Type(seq[k]) /\ after = At(k + 1, e)
  <2> HIDE DEF s
  <2> QED
    BY <1>1, FacingFacts
<1>3. t = RCURLY
  BY <1>2, AllMarks, MarkFacts
<1>4. SequenceAt(seq, l, s, written) =
        CASE t = "FN" -> R1 [] t = "D" -> R2 [] t = "TS" -> R3 [] t = RCURLY -> R4 [] OTHER -> R5
  BY DEF SequenceAt, StartedTurn
<1> HIDE DEF R1, R2, R3, R4, R5, t, s, after
<1>5. t # "FN" /\ t # "D" /\ t # "TS"
  BY <1>3, StartFacts DEF Starts
<1>6. SequenceAt(seq, l, s, written) = R4
  BY <1>3, <1>4, <1>5
<1> QED
  BY <1>2, <1>6 DEF s, R4

LEMMA SequenceRound ==
  ASSUME NEW seq, Prepared(seq), NEW n \in Fuel(seq), n # 0, NEW written \in Text,
         NEW lex \in Lexers
  PROVE  n - 1 \in Fuel(seq)
         /\ Levels(seq)[n].sequence[written][lex] = SequenceAt(seq, Levels(seq)[n - 1], SkipSpaces(seq, lex), written)
<1>1. Len(seq) \in Nat
  BY TextPlaces DEF Prepared
<1>2. n \in 1..(Len(seq) + 1) /\ n - 1 \in Fuel(seq)
  BY <1>1 DEF Fuel
<1>3. Levels(seq)[n].sequence[written][lex] = SequenceTurn(seq, Levels(seq)[n - 1], lex, written)
  BY <1>1, <1>2, LoopTurns
<1> QED
  BY <1>2, <1>3 DEF SequenceTurn

(* What stands behind the first word, up to the closing brace.              *)
IsStarted(seq, p, w, m) ==
  /\ Begins(w)
  /\ \A n \in Fuel(seq), i \in PlacesIn(seq), v \in Text :
       n + i > Len(seq) /\ Words(seq)[i] = w \o (<<RCURLY>> \o v) =>
         ReadsCall(seq, Started(seq, Levels(seq)[n], p, At(i, FALSE)), m, i - 1, v)

LEMMA FunctionIsStarted ==
  ASSUME NEW seq, Prepared(seq), NEW w \in Text, NEW m, IsFunction(seq, w, m)
  PROVE  IsStarted(seq, "FN", w, m)
<1>1. Len(seq) \in Nat
  BY TextPlaces DEF Prepared
<1>2. ASSUME NEW n \in Fuel(seq), NEW i \in PlacesIn(seq), NEW v \in Text,
             n + i > Len(seq), Words(seq)[i] = w \o (<<RCURLY>> \o v)
      PROVE  ReadsCall(seq, Function(seq, Levels(seq)[n], At(i, FALSE)), m, i - 1, v)
  <2> DEFINE u == <<RCURLY>> \o v
             k == First(seq, i)
  <2>1. u \in Text
    BY BraceBehind
  <2>2. PICK p \in Pieces, r \in Text : w = <<p>> \o r
    BY DEF IsFunction, Begins, Starting
  <2>3. r \o u \in Text /\ Words(seq)[i] = <<p>> \o (r \o u)
    <3>1. Words(seq)[i] = w \o u
      BY <1>2
    <3> HIDE DEF u
    <3> QED
      BY <2>1, <2>2, <3>1, WordAhead
  <2> HIDE DEF u
  <2>4. Passed(seq, i, p, r \o u)
    BY <2>3, WordPassed
  <2>5. i \in 1..(Len(seq) + 1)
    BY DEF PlacesIn
  <2>6. k \in i..Len(seq) /\ WordAt(seq, k, p, r \o u)
    BY <2>3, <2>5, NextWord
  <2>7. Facing(seq, At(i, FALSE), k, FALSE)
    BY <2>4 DEF Passed
  <2> HIDE DEF k
  <2>8. k \in 1..Len(seq) /\ n + k > Len(seq) /\ seq[k] # SPACE /\ k >= i
    BY <1>1, <1>2, <2>5, <2>6 DEF Fuel, WordAt
  <2>9. Words(seq)[k] = w \o (<<RCURLY>> \o v)
    BY <1>2, <2>3, <2>6 DEF WordAt
  <2>10. ReadsCall(seq, Function(seq, Levels(seq)[n], At(i, FALSE)), m, k, v)
    BY <2>7, <2>8, <2>9 DEF IsFunction
  <2> DEFINE part == Function(seq, Levels(seq)[n], At(i, FALSE))
  <2> HIDE DEF part
  <2>11. ReadsCall(seq, part, m, k, v)
    BY <2>10 DEF part
  <2>12. PICK lex \in Lexers, j \in 1..Len(seq), d \in BOOLEAN :
          /\ j > k /\ WordAt(seq, j, RCURLY, v)
          /\ Yields(part, m, lex)
          /\ SkipSpaces(seq, lex) = Seeing(seq, j, d)
    BY <2>11 DEF ReadsCall
  <2>13. j > i - 1
    BY <2>5, <2>8, <2>12
  <2>14. ReadsCall(seq, part, m, i - 1, v)
    BY <2>12, <2>13 DEF ReadsCall
  <2> QED
    BY <2>14 DEF part
<1>3. Begins(w)
  BY DEF IsFunction
<1> QED
  BY <1>2, <1>3 DEF IsStarted, Started

LEMMA ReadsFrom ==
  ASSUME NEW seq, NEW part, NEW m, NEW v, NEW k \in Int,
         NEW i \in Int, k >= i, ReadsCall(seq, part, m, k, v),
         Len(seq) \in Nat
  PROVE  ReadsCall(seq, part, m, i, v)
<1>1. PICK lex \in Lexers, j \in 1..Len(seq), d \in BOOLEAN :
        /\ j > k /\ WordAt(seq, j, RCURLY, v)
        /\ Yields(part, m, lex)
        /\ SkipSpaces(seq, lex) = Seeing(seq, j, d)
  BY DEF ReadsCall
<1>2. j > i
  BY <1>1
<1> QED
  BY <1>1, <1>2 DEF ReadsCall

LEMMA StringFacts ==
  ASSUME NEW s \in Strings
  PROVE  s \in Pieces /\ s # SPACE /\ Type(s) = "STRING" /\ Trim(s) \in Strings
<1>1. s \in Pieces
  BY LexerAssumption
<1>2. Type(s) = "STRING"
  BY <1>1, TypeFacts
<1>3. s # SPACE
  <2>1. SPACE \in Pieces /\ Type(SPACE) = SPACE /\ SPACE \notin Kinds
    BY AllMarks, MarkFacts
  <2> QED
    BY <1>2, <2>1 DEF Kinds
<1>4. Trim(s) \in Strings
  BY EscapesAssumption DEF Trim
<1> QED
  BY <1>1, <1>2, <1>3, <1>4

LEMMA LiteralRead ==
  ASSUME NEW seq, Prepared(seq), NEW lex, NEW k, NEW e, Facing(seq, lex, k, e), seq[k] \in Strings
  PROVE  /\ Date(seq, lex) = Result(<<seq[k]>>, At(k + 1, e))
         /\ DateTime(seq, lex) = Result(<<Trim(seq[k])>>, At(k + 1, e))
<1>1. /\ Peek(seq, lex).type = "STRING" /\ Peek(seq, lex).text = <<seq[k]>> /\ Consume(seq, lex) = At(k + 1, e)
  BY FacingFacts, StringFacts
<1>2. Date(seq, lex) = Result(<<seq[k]>>, At(k + 1, e))
  BY <1>1 DEF Date
<1>3. Date(seq, lex).out[1] = seq[k] /\ Date(seq, lex).lex = At(k + 1, e)
  <2>1. Date(seq, lex).out = <<seq[k]>> /\ Date(seq, lex).lex = At(k + 1, e)
    BY <1>2, ResultParts
  <2> QED
    BY <2>1
<1>4. DateTime(seq, lex) =
        IF seq[k] \in DOMAIN WithoutMilliseconds THEN Result(<<WithoutMilliseconds[seq[k]]>>, At(k + 1, e))
        ELSE Date(seq, lex)
  BY <1>1, <1>3 DEF DateTime
<1> QED
  BY <1>2, <1>4 DEF Trim

LEMMA LiteralIsStarted ==
  ASSUME NEW seq, Prepared(seq), NEW s \in Strings
  PROVE  IsStarted(seq, "D", <<s>>, <<s>>) /\ IsStarted(seq, "TS", <<s>>, <<Trim(s)>>)
<1> DEFINE w == <<s>>
<1>1. Len(seq) \in Nat
  BY TextPlaces DEF Prepared
<1>2. w \in Text /\ Begins(w) /\ s \in Pieces
  <2>1. s \in Pieces
    BY StringFacts
  <2>2. <<>> \in Text /\ <<s>> \in Text
    BY <2>1, TextClosed
  <2>3. <<s>> = <<s>> \o <<>>
    BY <2>2, TextEmpty
  <2> QED
    BY <2>1, <2>2, <2>3 DEF Begins, Starting
<1>3. ASSUME NEW p, p \in {"D", "TS"}, NEW n \in Fuel(seq), NEW i \in PlacesIn(seq),
             NEW v \in Text,
             n + i > Len(seq), Words(seq)[i] = w \o (<<RCURLY>> \o v)
      PROVE  ReadsCall(seq, Started(seq, Levels(seq)[n], p, At(i, FALSE)), IF p = "D" THEN <<s>> ELSE <<Trim(s)>>, i - 1, v)
  <2> DEFINE u == <<RCURLY>> \o v
             l == Levels(seq)[n]
             m == IF p = "D" THEN s ELSE Trim(s)
             part == Started(seq, l, p, At(i, FALSE))
             k == First(seq, i)
  <2>1. u \in Text /\ Words(seq)[i] = <<s>> \o u
    BY <1>3, BraceBehind
  <2> HIDE DEF u
  <2>2. Passed(seq, i, s, u)
    BY <1>2, <2>1, WordPassed
  <2>3. /\ k \in 1..Len(seq) /\ k >= i /\ k + 1 \in PlacesIn(seq)
        /\ seq[k] = s /\ Words(seq)[k + 1] = u
        /\ Facing(seq, At(i, FALSE), k, FALSE)
    BY <2>2 DEF Passed
  <2> HIDE DEF k, l
  <2>4. part = Result(<<m>>, At(k + 1, FALSE))
    <3> DEFINE e == FALSE
               lex == At(i, e)
    <3>1. Facing(seq, lex, k, e) /\ seq[k] \in Strings
      BY <2>3
    <3> HIDE DEF e, lex
    <3>2. Date(seq, lex) = Result(<<seq[k]>>, At(k + 1, e)) /\ DateTime(seq, lex) = Result(<<Trim(seq[k])>>, At(k + 1, e))
      BY <3>1, LiteralRead
    <3>3. Started(seq, l, p, lex) = IF p = "D" THEN Date(seq, lex) ELSE DateTime(seq, lex)
      BY <1>3, StartFacts DEF Started
    <3> QED
      BY <2>3, <3>2, <3>3 DEF e, lex
  <2>5. m \in Pieces /\ m # SPACE
    BY StringFacts
  <2> HIDE DEF m, part
  <2>6. Yields(part, <<m>>, At(k + 1, FALSE))
    <3>1. <<m>> \in Text /\ WithoutSpaces(<<m>>) = <<m>>
      BY <2>5, TextClosed, WordStays
    <3> QED
      BY <2>4, <3>1 DEF Yields
  <2> DEFINE d == FALSE
             mm == <<m>>
             i2 == k + 1
  <2>7. i2 \in PlacesIn(seq) /\ i2 > k /\ Words(seq)[i2] = <<RCURLY>> \o v /\ d \in BOOLEAN
    BY <1>1, <2>3 DEF u
  <2>8. Yields(part, mm, At(i2, d))
    BY <2>6
  <2> HIDE DEF d, mm, i2
  <2>9. ReadsCall(seq, part, mm, k, v)
    BY <2>3, <2>7, <2>8, CallEnds
  <2>10. ReadsCall(seq, part, mm, i - 1, v)
    <3>1. k \in Int /\ i - 1 \in Int /\ k >= i - 1
      BY <1>1, <2>3 DEF PlacesIn
    <3> QED
      BY <1>1, <2>9, <3>1, ReadsFrom
  <2> QED
    BY <2>10 DEF part, mm, m, l
<1>4. IsStarted(seq, "D", w, <<s>>)
  BY <1>2, <1>3 DEF IsStarted
<1>5. IsStarted(seq, "TS", w, <<Trim(s)>>)
  BY <1>2, <1>3, StartFacts DEF IsStarted
<1> QED
  BY <1>4, <1>5

LEMMA StartedIsSequence ==
  ASSUME NEW seq, Prepared(seq), NEW p \in Starts, NEW w \in Text,
         NEW m \in Text, m # <<>>, IsStarted(seq, p, w, m)
  PROVE  IsSequence(seq, <<LCURLY, p>> \o w \o <<RCURLY>>, m)
<1> DEFINE x == (<<LCURLY, p>> \o w) \o <<RCURLY>>
<1>1. Len(seq) \in Nat
  BY TextPlaces DEF Prepared
<1>2. LCURLY \in Pieces /\ RCURLY \in Pieces /\ p \in Pieces /\ p # SPACE /\ LCURLY # SPACE
  <2>1. p \in Keywords
    BY StartFacts
  <2>2. p \in Pieces
    BY <2>1, KeywordBegins, TextClosed
  <2> QED
    BY <2>1, <2>2, AllMarks, MarkFacts, NamesAreApart
<1>3. \A u \in Text : x \o u = <<LCURLY>> \o (<<p>> \o (w \o (<<RCURLY>> \o u)))
  <2> TAKE u \in Text
  <2>1. CallText(LCURLY, p, w, RCURLY, u)
    BY <1>2, TextRegrouped
  <2> QED
    BY <2>1 DEF CallText
<1>4. x \in Text
  <2>1. <<LCURLY, p>> = <<LCURLY>> \o <<p>>
    BY ListOf2
  <2>2. <<LCURLY, p>> \in Text
    BY <1>2, <2>1, TextClosed
  <2> QED
    BY <1>2, <2>2, TextClosed
<1>5. Starting(LCURLY, x)
  <2> DEFINE no == <<>>
             r == <<p>> \o (w \o (<<RCURLY>> \o no))
  <2>1. no \in Text
    BY TextClosed
  <2>2. x \o no = <<LCURLY>> \o r
    BY <1>3, <2>1
  <2>3. r \in Text
    <3> HIDE DEF no
    <3> QED
      BY <1>2, <2>1, TextClosed
  <2>4. x \o no = x
    <3> HIDE DEF x
    <3> QED
      BY <1>4, TextEmpty
  <2> HIDE DEF x, no, r
  <2> QED
    BY <2>2, <2>3, <2>4 DEF Starting
<1>6. ASSUME NEW lex, NEW n \in Fuel(seq), NEW k \in 1..Len(seq), NEW v \in Text,
             Facing(seq, lex, k, FALSE), seq[k] # SPACE, n + k >= Len(seq), Words(seq)[k] = x \o v
      PROVE  \E j \in PlacesIn(seq), e \in BOOLEAN :
               /\ j > k /\ Words(seq)[j] = v
               /\ Yields(Sequence(seq, Levels(seq)[n], lex), m, At(j, e))
  <2> DEFINE u == <<RCURLY>> \o v
             t == w \o u
             r == <<p>> \o t
             part0 == Sequence(seq, Levels(seq)[n], lex)
  <2>1. u \in Text /\ t \in Text
    BY <1>2, TextClosed
  <2>2. Words(seq)[k] = <<LCURLY>> \o r
    BY <1>3, <1>6
  <2> HIDE DEF x, u
  <2>3. r \in Text
    BY <1>2, <2>1, TextClosed
  <2> HIDE DEF t, r
  <2>4. seq[k] = LCURLY /\ Words(seq)[k + 1] = r
    <3>1. WordAt(seq, k, LCURLY, r)
      BY <1>2, <1>6, <2>2, <2>3, WordHere
    <3> QED
      BY <3>1 DEF WordAt
  <2>5. k + 1 \in PlacesIn(seq)
    BY <1>1 DEF PlacesIn
  <2> DEFINE k2 == First(seq, k + 1)
  <2>6. Passed(seq, k + 1, p, t)
    <3>1. Words(seq)[k + 1] = <<p>> \o t
      BY <2>4 DEF r
    <3> QED
      BY <1>2, <2>1, <2>5, <3>1, WordPassed
  <2>7. /\ k2 \in 1..Len(seq) /\ k2 >= k + 1 /\ k2 + 1 \in PlacesIn(seq)
        /\ seq[k2] = p /\ Words(seq)[k2 + 1] = t
    BY <2>6 DEF Passed
  <2>8. SkipSpaces(seq, At(k + 1, FALSE)) = Seeing(seq, k2, FALSE)
    <3>1. First(seq, k + 1) \in 1..Len(seq) /\ k + 1 \in 1..Len(seq) + 1
      BY <1>1, <2>7
    <3> QED
      BY <3>1, SkipFaces
  <2> HIDE DEF k2
  <2>9. n # 0 /\ n - 1 \in Fuel(seq) /\ (n - 1) + (k2 + 1) > Len(seq)
    BY <1>1, <1>6, <2>7 DEF Fuel
  <2> DEFINE no == <<>>
             l == Levels(seq)[n - 1]
             part == Started(seq, l, p, At(k2 + 1, FALSE))
  <2>10. part0 = SequenceAt(seq, l, Seeing(seq, k2, FALSE), no)
    <3>1. Peek(seq, lex).type = LCURLY /\ Consume(seq, lex) = At(k + 1, FALSE)
      <4> DEFINE b == FALSE
      <4>1. Facing(seq, lex, k, b)
        BY <1>6
      <4> HIDE DEF b
      <4>2. Peek(seq, lex).type = LCURLY /\ Consume(seq, lex) = At(k + 1, b)
        BY <2>4, <4>1, FacingFacts, AllMarks, MarkFacts
      <4> QED
        BY <4>2 DEF b
    <3>2. part0 = Levels(seq)[n].sequence[no][At(k + 1, FALSE)]
      BY <3>1 DEF Sequence
    <3>3. At(k + 1, FALSE) \in Lexers /\ no \in Text
      <4> DEFINE b == FALSE
      <4>1. b \in BOOLEAN /\ k + 1 \in Nat
        BY <1>1
      <4> HIDE DEF b
      <4>2. At(k + 1, b) \in Lexers
        BY <4>1, LexersAt, Zenon
      <4> QED
        BY <4>2, TextClosed DEF b
    <3> HIDE DEF no
    <3>4. Levels(seq)[n].sequence[no][At(k + 1, FALSE)] = SequenceAt(seq, l, SkipSpaces(seq, At(k + 1, FALSE)), no)
      BY <2>9, <3>3, SequenceRound
    <3> QED
      BY <2>8, <3>2, <3>4
  <2>11. SequenceAt(seq, l, Seeing(seq, k2, FALSE), no) = StartedTurn(l, part, no)
    <3> DEFINE b == FALSE
    <3> HIDE DEF b, l, no
    <3>1. b \in BOOLEAN /\ seq[k2] \in Starts
      BY <2>7 DEF b
    <3>2. SequenceAt(seq, l, Seeing(seq, k2, b), no) = StartedTurn(l, Started(seq, l, seq[k2], At(k2 + 1, b)), no)
      BY <2>7, <3>1, SequenceStarts
    <3> QED
      BY <2>7, <3>2 DEF b
  <2>12. ReadsCall(seq, part, m, (k2 + 1) - 1, v)
    BY <2>7, <2>9 DEF IsStarted, t, u
  <2> HIDE DEF part, part0
  <2>13. PICK lex2 \in Lexers, j \in 1..Len(seq), d \in BOOLEAN :
          /\ j > (k2 + 1) - 1 /\ WordAt(seq, j, RCURLY, v)
          /\ Yields(part, m, lex2)
          /\ SkipSpaces(seq, lex2) = Seeing(seq, j, d)
    BY <2>12 DEF ReadsCall
  <2>14. PICK o \in Text : part = Result(o, lex2) /\ WithoutSpaces(o) = m
    BY <2>13 DEF Yields
  <2>15. StartedTurn(l, part, no) = l.sequence[o][lex2]
    <3>1. part.out = o /\ part.lex = lex2
      BY <2>14, ResultParts
    <3>2. no \o o = o
      BY TextEmpty
    <3> HIDE DEF no, l
    <3> QED
      BY <3>1, <3>2 DEF StartedTurn
  <2>16. n - 1 # 0
    BY <1>1, <2>7, <2>9, <2>13 DEF Fuel
  <2>17. l.sequence[o][lex2] = SequenceAt(seq, Levels(seq)[(n - 1) - 1], Seeing(seq, j, d), o)
    <3> DEFINE q == n - 1
    <3>1. q \in Fuel(seq) /\ q # 0 /\ l = Levels(seq)[q]
      BY <2>9, <2>16
    <3> HIDE DEF q, l
    <3>2. Levels(seq)[q].sequence[o][lex2] = SequenceAt(seq, Levels(seq)[q - 1], SkipSpaces(seq, lex2), o)
      BY <3>1, SequenceRound
    <3> QED
      BY <2>13, <3>1, <3>2 DEF q
  <2>18. SequenceAt(seq, Levels(seq)[(n - 1) - 1], Seeing(seq, j, d), o) = Result(o, At(j + 1, d))
    <3>1. seq[j] = RCURLY
      BY <2>13 DEF WordAt
    <3> QED
      BY <3>1, SequenceCloses
  <2> HIDE DEF l, no
  <2>19. part0 = Result(o, At(j + 1, d))
    BY <2>10, <2>11, <2>15, <2>17, <2>18
  <2>20. Yields(part0, m, At(j + 1, d))
    BY <2>14, <2>19 DEF Yields
  <2>21. j + 1 \in PlacesIn(seq) /\ j + 1 > k /\ Words(seq)[j + 1] = v
    BY <1>1, <2>7, <2>13 DEF PlacesIn, WordAt
  <2> QED
    BY <2>20, <2>21 DEF part0
<1> HIDE DEF x
<1>7. IsSequence(seq, x, m)
  BY <1>5, <1>6 DEF IsSequence
<1> QED
  BY <1>7 DEF x

-----------------------------------------------------------------------------
(* What the code does with a phrase of each kind.                           *)
Holds(seq, x) ==
  /\ x.kind = "inside"   => IsInside(seq, x.text, x.means)
  /\ x.kind = "group"    => IsGroup(seq, x.text, x.means)
  /\ x.kind = "sequence" => IsSequence(seq, x.text, x.means)
  /\ x.kind = "argument" => IsArgument(seq, x.text, x.means)
  /\ x.kind = "copy"     => \A name \in DOMAIN FunctionMap \ {"EXTRACT"} : IsCopy(seq, name, x.text, x.means)
  /\ x.kind = "extract"  => IsCopy(seq, "EXTRACT", x.text, x.means)

Texts2(x) == x.text \in Text /\ x.means \in Text

Known(seq, X) == \A y \in X : Texts2(y) /\ Holds(seq, y)

LEMMA PhraseParts ==
  ASSUME NEW kind, NEW text, NEW means
  PROVE  /\ Phrase(kind, text, means).kind = kind
         /\ Phrase(kind, text, means).text = text
         /\ Phrase(kind, text, means).means = means
BY DEF Phrase

(* The first piece of a text.                                               *)
LEMMA TextBegins ==
  ASSUME NEW t \in Text, t # <<>>
  PROVE  t[1] \in Pieces /\ 1 \in 1..Len(t)
<1>1. Len(t) \in Nat /\ Len(t) # 0
  BY DEF Text
<1> QED
  BY <1>1, TextPlaces

LEMMA InsideHolds ==
  ASSUME NEW seq, Prepared(seq), NEW X, Known(seq, X), NEW x, Texts2(x), InsideRule(x, X)
  PROVE  Holds(seq, x)
<1>1. x.kind = "inside"
  BY DEF InsideRule
<1>2. CASE x = Phrase("inside", <<RPARENT>>, <<RPARENT>>)
  <2>1. x.text = <<RPARENT>> /\ x.means = <<RPARENT>>
    BY <1>2, PhraseParts
  <2>2. IsInside(seq, x.text, x.means)
    BY <2>1, InsideEnds
  <2> QED
    BY <1>1, <2>2 DEF Holds
<1>3. ASSUME NEW rest \in Of(X, "inside"), x.text # <<>>, x.text[1] \notin {LPARENT, RPARENT, LCURLY, RCURLY},
             Joins(x, Piece(x.text[1], x.text[1]), rest)
      PROVE  Holds(seq, x)
  <2> DEFINE p == x.text[1]
  <2>1. Texts2(rest) /\ IsInside(seq, rest.text, rest.means)
    BY DEF Of, Known, Holds
  <2>2. p \in Pieces
    BY <1>3, TextBegins DEF Texts2
  <2>3. x.text = <<p>> \o rest.text /\ x.means = <<p>> \o rest.means
    BY <1>3 DEF Joins, Piece, Phrase
  <2>4. p \notin {LPARENT, RPARENT, LCURLY}
    BY <1>3
  <2> HIDE DEF p
  <2>5. IsInside(seq, <<p>> \o rest.text, <<p>> \o rest.means)
    BY <2>1, <2>2, <2>4, InsideCopies DEF Texts2
  <2> QED
    BY <1>1, <2>3, <2>5 DEF Holds
<1>4. ASSUME NEW rest \in Of(X, "inside"),
             NEW part \in Of(X, "group") \cup Of(X, "sequence"), Joins(x, part, rest)
      PROVE  Holds(seq, x)
  <2>1. Texts2(rest) /\ IsInside(seq, rest.text, rest.means)
    BY DEF Of, Known, Holds
  <2>2. Texts2(part) /\ (IsGroup(seq, part.text, part.means) \/ IsSequence(seq, part.text, part.means))
    BY DEF Of, Known, Holds
  <2>3. x.text = part.text \o rest.text /\ x.means = part.means \o rest.means
    BY <1>4 DEF Joins
  <2>4. IsInside(seq, part.text \o rest.text, part.means \o rest.means)
    BY <2>1, <2>2, InsideNests DEF Texts2
  <2> QED
    BY <1>1, <2>3, <2>4 DEF Holds
<1> QED
  BY <1>2, <1>3, <1>4 DEF InsideRule

LEMMA GroupHolds ==
  ASSUME NEW seq, Prepared(seq), NEW X, Known(seq, X), NEW x, Texts2(x), GroupRule(x, X)
  PROVE  Holds(seq, x)
<1>1. x.kind = "group"
  BY DEF GroupRule
<1>2. PICK rest \in Of(X, "inside") : Joins(x, Piece(LPARENT, LPARENT), rest)
  BY DEF GroupRule
<1>3. Texts2(rest) /\ IsInside(seq, rest.text, rest.means)
  BY DEF Of, Known, Holds
<1>4. x.text = <<LPARENT>> \o rest.text /\ x.means = <<LPARENT>> \o rest.means
  BY <1>2 DEF Joins, Piece, Phrase
<1>5. IsGroup(seq, <<LPARENT>> \o rest.text, <<LPARENT>> \o rest.means)
  BY <1>3, GroupOpens DEF Texts2
<1> QED
  BY <1>1, <1>4, <1>5 DEF Holds

LEMMA CopyBlank ==
  ASSUME NEW seq, Prepared(seq), NEW name \in DOMAIN FunctionMap, NEW w \in Text, NEW m
  PROVE  IsCopy(seq, name, <<SPACE>> \o w, m)
<1> DEFINE x == <<SPACE>> \o w
<1>1. seq \in Text /\ SPACE \in Pieces
  BY AllMarks, MarkFacts DEF Prepared
<1>2. ASSUME NEW i \in PlacesIn(seq), NEW n \in Fuel(seq), NEW v \in Text,
             Words(seq)[i] = x \o (<<RCURLY>> \o v)
      PROVE  FALSE
  <2> DEFINE u == <<RCURLY>> \o v
  <2>1. u \in Text
    BY BraceBehind
  <2>2. Words(seq)[i] = x \o u
    BY <1>2
  <2> HIDE DEF u
  <2>3. Words(seq)[i] = <<SPACE>> \o (w \o u) /\ w \o u \in Text
    BY <1>1, <2>1, <2>2, WordAhead
  <2>4. WordAt(seq, First(seq, i), SPACE, w \o u)
    <3>1. i \in 1..(Len(seq) + 1)
      BY DEF PlacesIn
    <3> QED
      BY <1>1, <2>3, <3>1, FirstWord
  <2> QED
    BY <2>4 DEF WordAt
<1> HIDE DEF x
<1>3. IsCopy(seq, name, x, m)
  BY <1>2 DEF IsCopy, CopyAt
<1> QED
  BY <1>3 DEF x

LEMMA CopyHolds ==
  ASSUME NEW seq, Prepared(seq), NEW X, Known(seq, X), NEW x, Texts2(x), CopyRule(x, X)
  PROVE  Holds(seq, x)
<1> DEFINE CalledNames == IF x.kind = "copy" THEN DOMAIN FunctionMap \ {"EXTRACT"} ELSE {"EXTRACT"}
<1>1. x.kind \in {"copy", "extract"}
  BY DEF CopyRule
<1>2. CalledNames \subseteq DOMAIN FunctionMap
  BY MapFacts
<1>3. ASSUME \A name \in CalledNames : IsCopy(seq, name, x.text, x.means)
      PROVE  Holds(seq, x)
  BY <1>1, <1>3 DEF Holds
<1>4. ASSUME NEW rest \in Of(X, x.kind), NEW name \in CalledNames
      PROVE  Texts2(rest) /\ IsCopy(seq, name, rest.text, rest.means)
  BY <1>1 DEF Of, Known, Holds
<1>5. CASE x = Phrase(x.kind, <<>>, <<>>)
  <2>1. x.text = <<>> /\ x.means = <<>>
    BY <1>5, PhraseParts
  <2> HIDE DEF CalledNames
  <2>2. \A name \in CalledNames : IsCopy(seq, name, <<>>, <<>>)
    BY <1>2, CopyEnds
  <2> QED
    BY <1>3, <2>1, <2>2
<1>6. ASSUME NEW rest \in Of(X, x.kind), x.text # <<>>, x.text[1] \notin {LCURLY, RCURLY},
             x.kind = "copy" => x.text[1] # "EXTRACT",
             Joins(x, Piece(x.text[1], IF x.kind = "copy" /\ x.text[1] \in DOMAIN LiteralMap
                                       THEN LiteralMap[x.text[1]] ELSE x.text[1]), rest)
      PROVE  Holds(seq, x)
  <2> DEFINE p == x.text[1]
             c == IF x.kind = "copy" /\ p \in DOMAIN LiteralMap THEN LiteralMap[p] ELSE p
  <2>1. p \in Pieces
    BY <1>6, TextBegins DEF Texts2
  <2>2. x.text = <<p>> \o rest.text /\ x.means = <<c>> \o rest.means
    BY <1>6 DEF Joins, Piece, Phrase
  <2>3. p \notin {LCURLY, RCURLY} /\ (x.kind = "copy" => p # "EXTRACT")
    BY <1>6
  <2>4. ASSUME NEW name \in CalledNames PROVE IsCopy(seq, name, x.text, x.means)
    <3>1. Texts2(rest) /\ IsCopy(seq, name, rest.text, rest.means)
      BY <1>4
    <3>2. name \in DOMAIN FunctionMap
      BY <1>2
    <3>3. c = Copied(name, p)
      BY <1>1 DEF Copied
    <3>4. CASE p = SPACE
      <4> HIDE DEF p, c
      <4>1. IsCopy(seq, name, <<SPACE>> \o rest.text, x.means)
        BY <3>1, <3>2, CopyBlank DEF Texts2
      <4> QED
        BY <2>2, <3>4, <4>1
    <3>5. CASE p # SPACE /\ p # "EXTRACT"
      <4> HIDE DEF p, c
      <4>1. IsCopy(seq, name, <<p>> \o rest.text, <<Copied(name, p)>> \o rest.means)
        BY <2>1, <2>3, <3>1, <3>2, <3>5, CopyCopies DEF Texts2
      <4> QED
        BY <2>2, <3>3, <4>1
    <3>6. CASE p = "EXTRACT"
      <4>1. name = "EXTRACT" /\ "EXTRACT" \notin DOMAIN LiteralMap
        BY <2>3, <3>6, MapFacts
      <4>2. c = "EXTRACT"
        BY <3>6, <4>1
      <4>3. IsCopy(seq, "EXTRACT", rest.text, rest.means)
        BY <3>1, <4>1
      <4> HIDE DEF p, c, CalledNames
      <4>4. IsCopy(seq, name, <<"EXTRACT">> \o rest.text, <<"EXTRACT">> \o rest.means)
        BY <3>1, <3>2, <4>3, CopyExtracts DEF Texts2
      <4> QED
        BY <2>2, <3>6, <4>2, <4>4
    <3> QED
      BY <3>4, <3>5, <3>6
  <2> QED
    BY <1>3, <2>4
<1>7. ASSUME NEW rest \in Of(X, x.kind), NEW part \in Of(X, "sequence"), Joins(x, part, rest)
      PROVE  Holds(seq, x)
  <2>1. Texts2(part) /\ IsSequence(seq, part.text, part.means)
    BY DEF Of, Known, Holds
  <2>2. x.text = part.text \o rest.text /\ x.means = part.means \o rest.means
    BY <1>7 DEF Joins
  <2>3. ASSUME NEW name \in CalledNames PROVE IsCopy(seq, name, x.text, x.means)
    <3>1. Texts2(rest) /\ IsCopy(seq, name, rest.text, rest.means)
      BY <1>4
    <3>2. name \in DOMAIN FunctionMap
      BY <1>2
    <3> HIDE DEF CalledNames
    <3>3. IsCopy(seq, name, part.text \o rest.text, part.means \o rest.means)
      BY <2>1, <3>1, <3>2, CopyNests DEF Texts2
    <3> QED
      BY <2>2, <3>3
  <2> QED
    BY <1>3, <2>3
<1>8. ASSUME NEW rest \in Of(X, "extract"), x.kind = "copy", Joins(x, Piece("EXTRACT", "EXTRACT"), rest)
      PROVE  Holds(seq, x)
  <2>1. Texts2(rest) /\ IsCopy(seq, "EXTRACT", rest.text, rest.means)
    BY DEF Of, Known, Holds
  <2>2. x.text = <<"EXTRACT">> \o rest.text /\ x.means = <<"EXTRACT">> \o rest.means
    BY <1>8 DEF Joins, Piece, Phrase
  <2> HIDE DEF CalledNames
  <2>3. \A name \in CalledNames : IsCopy(seq, name, <<"EXTRACT">> \o rest.text, <<"EXTRACT">> \o rest.means)
    BY <1>2, <2>1, CopyExtracts DEF Texts2
  <2> QED
    BY <1>3, <2>2, <2>3
<1> HIDE DEF CalledNames
<1> QED
  BY <1>5, <1>6, <1>7, <1>8 DEF CopyRule

LEMMA ArgumentHolds ==
  ASSUME NEW seq, Prepared(seq), NEW X, Known(seq, X), NEW x, Texts2(x), ArgumentRule(x, X)
  PROVE  Holds(seq, x)
<1>1. x.kind = "argument"
  BY DEF ArgumentRule
<1>2. CASE Len(x.text) = 1 /\ Type(x.text[1]) \in {"NUMBER", "STRING", "IDENT"} /\ x.means = x.text
  <2> DEFINE p == x.text[1]
  <2>1. x.text = <<p>> /\ p \in Pieces
    <3>1. x.text \in Seq(Pieces) /\ x.text # <<>>
      BY <1>2 DEF Texts2, Text
    <3>2. x.text = <<x.text[1]>> /\ x.text[1] \in Pieces
      BY <1>2, <3>1
    <3> QED
      BY <3>2
  <2>2. Type(p) \in {"NUMBER", "STRING", "IDENT"}
    BY <1>2
  <2> HIDE DEF p
  <2>3. IsArgument(seq, <<p>>, <<p>>)
    BY <2>1, <2>2, PieceIsArgument
  <2> QED
    BY <1>1, <1>2, <2>1, <2>3 DEF Holds
<1>3. ASSUME NEW part \in Of(X, "group") \cup Of(X, "sequence"), x = Phrase("argument", part.text, part.means)
      PROVE  Holds(seq, x)
  <2>1. Texts2(part) /\ (IsGroup(seq, part.text, part.means) \/ IsSequence(seq, part.text, part.means))
    BY DEF Of, Known, Holds
  <2>2. x.text = part.text /\ x.means = part.means
    BY <1>3, PhraseParts
  <2>3. IsArgument(seq, part.text, part.means)
    BY <2>1, GroupIsArgument, SequenceIsArgument DEF Texts2
  <2> QED
    BY <1>1, <2>2, <2>3 DEF Holds
<1>4. ASSUME NEW part \in Of(X, "group"),
             NEW f \in DOMAIN FunctionMap, Joins(x, Piece(f, FunctionMap[f]), part)
      PROVE  Holds(seq, x)
  <2> DEFINE c == FunctionMap[f]
  <2>1. Texts2(part) /\ IsGroup(seq, part.text, part.means)
    BY DEF Of, Known, Holds
  <2>2. x.text = <<f>> \o part.text /\ x.means = <<c>> \o part.means
    BY <1>4 DEF Joins, Piece, Phrase
  <2>3. f \in Pieces /\ c \in Pieces
    <3>1. f \in Keywords
      BY MapFacts
    <3> QED
      BY <3>1, MapFacts, KeywordBegins, TextClosed
  <2>4. IsArgument(seq, <<f>> \o part.text, <<c>> \o part.means)
    BY <2>1, <2>3, CallIsArgument DEF Texts2
  <2> HIDE DEF c
  <2> QED
    BY <1>1, <2>2, <2>4 DEF Holds
<1>5. ASSUME NEW part \in Of(X, "group"), x.text # <<>>, Type(x.text[1]) = "IDENT",
             Joins(x, Piece(x.text[1], x.text[1]), part)
      PROVE  Holds(seq, x)
  <2> DEFINE p == x.text[1]
  <2>1. Texts2(part) /\ IsGroup(seq, part.text, part.means)
    BY DEF Of, Known, Holds
  <2>2. x.text = <<p>> \o part.text /\ x.means = <<p>> \o part.means
    BY <1>5 DEF Joins, Piece, Phrase
  <2>3. p \in Pieces /\ Type(p) = "IDENT"
    BY <1>5, TextBegins DEF Texts2
  <2> HIDE DEF p
  <2>4. IsArgument(seq, <<p>> \o part.text, <<p>> \o part.means)
    BY <2>1, <2>3, CallIsArgument DEF Texts2
  <2> QED
    BY <1>1, <2>2, <2>4 DEF Holds
<1> QED
  BY <1>2, <1>3, <1>4, <1>5 DEF ArgumentRule

LiteralText(p, s) == (<<LCURLY, p>> \o <<s>>) \o <<RCURLY>>

LEMMA LiteralList ==
  ASSUME NEW p \in Pieces, NEW s \in Pieces
  PROVE  <<LCURLY, p, s, RCURLY>> = LiteralText(p, s)
<1> DEFINE R == <<RCURLY>>
           sR == <<s, RCURLY>>
           psR == <<p, s, RCURLY>>
           Lp == <<LCURLY, p>>
           S == <<s>>
<1>1. LCURLY \in Pieces /\ RCURLY \in Pieces
  BY AllMarks, MarkFacts
<1>2. R \in Text /\ S \in Text /\ <<p>> \in Text /\ <<LCURLY>> \in Text
  BY <1>1, TextClosed
<1>3. sR = S \o R /\ psR = <<p>> \o sR /\ <<LCURLY, p, s, RCURLY>> = <<LCURLY>> \o psR
  BY ListOf2, ListOf3, ListOf4
<1>4. sR \in Text
  <2> HIDE DEF sR, S, R
  <2> QED
    BY <1>2, <1>3, TextClosed
<1>5. PairAhead(LCURLY, p, sR)
  <2> HIDE DEF sR
  <2> QED
    BY <1>1, <1>4, TextPair
<1>6. Lp \o sR = <<LCURLY>> \o (<<p>> \o sR) /\ Lp \in Text
  BY <1>5 DEF PairAhead
<1>7. Joined(S, R, sR)
  <2> HIDE DEF S, R, sR
  <2>1. Joined(S, R, S \o R)
    BY <1>2, TextJoined
  <2> QED
    BY <1>3, <2>1
<1> HIDE DEF R, sR, psR, Lp, S
<1>8. (Lp \o S) \o R = Lp \o sR
  BY <1>6, <1>7 DEF Joined
<1>9. <<LCURLY, p, s, RCURLY>> = (Lp \o S) \o R
  BY <1>3, <1>6, <1>8
<1> QED
  BY <1>9 DEF Lp, S, R, LiteralText

LEMMA LiteralHolds ==
  ASSUME NEW seq, Prepared(seq), NEW x, LiteralRule(x)
  PROVE  Holds(seq, x)
<1>1. ASSUME NEW s \in Strings, NEW p \in {"D", "TS"},
             NEW c \in Strings, c = IF p = "D" THEN s ELSE Trim(s),
             x = Phrase("sequence", <<LCURLY, p, s, RCURLY>>, <<c>>)
      PROVE  Holds(seq, x)
  <2>1. p \in Starts /\ p \in Pieces /\ s \in Pieces /\ c \in Pieces
    <3>1. p \in Starts
      BY DEF Starts
    <3>2. p \in Keywords
      BY <3>1, StartFacts
    <3>3. p \in Pieces
      BY <3>2, KeywordBegins, TextClosed
    <3> QED
      BY <3>1, <3>3, StringFacts
  <2>2. x.kind = "sequence" /\ x.text = LiteralText(p, s) /\ x.means = <<c>>
    <3>1. x.kind = "sequence" /\ x.text = <<LCURLY, p, s, RCURLY>> /\ x.means = <<c>>
      BY <1>1, PhraseParts
    <3>2. <<LCURLY, p, s, RCURLY>> = LiteralText(p, s)
      BY <2>1, LiteralList
    <3> QED
      BY <3>1, <3>2
  <2>3. IsStarted(seq, p, <<s>>, <<c>>)
    BY <1>1, LiteralIsStarted
  <2>4. <<s>> \in Text /\ <<c>> \in Text /\ <<c>> # <<>>
    BY <2>1, TextClosed
  <2> DEFINE S == <<s>>
             C == <<c>>
  <2>5. S \in Text /\ C \in Text /\ C # <<>> /\ IsStarted(seq, p, S, C) /\ LiteralText(p, s) = (<<LCURLY, p>> \o S) \o <<RCURLY>>
    BY <2>3, <2>4 DEF LiteralText
  <2> HIDE DEF S, C
  <2>6. IsSequence(seq, (<<LCURLY, p>> \o S) \o <<RCURLY>>, C)
    BY <2>1, <2>5, StartedIsSequence
  <2>7. IsSequence(seq, x.text, x.means)
    BY <2>2, <2>5, <2>6 DEF C
  <2> QED
    BY <2>2, <2>7 DEF Holds
<1>2. PICK s \in Strings : \/ x = Phrase("sequence", <<LCURLY, "D", s, RCURLY>>, <<s>>)
                           \/ x = Phrase("sequence", <<LCURLY, "TS", s, RCURLY>>, <<Trim(s)>>)
  BY DEF LiteralRule
<1>3. Trim(s) \in Strings
  BY StringFacts
<1>4. CASE x = Phrase("sequence", <<LCURLY, "D", s, RCURLY>>, <<s>>)
  BY <1>1, <1>4
<1>5. CASE x = Phrase("sequence", <<LCURLY, "TS", s, RCURLY>>, <<Trim(s)>>)
  <2>1. Trim(s) = IF "TS" = "D" THEN s ELSE Trim(s)
    BY StartFacts
  <2> DEFINE c == Trim(s)
             p == "TS"
  <2>2. c \in Strings /\ p \in {"D", "TS"} /\ c = (IF p = "D" THEN s ELSE Trim(s))
        /\ x = Phrase("sequence", <<LCURLY, p, s, RCURLY>>, <<c>>)
    BY <1>3, <1>5, <2>1
  <2> HIDE DEF c, p
  <2> QED
    BY <1>1, <2>2
<1> QED
  BY <1>2, <1>4, <1>5

LEMMA CallHolds ==
  ASSUME NEW seq, Prepared(seq), NEW x, NEW w \in Text,
         NEW m \in Text, m # <<>>, IsFunction(seq, w, m),
         IsCall(x, w, m)
  PROVE  Holds(seq, x)
<1> DEFINE p == "FN"
<1>1. p \in Starts
  BY DEF Starts
<1>2. IsStarted(seq, p, w, m)
  BY FunctionIsStarted
<1>3. x.kind = "sequence" /\ x.text = (<<LCURLY, p>> \o w) \o <<RCURLY>> /\ x.means = m
  BY DEF IsCall, Phrase
<1> HIDE DEF p
<1>4. IsSequence(seq, (<<LCURLY, p>> \o w) \o <<RCURLY>>, m)
  BY <1>1, <1>2, StartedIsSequence
<1> QED
  BY <1>3, <1>4 DEF Holds

LEMMA CallMeans ==
  ASSUME NEW x, NEW w, NEW m, IsCall(x, w, m)
  PROVE  x.means = m
BY PhraseParts DEF IsCall

LEMMA RenamedHolds ==
  ASSUME NEW seq, Prepared(seq), NEW X, Known(seq, X), NEW x, Texts2(x), RenamedRule(x, X)
  PROVE  Holds(seq, x)
<1>0. PICK f \in DOMAIN FunctionMap \ {"TIMESTAMPADD"} :
        \E copy \in Of(X, IF f = "EXTRACT" THEN "extract" ELSE "copy") :
          IsCall(x, <<f>> \o copy.text, <<FunctionMap[f]>> \o copy.means)
  BY DEF RenamedRule
<1>1. PICK copy \in Of(X, IF f = "EXTRACT" THEN "extract" ELSE "copy") :
        IsCall(x, <<f>> \o copy.text, <<FunctionMap[f]>> \o copy.means)
  BY <1>0
<1> DEFINE g == FunctionMap[f]
           w == <<f>> \o copy.text
           m == <<g>> \o copy.means
<1>2. Texts2(copy) /\ IsCopy(seq, f, copy.text, copy.means)
  <2>1. copy \in X /\ copy.kind = IF f = "EXTRACT" THEN "extract" ELSE "copy"
    BY DEF Of
  <2>2. CASE f = "EXTRACT"
    BY <2>1, <2>2 DEF Known, Holds
  <2>3. CASE f # "EXTRACT"
    BY <2>1, <2>3 DEF Known, Holds
  <2> QED
    BY <2>2, <2>3
<1>3. f \in Pieces /\ g \in Pieces
  <2>1. f \in Keywords
    BY MapFacts
  <2> QED
    BY <2>1, MapFacts, KeywordBegins, TextClosed
<1> HIDE DEF g
<1>4. w \in Text /\ m \in Text /\ m # <<>>
  BY <1>2, <1>3, TextClosed, TextCons DEF Texts2
<1>5. IsFunction(seq, w, m)
  BY <1>2, RenamedIsFunction DEF Texts2, g
<1>6. IsCall(x, w, m)
  BY <1>1 DEF g
<1> HIDE DEF w, m
<1> QED
  BY <1>4, <1>5, <1>6, CallHolds

LEMMA NowHolds ==
  ASSUME NEW seq, Prepared(seq), NEW X, Known(seq, X), NEW x, Texts2(x), NowRule(x, X)
  PROVE  Holds(seq, x)
<1> DEFINE f == "CURRENT_TIMESTAMP"
<1>1. f \in Pieces /\ Now \in Text /\ Now # <<>>
  BY NowFacts, KeywordBegins, TextClosed
<1>2. ASSUME IsCall(x, <<f>>, Now) PROVE Holds(seq, x)
  <2> DEFINE w == <<f>>
  <2>1. w \in Text /\ IsFunction(seq, w, Now)
    BY <1>1, TextClosed, NowIsFunction
  <2>2. IsCall(x, w, Now)
    BY <1>2
  <2> HIDE DEF w
  <2> QED
    BY <1>1, <2>1, <2>2, CallHolds
<1>3. ASSUME NEW part \in Of(X, "group"), IsCall(x, <<f>> \o part.text, Now) PROVE Holds(seq, x)
  <2> DEFINE w == <<f>> \o part.text
  <2>1. Texts2(part) /\ IsGroup(seq, part.text, part.means)
    BY DEF Of, Known, Holds
  <2>2. w \in Text
    <3> HIDE DEF f
    <3> QED
      BY <1>1, <2>1, TextClosed DEF Texts2
  <2>3. IsFunction(seq, w, Now)
    BY <2>1, NowGroupIsFunction DEF Texts2
  <2>4. IsCall(x, w, Now)
    BY <1>3
  <2> HIDE DEF w
  <2> QED
    BY <1>1, <2>2, <2>3, <2>4, CallHolds
<1> QED
  BY <1>2, <1>3 DEF NowRule

LEMMA NonEmpty ==
  ASSUME NEW a \in Text, NEW p \in Pieces
  PROVE  a \o <<p>> # <<>> /\ a \o <<p>> \in Text
<1> DEFINE P == <<p>>
<1>1. P \in Text /\ Len(P) = 1
  BY TextClosed
<1> HIDE DEF P
<1>2. Len(a \o P) = Len(a) + 1 /\ Len(a) \in Nat /\ a \o P \in Text
  <2>1. Len(a \o P) = Len(a) + Len(P) /\ Len(a) \in Nat
    BY <1>1, TextPlaces, Zenon
  <2>2. a \o P \in Text
    BY <1>1, TextClosed, Zenon
  <2> QED
    BY <1>1, <2>1, <2>2
<1>3. a \o P # <<>>
  <2>1. Len(a \o P) # 0 /\ Len(<<>>) = 0
    BY <1>2
  <2> QED
    BY <2>1
<1> QED
  BY <1>2, <1>3 DEF P

LEMMA TrimHolds ==
  ASSUME NEW seq, Prepared(seq), NEW x, Texts2(x),
         NEW a, Texts2(a), IsArgument(seq, a.text, a.means),
         IsCall(x, <<"LTRIM", LPARENT>> \o a.text \o <<RPARENT>>,
                <<"replaceRegexpOne", LPARENT>> \o a.means \o <<COMMA, "'^s'", COMMA, "''", RPARENT>>)
  PROVE  Holds(seq, x)
<1> DEFINE w == (<<"LTRIM", LPARENT>> \o a.text) \o <<RPARENT>>
           A == <<"replaceRegexpOne", LPARENT>>
           C == <<COMMA, "'^s'", COMMA, "''", RPARENT>>
           m == (A \o a.means) \o C
<1>1. w \in Text
  <2> DEFINE p == "LTRIM"
  <2>1. p \in Keywords
    BY DEF Keywords
  <2>2. <<p, LPARENT>> = <<p>> \o <<LPARENT>> /\ LPARENT \in Pieces /\ RPARENT \in Pieces
    BY ListOf2, AllMarks, MarkFacts
  <2> HIDE DEF p
  <2>3. p \in Pieces
    BY <2>1, KeywordBegins, TextClosed
  <2>4. <<p, LPARENT>> \in Text
    BY <2>2, <2>3, TextClosed
  <2>5. (<<p, LPARENT>> \o a.text) \o <<RPARENT>> \in Text
    BY <2>2, <2>4, TextClosed DEF Texts2
  <2> QED
    BY <2>5 DEF p
<1>2. IsFunction(seq, w, m)
  BY TrimIsFunction DEF Texts2
<1>3. IsCall(x, w, m)
  OBVIOUS
<1>4. m \in Text
  <2> HIDE DEF w, m
  <2>1. x.means = m
    BY <1>3, CallMeans
  <2> QED
    BY <2>1 DEF Texts2
<1>5. m # <<>>
  <2> DEFINE y == A \o a.means
             c2 == <<COMMA, "'^s'", COMMA, "''">>
  <2>1. WithoutSpaces(m) # <<>> \/ Len(m) # 0
    <3>1. Len(m) = Len(y) + 5 /\ Len(y) \in Nat
      <4>1. A \in Seq(Pieces \cup {"replaceRegexpOne"}) /\ a.means \in Seq(Pieces \cup {"replaceRegexpOne"})
        <5>1. LPARENT \in Pieces
          BY AllMarks, MarkFacts
        <5>2. A \in Seq(Pieces \cup {"replaceRegexpOne"})
          BY <5>1
        <5>3. a.means \in Seq(Pieces)
          BY DEF Texts2, Text
        <5> QED
          BY <5>2, <5>3
      <4>2. y \in Seq(Pieces \cup {"replaceRegexpOne"})
        <5> HIDE DEF A
        <5> QED
          BY <4>1
      <4>3. Len(C) = 5
        BY Zenon
      <4> QED
        BY <4>2, <4>3
    <3> QED
      BY <3>1
  <2> QED
    BY <2>1
<1> HIDE DEF w, m
<1> QED
  BY <1>1, <1>2, <1>3, <1>4, <1>5, CallHolds

LEMMA AddHolds ==
  ASSUME NEW seq, Prepared(seq), NEW x, Texts2(x),
         NEW a, Texts2(a), IsArgument(seq, a.text, a.means),
         NEW b, Texts2(b), IsArgument(seq, b.text, b.means), NEW unit \in DOMAIN UnitsMap,
         IsCall(x, <<"TIMESTAMPADD", LPARENT, unit, COMMA>> \o a.text \o <<COMMA>> \o b.text \o <<RPARENT>>,
                <<"dateAdd", LPARENT, UnitsMap[unit], COMMA>> \o a.means \o <<COMMA>> \o b.means \o <<RPARENT>>)
  PROVE  Holds(seq, x)
<1> DEFINE w == AddText("TIMESTAMPADD", unit, a.text, b.text)
           P == <<"dateAdd", LPARENT, UnitsMap[unit], COMMA>>
           m == ((P \o a.means) \o <<COMMA>> \o b.means) \o <<RPARENT>>
<1>1. w \in Text
  <2> DEFINE p == "TIMESTAMPADD"
  <2>1. p \in Keywords /\ unit \in Keywords
    BY MapFacts
  <2> HIDE DEF p
  <2>2. p \in Pieces /\ unit \in Pieces
    BY <2>1, KeywordBegins, TextClosed
  <2>3. AddText(p, unit, a.text, b.text) \in Text
    BY <2>2, AddReads DEF Texts2
  <2> QED
    BY <2>3 DEF p
<1>2. IsFunction(seq, w, m)
  BY AddIsFunction DEF Texts2
<1>3. IsCall(x, w, m)
  BY DEF AddText
<1>4. m \in Text
  <2> HIDE DEF w, m
  <2>1. x.means = m
    BY <1>3, CallMeans
  <2> QED
    BY <2>1 DEF Texts2
<1>5. m # <<>>
  <2>1. "dateAdd" \in Pieces /\ LPARENT \in Pieces /\ UnitsMap[unit] \in Pieces /\ COMMA \in Pieces /\ RPARENT \in Pieces
    <3>1. "TIMESTAMPADD" \in DOMAIN FunctionMap
      BY MapFacts
    <3> QED
      BY <3>1, MapFacts, AllMarks, MarkFacts
  <2>2. P \in Text
    <3> DEFINE d == "dateAdd"
               no == <<>>
    <3>1. d \in Pieces /\ no \in Text
      BY <2>1, TextClosed
    <3> HIDE DEF d, no
    <3>2. FourAhead(d, LPARENT, UnitsMap[unit], COMMA, no)
      BY <2>1, <3>1, TextFour
    <3> QED
      BY <3>2 DEF FourAhead, d
  <2> DEFINE y == (P \o a.means) \o <<COMMA>> \o b.means
  <2>3. y \in Text
    <3> HIDE DEF P
    <3>1. P \o a.means \in Text /\ <<COMMA>> \in Text
      BY <2>1, <2>2, TextClosed DEF Texts2
    <3> DEFINE z == P \o a.means
               K == <<COMMA>>
    <3> HIDE DEF z, K
    <3>2. z \o K \in Text
      BY <3>1, TextClosed DEF z, K
    <3>3. (z \o K) \o b.means \in Text
      BY <3>2, TextClosed DEF Texts2
    <3> QED
      BY <3>3 DEF z, K
  <2> HIDE DEF y
  <2>4. y \o <<RPARENT>> # <<>>
    BY <2>1, <2>3, NonEmpty
  <2> QED
    BY <2>4 DEF y
<1> HIDE DEF w, m
<1> QED
  BY <1>1, <1>2, <1>3, <1>4, <1>5, CallHolds

LEMMA LocateHolds ==
  ASSUME NEW seq, Prepared(seq), NEW x, Texts2(x),
         NEW a, Texts2(a), IsArgument(seq, a.text, a.means),
         NEW b, Texts2(b), IsArgument(seq, b.text, b.means),
         NEW c, Texts2(c), IsArgument(seq, c.text, c.means),
         IsCall(x, <<"LOCATE", LPARENT>> \o a.text \o <<COMMA>> \o b.text \o <<COMMA>> \o c.text \o <<RPARENT>>,
                <<"position", LPARENT>> \o b.means \o <<COMMA>> \o a.means \o <<RPARENT>>)
  PROVE  Holds(seq, x)
<1> DEFINE w == LocateText("LOCATE", a.text, b.text, c.text)
           P == <<"position", LPARENT>>
           m == ((P \o b.means) \o <<COMMA>> \o a.means) \o <<RPARENT>>
<1>1. w \in Text
  <2> DEFINE p == "LOCATE"
  <2>1. p \in Keywords
    BY DEF Keywords
  <2> HIDE DEF p
  <2>2. p \in Pieces
    BY <2>1, KeywordBegins, TextClosed
  <2>3. LocateText(p, a.text, b.text, c.text) \in Text
    BY <2>2, LocateReads DEF Texts2
  <2> QED
    BY <2>3 DEF p
<1>2. IsFunction(seq, w, m)
  BY LocateIsFunction DEF Texts2
<1>3. IsCall(x, w, m)
  BY DEF LocateText
<1>4. m \in Text
  <2> HIDE DEF w, m
  <2>1. x.means = m
    BY <1>3, CallMeans
  <2> QED
    BY <2>1 DEF Texts2
<1>5. m # <<>>
  <2>1. "position" \in Pieces /\ LPARENT \in Pieces /\ COMMA \in Pieces /\ RPARENT \in Pieces
    BY EscapesAssumption, AllMarks, MarkFacts
  <2>2. P \in Text
    <3> DEFINE d == "position"
               no == <<>>
    <3>1. d \in Pieces /\ no \in Text
      BY <2>1, TextClosed
    <3> HIDE DEF d, no
    <3>2. PairAhead(d, LPARENT, no)
      BY <2>1, <3>1, TextPair
    <3> QED
      BY <3>2 DEF PairAhead, d
  <2> DEFINE y == (P \o b.means) \o <<COMMA>> \o a.means
  <2>3. y \in Text
    <3> HIDE DEF P
    <3>1. P \o b.means \in Text /\ <<COMMA>> \in Text
      BY <2>1, <2>2, TextClosed DEF Texts2
    <3> DEFINE z == P \o b.means
               K == <<COMMA>>
    <3> HIDE DEF z, K
    <3>2. z \o K \in Text
      BY <3>1, TextClosed DEF z, K
    <3>3. (z \o K) \o a.means \in Text
      BY <3>2, TextClosed DEF Texts2
    <3> QED
      BY <3>3 DEF z, K
  <2> HIDE DEF y
  <2>4. y \o <<RPARENT>> # <<>>
    BY <2>1, <2>3, NonEmpty
  <2> QED
    BY <2>4 DEF y
<1> HIDE DEF w, m
<1> QED
  BY <1>1, <1>2, <1>3, <1>4, <1>5, CallHolds

LEMMA ArgumentKnown ==
  ASSUME NEW seq, NEW X, Known(seq, X), NEW a \in Of(X, "argument")
  PROVE  Texts2(a) /\ IsArgument(seq, a.text, a.means)
BY DEF Of, Known, Holds

LEMMA SpecialHolds ==
  ASSUME NEW seq, Prepared(seq), NEW X, Known(seq, X), NEW x, Texts2(x), SpecialRule(x, X)
  PROVE  Holds(seq, x)
<1>1. PICK a \in Of(X, "argument") :
    \/ IsCall(x, <<"LTRIM", LPARENT>> \o a.text \o <<RPARENT>>,
              <<"replaceRegexpOne", LPARENT>> \o a.means \o <<COMMA, "'^s'", COMMA, "''", RPARENT>>)
    \/ \E b \in Of(X, "argument") :
         \/ \E unit \in DOMAIN UnitsMap :
              IsCall(x, <<"TIMESTAMPADD", LPARENT, unit, COMMA>> \o a.text \o <<COMMA>> \o b.text \o <<RPARENT>>,
                     <<"dateAdd", LPARENT, UnitsMap[unit], COMMA>> \o a.means \o <<COMMA>> \o b.means
                        \o <<RPARENT>>)
         \/ \E c \in Of(X, "argument") :
              IsCall(x, <<"LOCATE", LPARENT>> \o a.text \o <<COMMA>> \o b.text \o <<COMMA>> \o c.text
                          \o <<RPARENT>>,
                     <<"position", LPARENT>> \o b.means \o <<COMMA>> \o a.means \o <<RPARENT>>)
  BY DEF SpecialRule
<1>2. Texts2(a) /\ IsArgument(seq, a.text, a.means)
  BY ArgumentKnown
<1>3. CASE IsCall(x, <<"LTRIM", LPARENT>> \o a.text \o <<RPARENT>>,
              <<"replaceRegexpOne", LPARENT>> \o a.means \o <<COMMA, "'^s'", COMMA, "''", RPARENT>>)
  BY <1>2, <1>3, TrimHolds
<1>4. ASSUME NEW b \in Of(X, "argument"), NEW unit \in DOMAIN UnitsMap,
             IsCall(x, <<"TIMESTAMPADD", LPARENT, unit, COMMA>> \o a.text \o <<COMMA>> \o b.text \o <<RPARENT>>,
                    <<"dateAdd", LPARENT, UnitsMap[unit], COMMA>> \o a.means \o <<COMMA>> \o b.means \o <<RPARENT>>)
      PROVE  Holds(seq, x)
  <2>1. Texts2(b) /\ IsArgument(seq, b.text, b.means)
    BY ArgumentKnown
  <2> QED
    BY <1>2, <1>4, <2>1, AddHolds
<1>5. ASSUME NEW b \in Of(X, "argument"), NEW c \in Of(X, "argument"),
             IsCall(x, <<"LOCATE", LPARENT>> \o a.text \o <<COMMA>> \o b.text \o <<COMMA>> \o c.text \o <<RPARENT>>,
                    <<"position", LPARENT>> \o b.means \o <<COMMA>> \o a.means \o <<RPARENT>>)
      PROVE  Holds(seq, x)
  <2>1. Texts2(b) /\ IsArgument(seq, b.text, b.means) /\ Texts2(c) /\ IsArgument(seq, c.text, c.means)
    BY ArgumentKnown
  <2> QED
    BY <1>2, <1>5, <2>1, LocateHolds
<1> QED
  BY <1>1, <1>3, <1>4, <1>5, Zenon

-----------------------------------------------------------------------------
(* A query is no phrase that the code rewrites by itself.                   *)
LEMMA QueryHolds ==
  ASSUME NEW seq, NEW X, NEW x, QueryRule(x, X)
  PROVE  Holds(seq, x)
BY DEF QueryRule, Holds

LEMMA FollowsHolds ==
  ASSUME NEW seq, Prepared(seq), NEW X, Known(seq, X), NEW x, Texts2(x), Follows(x, X)
  PROVE  Holds(seq, x)
BY InsideHolds, GroupHolds, CopyHolds, ArgumentHolds, LiteralHolds, RenamedHolds, NowHolds,
   SpecialHolds, QueryHolds
   DEF Follows

(* An argument follows from phrases that are no longer than it.             *)
NoLonger(X, x) == {y \in X : Len(y.text) <= Len(x.text)}

LEMMA JoinedIsNoLonger ==
  ASSUME NEW x, Texts2(x), NEW part, Texts2(part), NEW p,
         NEW c, Joins(x, Piece(p, c), part), p \in Pieces
  PROVE  Len(part.text) <= Len(x.text)
<1> DEFINE P == <<p>>
<1>1. P \in Text /\ Len(P) = 1
  BY TextClosed
<1>2. x.text = P \o part.text
  BY DEF Joins, Piece, Phrase
<1> HIDE DEF P
<1> DEFINE b == part.text
<1>3. b \in Text
  BY DEF Texts2
<1> HIDE DEF b
<1>4. Len(P \o b) = Len(P) + Len(b)
  BY <1>1, <1>3, TextPlaces, Zenon
<1>5. Len(b) \in Nat
  BY <1>3, TextPlaces, Zenon
<1>6. Len(x.text) = Len(P) + Len(b)
  BY <1>2, <1>4 DEF b
<1> QED
  BY <1>1, <1>5, <1>6 DEF b

LEMMA ArgumentNeedsNoLonger ==
  ASSUME NEW X, \A y \in X : Texts2(y), NEW x, Texts2(x), ArgumentRule(x, X)
  PROVE  ArgumentRule(x, NoLonger(X, x))
<1> DEFINE Y == NoLonger(X, x)
<1>1. x.kind = "argument"
  BY DEF ArgumentRule
<1>2. ASSUME NEW part \in Of(X, "group") \cup Of(X, "sequence"), Len(part.text) <= Len(x.text)
      PROVE  /\ part \in Of(Y, "group") \cup Of(Y, "sequence")
             /\ part \in Of(X, "group") => part \in Of(Y, "group")
  BY <1>2 DEF Of, NoLonger
<1> HIDE DEF Y
<1>3. CASE Len(x.text) = 1 /\ Type(x.text[1]) \in {"NUMBER", "STRING", "IDENT"} /\ x.means = x.text
  BY <1>1, <1>3 DEF ArgumentRule
<1>4. ASSUME NEW part \in Of(X, "group") \cup Of(X, "sequence"), x = Phrase("argument", part.text, part.means)
      PROVE  ArgumentRule(x, Y)
  <2>1. Len(part.text) <= Len(x.text)
    <3>1. x.text = part.text
      BY <1>4, PhraseParts
    <3>2. Len(x.text) \in Nat
      BY TextPlaces DEF Texts2
    <3> QED
      BY <3>1, <3>2
  <2>2. part \in Of(Y, "group") \cup Of(Y, "sequence")
    BY <1>2, <2>1
  <2> QED
    BY <1>1, <1>4, <2>2 DEF ArgumentRule
<1>5. ASSUME NEW part \in Of(X, "group"), NEW p, NEW c, p \in Pieces, Joins(x, Piece(p, c), part)
      PROVE  part \in Of(Y, "group")
  <2>1. Texts2(part)
    BY DEF Of
  <2>2. Len(part.text) <= Len(x.text)
    BY <1>5, <2>1, JoinedIsNoLonger
  <2> QED
    BY <1>2, <2>2
<1>6. ASSUME NEW part \in Of(X, "group"),
             NEW f \in DOMAIN FunctionMap, Joins(x, Piece(f, FunctionMap[f]), part)
      PROVE  ArgumentRule(x, Y)
  <2>1. f \in Keywords
    BY MapFacts
  <2>2. f \in Pieces
    BY <2>1, KeywordBegins, TextClosed
  <2>3. part \in Of(Y, "group")
    BY <1>5, <1>6, <2>2
  <2> QED
    BY <1>1, <1>6, <2>3 DEF ArgumentRule
<1>7. ASSUME NEW part \in Of(X, "group"), x.text # <<>>, Type(x.text[1]) = "IDENT",
             Joins(x, Piece(x.text[1], x.text[1]), part)
      PROVE  ArgumentRule(x, Y)
  <2>1. x.text[1] \in Pieces
    BY <1>7, TextBegins DEF Texts2
  <2>2. part \in Of(Y, "group")
    BY <1>5, <1>7, <2>1
  <2> QED
    BY <1>1, <1>7, <2>2 DEF ArgumentRule
<1> QED
  BY <1>3, <1>4, <1>6, <1>7 DEF ArgumentRule, Y

LEMMA ArgumentFollows ==
  ASSUME NEW X, NEW x, x.kind = "argument", Follows(x, X)
  PROVE  ArgumentRule(x, X)
<1>1. ASSUME NEW text, NEW means, x = Phrase("sequence", text, means) PROVE FALSE
  BY <1>1, PhraseParts
<1>2. ~LiteralRule(x)
  BY <1>1 DEF LiteralRule
<1>3. ASSUME NEW text, NEW means, IsCall(x, text, means) PROVE FALSE
  BY <1>1, <1>3 DEF IsCall
<1>4. ~RenamedRule(x, X) /\ ~NowRule(x, X)
  BY <1>3 DEF RenamedRule, NowRule
<1>5. ~SpecialRule(x, X)
  BY <1>3 DEF SpecialRule
<1>6. ~InsideRule(x, X) /\ ~GroupRule(x, X) /\ ~CopyRule(x, X) /\ ~QueryRule(x, X)
  BY DEF InsideRule, GroupRule, CopyRule, QueryRule
<1> QED
  BY <1>2, <1>4, <1>5, <1>6 DEF Follows

(* The phrases of a derivation are rewritten to what they mean, wherever    *)
(* they stand in a text that the lexer reads piece by piece.                *)
LEMMA DerivedHolds ==
  ASSUME NEW seq, Prepared(seq), NEW D, Derivation(D)
  PROVE  \A x \in D : Holds(seq, x)
<1> DEFINE Wrong == {Len(x.text) : x \in {y \in D : ~Holds(seq, y)}}
<1>1. \A x \in D : Texts2(x) /\ Follows(x, Shorter(D, x)) /\ Len(x.text) \in Nat
  BY TextPlaces DEF Derivation, Texts2
<1>2. ASSUME NEW n \in Nat, \A y \in D : Len(y.text) < n => Holds(seq, y),
             NEW x \in D, Len(x.text) = n
      PROVE  Holds(seq, x)
  <2> DEFINE Plain(y) == y.kind \notin {"query", "argument"}
  <2>1. ASSUME NEW y \in D, Len(y.text) = n, Plain(y)
        PROVE  Holds(seq, y)
    <3>1. Known(seq, Shorter(D, y))
      BY <1>1, <1>2, <2>1 DEF Known, Shorter
    <3> QED
      BY <1>1, <3>1, FollowsHolds
  <2>2. CASE x.kind = "argument"
    <3> DEFINE X == Shorter(D, x)
    <3>1. \A y \in X : Texts2(y) /\ y \in D
      BY <1>1 DEF Shorter
    <3>2. ArgumentRule(x, X)
      BY <1>1, <2>2, ArgumentFollows
    <3>3. ArgumentRule(x, NoLonger(X, x))
      <4> HIDE DEF X
      <4> QED
        BY <1>1, <3>1, <3>2, ArgumentNeedsNoLonger
    <3>4. ASSUME NEW y \in NoLonger(X, x)
          PROVE  Holds(seq, y)
      <4>1. y \in X /\ Len(y.text) <= n /\ y \in D /\ Len(y.text) \in Nat
        BY <1>1, <1>2, <3>1 DEF NoLonger
      <4>2. CASE Len(y.text) < n
        BY <1>2, <4>1, <4>2
      <4>3. CASE Len(y.text) = n
        <5>1. y.kind \in {"sequence", "group"}
          BY <1>2, <4>1, <4>3 DEF Shorter
        <5> QED
          BY <2>1, <4>1, <4>3, <5>1
      <4> QED
        BY <4>1, <4>2, <4>3
    <3>5. Known(seq, NoLonger(X, x))
      BY <3>1, <3>4 DEF Known, NoLonger
    <3> QED
      BY <1>1, <3>3, <3>5, ArgumentHolds
  <2>3. CASE x.kind = "query"
    BY <2>3 DEF Holds
  <2> QED
    BY <1>2, <2>1, <2>2, <2>3
<1>3. ASSUME Wrong # {} PROVE FALSE
  <2>1. Wrong \subseteq Nat
    BY <1>1
  <2>2. PICK n \in Wrong : \A k \in Wrong : n <= k
    <3> HIDE DEF Wrong
    <3> QED
      BY <1>3, <2>1, LeastNumber
  <2>3. PICK x \in D : Len(x.text) = n /\ ~Holds(seq, x)
    BY <2>2
  <2>4. \A y \in D : Len(y.text) < n => Holds(seq, y)
    BY <1>1, <2>2, <2>3
  <2> QED
    BY <1>1, <1>2, <2>3, <2>4
<1> QED
  BY <1>3

LEMMA CountBegins ==
  ASSUME NEW t, NEW p
  PROVE  Count(t, p, 0) = 0
<1>1. {j \in 1..0 : t[j] = p} = {}
  OBVIOUS
<1> QED
  BY <1>1, FS_EmptySet DEF Count

LEMMA CountJoins ==
  ASSUME NEW a \in Text, NEW b \in Text, NEW p
  PROVE  /\ \A i \in 0..Len(a) : Count(a \o b, p, i) = Count(a, p, i)
         /\ \A i \in 0..Len(b) : Count(a \o b, p, Len(a) + i) = Count(a, p, Len(a)) + Count(b, p, i)
<1> DEFINE c == a \o b
           A == Len(a)
           B == Len(b)
<1>1. /\ A \in Nat /\ B \in Nat
      /\ \A i \in 1..A : c[i] = a[i]
      /\ \A i \in 1..B : c[A + i] = b[i]
  BY TextPlaces
<1> HIDE DEF c, A, B
<1>2. \A i \in 0..A : Count(c, p, i) = Count(a, p, i)
  <2> TAKE i \in 0..A
  <2>1. \A j \in 1..i : c[j] = a[j]
    BY <1>1
  <2>2. {j \in 1..i : c[j] = p} = {j \in 1..i : a[j] = p}
    BY <2>1
  <2> QED
    BY <2>2 DEF Count
<1>3. \A i \in 0..B : Count(c, p, A + i) = Count(a, p, A) + Count(b, p, i)
  <2> DEFINE Ok(i) == Count(c, p, A + i) = Count(a, p, A) + Count(b, p, i)
             Bad == {i \in 0..B : ~Ok(i)}
  <2>1. SUFFICES ASSUME Bad # {} PROVE FALSE
    OBVIOUS
  <2>2. PICK i \in Bad : \A k \in Bad : i <= k
    <3>1. Bad \in SUBSET Nat
      OBVIOUS
    <3> HIDE DEF Bad
    <3> QED
      BY <2>1, <3>1, LeastNumber
  <2>3. i \in 0..B /\ ~Ok(i)
    OBVIOUS
  <2>4. Ok(0)
    <3>1. Count(c, p, A) = Count(a, p, A) /\ Count(b, p, 0) = 0 /\ Count(a, p, A) \in Nat
      BY <1>1, <1>2, CountBegins, CountMove DEF CountMoves
    <3> QED
      BY <1>1, <3>1
  <2>5. i # 0
    <3> HIDE DEF Ok
    <3> QED
      BY <2>3, <2>4
  <2>6. i - 1 \in 0..B /\ i - 1 \in Nat /\ i \in 1..B
    BY <1>1, <2>3, <2>5
  <2>7. Ok(i - 1)
    <3>1. ~(i <= i - 1)
      BY <2>6
    <3>2. i - 1 \notin Bad
      <4> HIDE DEF Bad
      <4> QED
        BY <2>2, <3>1
    <3> QED
      BY <2>6, <3>2
  <2>8. Ok(i)
    <3> DEFINE k == i - 1
    <3>1. k \in Nat /\ A + k \in Nat /\ i = k + 1 /\ A + i = (A + k) + 1 /\ c[(A + k) + 1] = b[k + 1]
      <4>1. c[A + i] = b[i]
        BY <1>1, <2>6
      <4> QED
        BY <1>1, <2>6, <4>1
    <3>2. Ok(k)
      BY <2>7
    <3> HIDE DEF k
    <3>3. Count(c, p, (A + k) + 1) = IF c[(A + k) + 1] = p THEN Count(c, p, A + k) + 1 ELSE Count(c, p, A + k)
      BY <3>1, CountMove DEF CountMoves
    <3>4. Count(b, p, k + 1) = IF b[k + 1] = p THEN Count(b, p, k) + 1 ELSE Count(b, p, k)
      BY <3>1, CountMove DEF CountMoves
    <3>5. Count(a, p, A) \in Nat /\ Count(b, p, k) \in Nat
      BY <1>1, <3>1, CountMove DEF CountMoves
    <3>6. Count(c, p, (A + k) + 1) = Count(a, p, A) + Count(b, p, k + 1)
      BY <3>1, <3>2, <3>3, <3>4, <3>5
    <3> QED
      BY <3>1, <3>6
  <2> QED
    BY <2>3, <2>8
<1> QED
  BY <1>2, <1>3 DEF c, A, B

(* The levels of a text.                                                    *)
LEMMA LevelStep ==
  ASSUME NEW t
  PROVE  /\ Level(t, 0) = 0
         /\ \A i \in Nat : Level(t, i) \in Int
         /\ \A i \in Nat : Level(t, i + 1) = Level(t, i) + (IF t[i + 1] = LCURLY THEN 1 ELSE 0)
                                                         - (IF t[i + 1] = RCURLY THEN 1 ELSE 0)
<1> DEFINE L(i) == Count(t, LCURLY, i)
           R(i) == Count(t, RCURLY, i)
<1>1. /\ L(0) = 0 /\ R(0) = 0
      /\ \A i \in Nat : L(i) \in Nat /\ R(i) \in Nat
      /\ \A i \in Nat : L(i + 1) = IF t[i + 1] = LCURLY THEN L(i) + 1 ELSE L(i)
      /\ \A i \in Nat : R(i + 1) = IF t[i + 1] = RCURLY THEN R(i) + 1 ELSE R(i)
  <2>1. \A i \in Nat : CountMoves(t, LCURLY, i) /\ CountMoves(t, RCURLY, i)
    BY CountMove
  <2>2. L(0) = 0 /\ R(0) = 0
    BY CountBegins
  <2> QED
    BY <2>1, <2>2 DEF CountMoves
<1>2. \A i : Level(t, i) = L(i) - R(i)
  BY LevelCounts
<1> HIDE DEF L, R
<1> QED
  BY <1>1, <1>2

LEMMA LevelJoins ==
  ASSUME NEW a \in Text, NEW b \in Text
  PROVE  /\ \A i \in 0..Len(a) : Level(a \o b, i) = Level(a, i)
         /\ \A i \in 0..Len(b) : Level(a \o b, Len(a) + i) = Level(a, Len(a)) + Level(b, i)
<1>1. \A t, i : Level(t, i) = Count(t, LCURLY, i) - Count(t, RCURLY, i)
  BY LevelCounts
<1>2. \A i \in 0..Len(a) : Level(a \o b, i) = Level(a, i)
  BY <1>1, CountJoins
<1>3. ASSUME NEW i \in 0..Len(b)
      PROVE  Level(a \o b, Len(a) + i) = Level(a, Len(a)) + Level(b, i)
  <2> DEFINE L == Count(a, LCURLY, Len(a))
             R == Count(a, RCURLY, Len(a))
             l == Count(b, LCURLY, i)
             r == Count(b, RCURLY, i)
  <2>1. Len(a) \in Nat /\ i \in Nat
    BY TextPlaces
  <2>2. L \in Nat /\ R \in Nat /\ l \in Nat /\ r \in Nat
    BY <2>1, CountMove DEF CountMoves
  <2>3. Count(a \o b, LCURLY, Len(a) + i) = L + l /\ Count(a \o b, RCURLY, Len(a) + i) = R + r
    BY CountJoins
  <2>4. Level(a \o b, Len(a) + i) = (L + l) - (R + r) /\ Level(a, Len(a)) = L - R /\ Level(b, i) = l - r
    BY <1>1, <2>3
  <2> HIDE DEF L, R, l, r
  <2> QED
    BY <2>2, <2>4
<1> QED
  BY <1>2, <1>3

-----------------------------------------------------------------------------
(* What the lexer reads of a text with pieces that it does not know.        *)
Before(seq, k) == [at |-> TokenAt(seq, k).next, emitSpace |-> FALSE, ahead |-> <<TokenAt(seq, k)>>]

LEMMA BeforeFacts ==
  ASSUME NEW seq \in Text, NEW k \in 1..Len(seq)
  PROVE  /\ Before(seq, k) \in Lexers
         /\ Peek(seq, Before(seq, k)).type = Type(seq[k])
         /\ Ahead(seq, Before(seq, k)) = Before(seq, k)
         /\ Type(seq[k]) # "OTHER" => Consume(seq, Before(seq, k)) = At(k + 1, FALSE)
         /\ seq[k] # SPACE => SkipSpaces(seq, Before(seq, k)) = Before(seq, k)
<1> DEFINE t == TokenAt(seq, k)
           lex == Before(seq, k)
           words == {n \in DOMAIN lex.ahead : lex.ahead[n].type # SPACE}
<1>1. /\ t.type = Type(seq[k]) /\ t \in LexToken
      /\ Type(seq[k]) # "OTHER" => t.next = k + 1
  BY TokenAtFacts
<1>2. lex = [at |-> t.next, emitSpace |-> FALSE, ahead |-> <<t>>]
  BY DEF Before
<1> HIDE DEF t, lex
<1>3. lex \in Lexers
  <2>1. t.next \in Nat /\ <<t>> \in Seq(LexToken)
    BY <1>1, ListIsSeq DEF LexToken
  <2> QED
    BY <1>2, <2>1 DEF Lexers
<1>4. Len(lex.ahead) = 1 /\ lex.ahead[1] = t /\ lex.ahead = <<t>>
  BY <1>2
<1>5. Ahead(seq, lex) = lex
  BY <1>4 DEF Ahead, AtLeast
<1>6. Peek(seq, lex) = t
  BY <1>4, <1>5 DEF Peek
<1>7. ASSUME Type(seq[k]) # "OTHER" PROVE Consume(seq, lex) = At(k + 1, FALSE)
  <2>1. Tail(<<t>>) = <<>> /\ t.next = k + 1
    BY <1>1, <1>7
  <2>2. [lex EXCEPT !.ahead = Tail(@)] = [at |-> t.next, emitSpace |-> FALSE, ahead |-> Tail(<<t>>)]
    <3> DEFINE a == <<t>>
               b == Tail(a)
               e == FALSE
               R == [at |-> t.next, emitSpace |-> e, ahead |-> a]
    <3>1. lex = R
      BY <1>2
    <3> HIDE DEF a, b, e
    <3>2. [R EXCEPT !.ahead = b] = [at |-> t.next, emitSpace |-> e, ahead |-> b] /\ R.ahead = a
      OBVIOUS
    <3> HIDE DEF R
    <3>3. [lex EXCEPT !.ahead = Tail(@)] = [R EXCEPT !.ahead = b]
      BY <3>1, <3>2 DEF b
    <3> QED
      BY <3>2, <3>3 DEF a, b, e
  <2>3. Consume(seq, lex) = [lex EXCEPT !.ahead = Tail(@)]
    BY <1>5 DEF Consume, WithoutFirst
  <2> QED
    BY <2>1, <2>2, <2>3 DEF At
<1>8. ASSUME seq[k] # SPACE PROVE SkipSpaces(seq, lex) = lex
  <2>1. t.type # SPACE
    <3>1. seq[k] \in Pieces
      BY TextPlaces
    <3>2. SPACE \in Delimiters
      BY AllMarks
    <3> QED
      BY <1>1, <1>8, <3>1, <3>2, TypeFacts
  <2>2. words = {1}
    <3>1. DOMAIN lex.ahead = {1}
      BY <1>4
    <3> QED
      BY <1>4, <2>1, <3>1
  <2>3. Min(words) = 1
    <3> DEFINE one == {1}
    <3>1. one \in SUBSET Nat /\ one # {}
      OBVIOUS
    <3> HIDE DEF one
    <3>2. Min(one) \in one
      BY <3>1, MinIsLeast
    <3>3. Min(one) = 1
      BY <3>2 DEF one
    <3>4. words = one
      BY <2>2 DEF one
    <3> HIDE DEF words
    <3> QED
      BY <3>3, <3>4
  <2>4. SubSeq(lex.ahead, 1, Len(lex.ahead)) = lex.ahead
    <3>1. <<t>> \in Seq({t}) /\ Len(<<t>>) = 1
      BY ListIsSeq
    <3> QED
      BY <1>4, <3>1, SubSeqFull
  <2>5. [lex EXCEPT !.ahead = SubSeq(@, 1, Len(@))] = lex
    <3>1. [lex EXCEPT !.ahead = lex.ahead] = lex
      BY <1>2
    <3> QED
      BY <2>4, <3>1
  <2>6. SkipSpaces(seq, lex) =
          IF words # {} THEN [lex EXCEPT !.ahead = SubSeq(@, Min(words), Len(@))]
          ELSE ReadOne([lex EXCEPT !.ahead = <<>>], NextToken(seq, lex.at, FALSE))
    BY DEF SkipSpaces
  <2> HIDE DEF words
  <2> QED
    BY <2>2, <2>3, <2>5, <2>6
<1> QED
  BY <1>1, <1>3, <1>5, <1>6, <1>7, <1>8 DEF lex

(* A quote that closes nothing is not the last piece of a sequence.          *)
Closed(seq) == seq \in Text /\ Len(seq) > 1 /\ seq[Len(seq)] = RCURLY

LEMMA AtBefore ==
  ASSUME NEW seq, Closed(seq), NEW i \in Nat, NEW k \in 1..Len(seq), First(seq, i) = k
  PROVE  /\ Ahead(seq, At(i, FALSE)) = Before(seq, k)
         /\ SkipSpaces(seq, At(i, FALSE)) = Before(seq, k)
<1> DEFINE t == TokenAt(seq, k)
<1>1. seq \in Text /\ Len(seq) \in Nat
  BY TextPlaces DEF Closed
<1>2. TokenFrom(seq, k) = t
  <2>1. ~(k = Len(seq) /\ seq[k] \in Quotes)
    BY NamesAreApart, AllMarks DEF Closed
  <2>2. ~(k > Len(seq))
    BY <1>1
  <2> QED
    BY <2>1, <2>2 DEF TokenFrom
<1> HIDE DEF t
<1>3. NextToken(seq, i, FALSE) = t
  BY <1>2, NextTokenFrom
<1>4. ReadOne(At(i, FALSE), t) = [at |-> t.next, emitSpace |-> FALSE, ahead |-> <<t>>]
  <2> DEFINE no == <<>>
  <2>1. At(i, FALSE).ahead = no /\ At(i, FALSE).emitSpace = FALSE
    BY DEF At
  <2>2. Append(no, t) = <<t>>
    OBVIOUS
  <2> HIDE DEF no
  <2> QED
    BY <2>1, <2>2 DEF ReadOne
<1>5. Before(seq, k) = [at |-> t.next, emitSpace |-> FALSE, ahead |-> <<t>>]
  BY DEF Before, t
<1>6. Ahead(seq, At(i, FALSE)) = Before(seq, k)
  <2> DEFINE e == FALSE
  <2> HIDE DEF e
  <2>1. Len(At(i, e).ahead) = 0 /\ At(i, e).at = i /\ At(i, e).emitSpace = e
    BY DEF At
  <2>2. Ahead(seq, At(i, e)) = ReadOne(At(i, e), NextToken(seq, i, e))
    BY <2>1 DEF Ahead, AtLeast
  <2> QED
    BY <1>3, <1>4, <1>5, <2>2 DEF e
<1>7. SkipSpaces(seq, At(i, FALSE)) = Before(seq, k)
  <2>1. {n \in DOMAIN At(i, FALSE).ahead : At(i, FALSE).ahead[n].type # SPACE} = {}
    BY DEF At
  <2>2. [At(i, FALSE) EXCEPT !.ahead = <<>>] = At(i, FALSE) /\ At(i, FALSE).at = i
    <3> DEFINE e == FALSE
    <3> HIDE DEF e
    <3>1. [At(i, e) EXCEPT !.ahead = <<>>] = At(i, e) /\ At(i, e).at = i
      BY DEF At
    <3> QED
      BY <3>1 DEF e
  <2>3. SkipSpaces(seq, At(i, FALSE)) = ReadOne(At(i, FALSE), NextToken(seq, i, FALSE))
    BY <2>1, <2>2 DEF SkipSpaces
  <2> QED
    BY <1>3, <1>4, <1>5, <2>3
<1> QED
  BY <1>6, <1>7

-----------------------------------------------------------------------------
(* The first word from a position on.                                       *)
Stands(q, i, k) ==
  /\ k \in i..Len(q) /\ k = First(q, i) /\ k + 1 \in 1..(Len(q) + 1)
  /\ q[k] \in Pieces /\ q[k] # SPACE
  /\ Len(Words(q)[i]) = Len(Words(q)[k + 1]) + 1 /\ Len(Words(q)[k + 1]) \in Nat
  /\ Words(q)[i][1] = q[k]
  /\ \A j \in 1..Len(Words(q)[k + 1]) : Words(q)[i][j + 1] = Words(q)[k + 1][j]

LEMMA WordStands ==
  ASSUME NEW q \in Text, NEW i \in 1..(Len(q) + 1), Words(q)[i] # <<>>
  PROVE  \E k \in 1..Len(q) : Stands(q, i, k)
<1> DEFINE k == First(q, i)
           P == <<q[k]>>
           r == Words(q)[k + 1]
<1>1. Len(q) \in Nat /\ k \in i..(Len(q) + 1)
  BY TextPlaces, FirstFacts
<1>2. Words(q)[i] = Words(q)[k]
  BY WordsFromFirst
<1> HIDE DEF k
<1>3. k # Len(q) + 1
  BY <1>2, WordsStep
<1>4. k \in i..Len(q) /\ k \in 1..Len(q)
  BY <1>1, <1>3
<1>5. q[k] \in Pieces /\ q[k] # SPACE
  BY <1>4, TextPlaces, FirstFacts DEF k
<1>6. Words(q)[k] = P \o r
  BY <1>4, <1>5, WordsStep
<1>7. P \in Text /\ Len(P) = 1 /\ P[1] = q[k] /\ k + 1 \in 1..(Len(q) + 1)
  BY <1>1, <1>4, <1>5, TextClosed
<1>8. r \in Text
  BY <1>7, WordsType
<1> HIDE DEF P, r
<1>9. /\ Len(P \o r) = Len(P) + Len(r) /\ Len(r) \in Nat
      /\ \A j \in 1..Len(P) : (P \o r)[j] = P[j]
      /\ \A j \in 1..Len(r) : (P \o r)[Len(P) + j] = r[j]
  BY <1>7, <1>8, TextPlaces, Zenon
<1> DEFINE w == P \o r
<1> HIDE DEF w
<1>10. Len(w) = Len(r) + 1 /\ w[1] = q[k] /\ \A j \in 1..Len(r) : w[j + 1] = r[j]
  BY <1>7, <1>9 DEF w
<1>11. Words(q)[i] = w
  BY <1>2, <1>6 DEF w
<1>12. Stands(q, i, k)
  BY <1>4, <1>5, <1>7, <1>9, <1>10, <1>11 DEF Stands, r, k
<1> QED
  BY <1>4, <1>12

-----------------------------------------------------------------------------
(* Sequences that the driver does not know stay as they are.                *)
LEMMA OutermostFacts ==
  ASSUME NEW q \in Text, Outermost(q)
  PROVE  Closed(q) /\ q[1] = LCURLY /\ Len(q) \in Nat /\ Level(q, Len(q)) = 0
         /\ \A i \in 1..(Len(q) - 1) : Level(q, i) > 0
<1> DEFINE N == Len(q)
<1>1. N \in Nat /\ N > 1 /\ Level(q, N) = 0 /\ \A i \in 1..(N - 1) : Level(q, i) > 0
  BY TextPlaces DEF Outermost
<1> HIDE DEF N
<1>2. q[1] = LCURLY
  <2>1. Level(q, 0) = 0 /\ Level(q, 0 + 1) = Level(q, 0) + (IF q[0 + 1] = LCURLY THEN 1 ELSE 0)
                                               - (IF q[0 + 1] = RCURLY THEN 1 ELSE 0)
    BY LevelStep
  <2>2. Level(q, 1) > 0
    BY <1>1
  <2> QED
    BY <2>1, <2>2
<1>3. q[N] = RCURLY
  <2> DEFINE k == N - 1
  <2>1. k \in Nat /\ k + 1 = N /\ Level(q, k) > 0
    BY <1>1
  <2> HIDE DEF k
  <2>2. Level(q, k) \in Int /\ Level(q, k + 1) = Level(q, k) + (IF q[k + 1] = LCURLY THEN 1 ELSE 0)
                                               - (IF q[k + 1] = RCURLY THEN 1 ELSE 0)
    BY <2>1, LevelStep
  <2> QED
    BY <1>1, <2>1, <2>2
<1> QED
  BY <1>1, <1>2, <1>3 DEF N, Closed

LEMMA SequenceGivesUp ==
  ASSUME NEW seq, NEW l, NEW lex, NEW written, Peek(seq, lex).type \notin Starts
  PROVE  SequenceAt(seq, l, lex, written).out = IF Peek(seq, lex).type = RCURLY THEN written ELSE seq
<1> DEFINE t == Peek(seq, lex).type
           after == Consume(seq, lex)
           With(part) == StartedTurn(l, part, written)
           R1 == With(Function(seq, l, after))
           R2 == With(Date(seq, after))
           R3 == With(DateTime(seq, after))
           R4 == Result(written, after)
           R5 == Result(seq, after)
<1>1. SequenceAt(seq, l, lex, written) =
        CASE t = "FN" -> R1 [] t = "D" -> R2 [] t = "TS" -> R3 [] t = RCURLY -> R4 [] OTHER -> R5
  BY DEF SequenceAt, StartedTurn
<1>2. t # "FN" /\ t # "D" /\ t # "TS"
  BY DEF Starts
<1>3. R4.out = written /\ R5.out = seq
  BY ResultParts
<1> HIDE DEF R1, R2, R3, R4, R5, t
<1>4. SequenceAt(seq, l, lex, written) = IF t = RCURLY THEN R4 ELSE R5
  BY <1>1, <1>2
<1> QED
  BY <1>3, <1>4 DEF t

LEMMA RawRound ==
  ASSUME NEW seq \in Text, NEW n \in 1..(Len(seq) + 1), NEW written \in Text, NEW lex \in Lexers
  PROVE  Levels(seq)[n].sequence[written][lex] = SequenceAt(seq, Levels(seq)[n - 1], SkipSpaces(seq, lex), written)
<1>1. Len(seq) \in Nat
  BY TextPlaces
<1>2. Levels(seq)[n].sequence[written][lex] = SequenceTurn(seq, Levels(seq)[n - 1], lex, written)
  BY <1>1, LoopTurns
<1> QED
  BY <1>2 DEF SequenceTurn

(* Round n of the sequence writes seq: from a lexer before word k that      *)
(* starts nothing.                                                          *)
LEMMA RoundGivesUp ==
  ASSUME NEW seq, Closed(seq), NEW n \in 1..(Len(seq) + 1), NEW written \in Text,
         NEW lex \in Lexers,
         NEW k \in 1..Len(seq), SkipSpaces(seq, lex) = Before(seq, k), seq[k] \notin Starts,
         written = seq \/ seq[k] # RCURLY
  PROVE  Levels(seq)[n].sequence[written][lex].out = seq
<1>1. seq \in Text /\ seq[k] \in Pieces
  BY TextPlaces DEF Closed
<1>2. Peek(seq, Before(seq, k)).type = Type(seq[k])
  BY <1>1, BeforeFacts
<1>3. Type(seq[k]) \notin Starts /\ (Type(seq[k]) = RCURLY <=> seq[k] = RCURLY)
  <2>1. Starts \subseteq Keywords /\ RCURLY \in Delimiters
    BY StartFacts, AllMarks
  <2>2. \A p \in Keywords \cup Delimiters : Type(seq[k]) = p => seq[k] = p
    BY <1>1, TypeFacts
  <2>3. seq[k] = RCURLY => Type(seq[k]) = RCURLY
    BY <1>1, <2>1, TypeFacts
  <2> QED
    BY <2>1, <2>2, <2>3
<1>4. Levels(seq)[n].sequence[written][lex] = SequenceAt(seq, Levels(seq)[n - 1], Before(seq, k), written)
  BY <1>1, RawRound
<1>5. SequenceAt(seq, Levels(seq)[n - 1], Before(seq, k), written).out
        = IF Peek(seq, Before(seq, k)).type = RCURLY THEN written ELSE seq
  BY <1>2, <1>3, SequenceGivesUp
<1> QED
  BY <1>2, <1>3, <1>4, <1>5

StartsAs(seq, n, l, written, i, k) ==
  Levels(seq)[n].sequence[written][At(i, FALSE)] = StartedTurn(l, Started(seq, l, seq[k], At(k + 1, FALSE)), written)

LEMMA RoundStarts ==
  ASSUME NEW seq, Closed(seq), NEW n \in 1..(Len(seq) + 1), NEW l, l = Levels(seq)[n - 1],
         NEW written \in Text,
         NEW i \in Nat, NEW k \in 1..Len(seq), First(seq, i) = k, seq[k] \in Starts
  PROVE  StartsAs(seq, n, l, written, i, k)
<1> DEFINE s == Before(seq, k)
           t == Peek(seq, s).type
           after == Consume(seq, s)
           With(part) == StartedTurn(l, part, written)
           R1 == With(Function(seq, l, after))
           R2 == With(Date(seq, after))
           R3 == With(DateTime(seq, after))
           R4 == Result(written, after)
           R5 == Result(seq, after)
<1>1. seq \in Text /\ seq[k] \in Pieces
  BY TextPlaces DEF Closed
<1>2. Type(seq[k]) = seq[k] /\ Type(seq[k]) # "OTHER"
  <2>1. seq[k] \in Keywords
    BY StartFacts
  <2>2. "OTHER" \notin Keywords
    BY NamesAreApart DEF Kinds
  <2> QED
    BY <1>1, <2>1, <2>2, TypeFacts
<1>3. t = seq[k] /\ after = At(k + 1, FALSE)
  BY <1>1, <1>2, BeforeFacts
<1>4. SequenceAt(seq, l, s, written) =
        CASE t = "FN" -> R1 [] t = "D" -> R2 [] t = "TS" -> R3 [] t = RCURLY -> R4 [] OTHER -> R5
  BY DEF SequenceAt, StartedTurn
<1>5. SkipSpaces(seq, At(i, FALSE)) = s
  BY AtBefore
<1>6. At(i, FALSE) \in Lexers
  <2> DEFINE e == FALSE
  <2>1. e \in BOOLEAN
    OBVIOUS
  <2> HIDE DEF e
  <2>2. At(i, e) \in Lexers
    BY <2>1 DEF At, Lexers
  <2> QED
    BY <2>2 DEF e
<1>7. Levels(seq)[n].sequence[written][At(i, FALSE)] = SequenceAt(seq, l, s, written)
  BY <1>1, <1>5, <1>6, RawRound
<1> HIDE DEF R1, R2, R3, R4, R5, t, s, after
<1>8. t \in Starts /\ t # RCURLY
  BY <1>3, StartFacts
<1>9. SequenceAt(seq, l, s, written) = IF t = "FN" THEN R1 ELSE IF t = "D" THEN R2 ELSE R3
  BY <1>4, <1>8 DEF Starts
<1>10. SequenceAt(seq, l, s, written) = With(Started(seq, l, t, after))
  BY <1>9 DEF Started, R1, R2, R3
<1> QED
  BY <1>3, <1>7, <1>10 DEF StartsAs

FailsAs(seq, l, p, i, k) ==
  Started(seq, l, p, At(i, FALSE)) = Result(seq, IF p = "FN" THEN At(k + 1, FALSE) ELSE Before(seq, k))

(* A date that is no literal, and a function without a replacement.         *)
LEMMA StartFails ==
  ASSUME NEW seq, Closed(seq), NEW l, NEW p \in Starts, NEW i \in Nat,
         NEW k \in 1..Len(seq), First(seq, i) = k,
         \/ p \in {"D", "TS"} /\ seq[k] \notin Strings
         \/ p = "FN" /\ seq[k] \notin Functions /\ Type(seq[k]) # "OTHER"
  PROVE  FailsAs(seq, l, p, i, k)
<1> DEFINE lex == At(i, FALSE)
           t == Type(seq[k])
<1>1. seq \in Text /\ seq[k] \in Pieces
  BY TextPlaces DEF Closed
<1>2. Ahead(seq, lex) = Before(seq, k)
  BY AtBefore
<1>3. Peek(seq, Before(seq, k)).type = t /\ Ahead(seq, Before(seq, k)) = Before(seq, k)
      /\ (t # "OTHER" => Consume(seq, Before(seq, k)) = At(k + 1, FALSE))
  BY <1>1, BeforeFacts
<1> HIDE DEF lex
<1>4. Peek(seq, lex).type = t
  BY <1>2, <1>3 DEF Peek
<1>5. CASE p # "FN"
  <2>1. p \in {"D", "TS"} /\ seq[k] \notin Strings
    BY <1>5
  <2>2. t # "STRING"
    BY <1>1, <2>1, TypeFacts
  <2>3. Date(seq, lex) = Result(seq, Before(seq, k))
    BY <1>2, <1>4, <2>2 DEF Date
  <2>4. DateTime(seq, lex) = Date(seq, lex)
    BY <1>4, <2>2 DEF DateTime
  <2> QED
    BY <1>5, <2>3, <2>4 DEF Started, lex, FailsAs
<1>6. CASE p = "FN"
  <2>1. seq[k] \notin Functions /\ t # "OTHER"
    BY <1>6, StartFacts
  <2>2. Consume(seq, lex) = At(k + 1, FALSE)
    BY <1>2, <1>3, <2>1 DEF Consume
  <2>3. t \notin Functions
    <3>1. Functions \subseteq Keywords
      BY MapFacts DEF Functions, Keywords
    <3> QED
      BY <1>1, <2>1, <3>1, TypeFacts
  <2> DEFINE z == At(k + 1, FALSE)
             R1 == TimestampAdd(seq, l, z)
             R2 == Locate(seq, l, z)
             R3 == LTrim(seq, l, z)
             R4 == After(<<FunctionMap[t]>>, l.copy[t][SetEmitSpaces(z, TRUE)])
             R5 == NowCall(seq, l, z)
             R6 == Result(seq, z)
             F == DOMAIN FunctionMap
  <2>4. Function(seq, l, lex) = Named(seq, l, t, z)
    BY <1>4, <2>2 DEF Function
  <2>5. Named(seq, l, t, z) =
          CASE t = "TIMESTAMPADD" -> R1 [] t = "LOCATE" -> R2 [] t = "LTRIM" -> R3
            [] t \in F \ {"TIMESTAMPADD"} -> R4 [] t = "CURRENT_TIMESTAMP" -> R5 [] OTHER -> R6
    BY DEF Named, NowCall
  <2>6. "TIMESTAMPADD" \in F
    BY MapFacts
  <2> HIDE DEF R1, R2, R3, R4, R5, R6, z, t, F
  <2>7. t \notin F /\ t \notin {"LOCATE", "LTRIM", "CURRENT_TIMESTAMP"}
    BY <2>3 DEF Functions, F
  <2>8. Named(seq, l, t, z) = R6
    BY <2>5, <2>6, <2>7
  <2> QED
    BY <1>6, <2>4, <2>8 DEF Started, lex, R6, z, FailsAs
<1> QED
  BY <1>5, <1>6

(* The outermost sequence begins behind its first brace.                    *)
LEMMA RewrittenBegins ==
  ASSUME NEW q \in Text, Outermost(q)
  PROVE  /\ Rewritten(q) = Levels(q)[Len(q) + 1].sequence[<<>>][At(2, FALSE)].out
         /\ Stands(q, 1, 1)
<1> DEFINE L == Levels(q)[Len(q) + 1]
           lex == At(1, FALSE)
           no == <<>>
<1>1. Closed(q) /\ q[1] = LCURLY /\ Len(q) \in Nat /\ 1 \in 1..Len(q)
  BY OutermostFacts DEF Closed
<1>2. LCURLY \in Pieces /\ Type(LCURLY) = LCURLY /\ LCURLY # "OTHER" /\ LCURLY # SPACE
  BY AllMarks, MarkFacts, NamesAreApart DEF Kinds
<1>3. First(q, 1) = 1
  BY <1>1, <1>2, FirstFacts
<1>4. Ahead(q, lex) = Before(q, 1)
  BY <1>1, <1>3, AtBefore
<1>5. Peek(q, Before(q, 1)).type = LCURLY /\ Ahead(q, Before(q, 1)) = Before(q, 1)
      /\ Consume(q, Before(q, 1)) = At(2, FALSE)
  <2> DEFINE k == 1
  <2>1. k \in 1..Len(q) /\ q[k] = LCURLY /\ Type(q[k]) = LCURLY /\ Type(q[k]) # "OTHER" /\ k + 1 = 2
    BY <1>1, <1>2
  <2> HIDE DEF k
  <2>2. Peek(q, Before(q, k)).type = LCURLY /\ Ahead(q, Before(q, k)) = Before(q, k)
        /\ Consume(q, Before(q, k)) = At(k + 1, FALSE)
    BY <2>1, BeforeFacts
  <2>3. Consume(q, Before(q, k)) = At(2, FALSE)
    BY <2>1, <2>2
  <2> QED
    BY <2>2, <2>3 DEF k
<1>6. NewLexer = lex
  BY DEF NewLexer, At
<1> HIDE DEF lex, no, L
<1>7. Peek(q, lex).type = LCURLY
  BY <1>4, <1>5 DEF Peek
<1>8. Consume(q, lex) = At(2, FALSE)
  BY <1>4, <1>5 DEF Consume
<1>9. Sequence(q, L, lex) = L.sequence[no][At(2, FALSE)]
  BY <1>7, <1>8 DEF Sequence, no
<1>10. Rewritten(q) = L.sequence[no][At(2, FALSE)].out
  BY <1>6, <1>9 DEF Rewritten, L
<1>11. Stands(q, 1, 1)
  <2>1. Words(q)[1] # <<>>
    <3> DEFINE P == <<q[1]>>
               r == Words(q)[2]
    <3>1. Words(q)[1] = P \o r
      <4> DEFINE k == 1
      <4>1. k \in 1..Len(q) /\ q[k] # SPACE /\ k + 1 = 2
        BY <1>1, <1>2
      <4> HIDE DEF k
      <4>2. Words(q)[k] = <<q[k]>> \o Words(q)[k + 1]
        BY <4>1, WordsStep
      <4> QED
        BY <4>1, <4>2 DEF k
    <3>2. r \in Text
      BY <1>1, WordsType
    <3> HIDE DEF r
    <3> QED
      BY <1>1, <1>2, <3>1, <3>2, TextCons
  <2>2. PICK k \in 1..Len(q) : Stands(q, 1, k)
    BY <1>1, <2>1, WordStands
  <2>3. k = 1
    BY <1>3, <2>2 DEF Stands
  <2> QED
    BY <2>2, <2>3
<1> QED
  BY <1>10, <1>11 DEF L, no

(* The words of q from i on are those of w behind the first n, and the next *)
(* is at k.                                                                 *)
Rests(q, w, n, i) ==
  /\ i \in 1..(Len(q) + 1) /\ Len(Words(q)[i]) \in Nat /\ n + Len(Words(q)[i]) = Len(w)
  /\ \A j \in 1..Len(Words(q)[i]) : Words(q)[i][j] = w[n + j]

NextIs(q, w, m, i, k) == First(q, i) = k /\ q[k] = w[m] /\ q[k] # SPACE /\ Rests(q, w, m, k + 1)

LEMMA NextStands ==
  ASSUME NEW q \in Text, NEW w, NEW n \in Nat, NEW m, m = n + 1,
         NEW i, Rests(q, w, n, i), Len(w) > n
  PROVE  \E k \in 1..Len(q) : NextIs(q, w, m, i, k)
<1>0. i \in 1..(Len(q) + 1) /\ Len(Words(q)[i]) \in Nat /\ n + Len(Words(q)[i]) = Len(w)
  BY DEF Rests
<1>1. Words(q)[i] # <<>>
  <2>1. Len(Words(q)[i]) # 0 /\ Len(<<>>) = 0
    BY <1>0
  <2> QED
    BY <2>1
<1>2. PICK k \in 1..Len(q) : Stands(q, i, k)
  BY <1>0, <1>1, WordStands
<1> DEFINE u == Words(q)[i]
           r == Words(q)[k + 1]
<1>3. /\ k = First(q, i) /\ k + 1 \in 1..(Len(q) + 1) /\ q[k] # SPACE
      /\ Len(u) = Len(r) + 1 /\ Len(r) \in Nat /\ u[1] = q[k]
      /\ \A j \in 1..Len(r) : u[j + 1] = r[j]
  BY <1>2 DEF Stands
<1>4. Len(u) \in Nat /\ n + Len(u) = Len(w) /\ \A j \in 1..Len(u) : u[j] = w[n + j]
  BY DEF Rests
<1> HIDE DEF u, r
<1>5. q[k] = w[m]
  <2>1. 1 \in 1..Len(u)
    BY <1>3
  <2> QED
    BY <1>3, <1>4, <2>1
<1>6. m + Len(r) = Len(w)
  BY <1>3, <1>4
<1>7. ASSUME NEW j \in 1..Len(r) PROVE r[j] = w[m + j]
  <2>1. j + 1 \in 1..Len(u) /\ n + (j + 1) = m + j
    BY <1>3
  <2> QED
    BY <1>3, <1>4, <2>1
<1>8. Rests(q, w, m, k + 1)
  BY <1>3, <1>6, <1>7 DEF Rests, r
<1> QED
  BY <1>3, <1>5, <1>8 DEF NextIs

LEMMA UnknownStays ==
  ASSUME NEW q \in Text, Outermost(q), Unknown(WithoutSpaces(q))
  PROVE  Rewritten(q) = q
<1> DEFINE w == WithoutSpaces(q)
           N == Len(q)
           no == <<>>
<1>1. Closed(q) /\ N \in Nat /\ N > 1 /\ no \in Text /\ no \o q = q
  BY OutermostFacts, TextClosed, TextEmpty DEF Closed
<1>2. w \in Text /\ Len(w) \in Nat /\ w = Words(q)[1]
  BY <1>1, WordsType, TextPlaces DEF WithoutSpaces
<1>3. Len(w) > 1
  BY <1>2 DEF Unknown
<1>4. Rewritten(q) = Levels(q)[N + 1].sequence[no][At(2, FALSE)].out
  BY RewrittenBegins
<1>5. Rests(q, w, 1, 2)
  <2>1. Stands(q, 1, 1)
    BY RewrittenBegins
  <2>2. /\ Len(w) = Len(Words(q)[2]) + 1 /\ Len(Words(q)[2]) \in Nat
        /\ \A j \in 1..Len(Words(q)[2]) : w[j + 1] = Words(q)[2][j]
    BY <1>2, <2>1 DEF Stands
  <2>3. 2 \in 1..(N + 1)
    BY <1>1
  <2> HIDE DEF w
  <2> QED
    BY <2>2, <2>3 DEF Rests
<1> HIDE DEF w, no
<1>6. PICK k \in 1..N : NextIs(q, w, 2, 2, k)
  BY <1>3, <1>5, NextStands
<1>7. First(q, 2) = k /\ q[k] = w[2] /\ Rests(q, w, 2, k + 1)
  BY <1>6 DEF NextIs
<1>8. SkipSpaces(q, At(2, FALSE)) = Before(q, k) /\ At(2, FALSE) \in Lexers
  <2> DEFINE e == FALSE
  <2>1. e \in BOOLEAN
    OBVIOUS
  <2> HIDE DEF e
  <2>2. At(2, e) \in Lexers
    BY <2>1 DEF At, Lexers
  <2>3. SkipSpaces(q, At(2, FALSE)) = Before(q, k)
    BY <1>1, <1>7, AtBefore
  <2> QED
    BY <2>2, <2>3 DEF e
<1>9. CASE w[2] \notin Starts \cup {RCURLY}
  <2>1. N + 1 \in 1..(N + 1) /\ q[k] \notin Starts /\ q[k] # RCURLY
    BY <1>1, <1>7, <1>9
  <2>2. Levels(q)[N + 1].sequence[no][At(2, FALSE)].out = q
    BY <1>1, <1>8, <2>1, RoundGivesUp
  <2> QED
    BY <1>4, <2>2
<1>10. ASSUME w[2] \in Starts, Len(w) > 2,
              \/ w[2] \in {"D", "TS"} /\ w[3] \notin Strings \cup Starts
              \/ Len(w) > 3 /\ w[2] = "FN" /\ w[3] \notin Functions /\ Type(w[3]) # "OTHER" /\ w[4] \notin Starts
       PROVE  Rewritten(q) = q
  <2> DEFINE l == Levels(q)[N]
             p == w[2]
  <2>1. PICK h \in 1..N : NextIs(q, w, 3, k + 1, h)
    BY <1>7, <1>10, NextStands
  <2>2. First(q, k + 1) = h /\ q[h] = w[3] /\ q[h] # SPACE /\ Rests(q, w, 3, h + 1)
    BY <2>1 DEF NextIs
  <2>3. k + 1 \in Nat /\ h + 1 \in Nat /\ N + 1 \in 1..(N + 1) /\ N \in 1..(N + 1) /\ (N + 1) - 1 = N
    BY <1>1
  <2>4. Levels(q)[N + 1].sequence[no][At(2, FALSE)] = StartedTurn(l, Started(q, l, p, At(k + 1, FALSE)), no)
    <3> DEFINE M == N + 1
    <3>1. l = Levels(q)[M - 1] /\ M \in 1..(Len(q) + 1) /\ q[k] \in Starts
      BY <1>7, <1>10, <2>3
    <3> HIDE DEF l, M
    <3>2. StartsAs(q, M, l, no, 2, k)
      BY <1>1, <1>7, <3>1, RoundStarts
    <3> QED
      BY <1>7, <3>2 DEF StartsAs, M
  <2>5. Started(q, l, p, At(k + 1, FALSE)) = Result(q, IF p = "FN" THEN At(h + 1, FALSE) ELSE Before(q, h))
    <3>1. \/ p \in {"D", "TS"} /\ q[h] \notin Strings
          \/ p = "FN" /\ q[h] \notin Functions /\ Type(q[h]) # "OTHER"
      BY <1>10, <2>2
    <3>2. p \in Starts
      BY <1>10
    <3> HIDE DEF p, l
    <3>3. FailsAs(q, l, p, k + 1, h)
      BY <1>1, <2>2, <2>3, <3>1, <3>2, StartFails
    <3> QED
      BY <3>3 DEF FailsAs
  <2> DEFINE lex == IF p = "FN" THEN At(h + 1, FALSE) ELSE Before(q, h)
  <2>6. StartedTurn(l, Started(q, l, p, At(k + 1, FALSE)), no) = l.sequence[q][lex]
    <3> HIDE DEF lex, l
    <3>1. StartedTurn(l, Result(q, lex), no) = l.sequence[no \o q][lex]
      BY ResultParts DEF StartedTurn
    <3> QED
      BY <1>1, <2>5, <3>1 DEF lex
  <2>7. l.sequence[q][lex].out = q
    <3>1. CASE p # "FN"
      <4>1. lex = Before(q, h) /\ q[h] \notin Starts
        BY <1>10, <2>2, <3>1
      <4>2. q[h] # SPACE
        BY <2>2
      <4>3. Before(q, h) \in Lexers /\ SkipSpaces(q, Before(q, h)) = Before(q, h)
        BY <1>1, <4>2, BeforeFacts
      <4> HIDE DEF lex
      <4> QED
        BY <1>1, <2>3, <4>1, <4>3, RoundGivesUp
    <3>2. CASE p = "FN"
      <4>1. lex = At(h + 1, FALSE) /\ Len(w) > 3 /\ w[4] \notin Starts
        BY <1>10, <3>2, StartFacts
      <4>2. PICK g \in 1..N : NextIs(q, w, 4, h + 1, g)
        BY <2>2, <4>1, NextStands
      <4>6. First(q, h + 1) = g /\ q[g] = w[4]
        BY <4>2 DEF NextIs
      <4>3. q[g] \notin Starts
        BY <4>1, <4>6
      <4>4. SkipSpaces(q, At(h + 1, FALSE)) = Before(q, g)
        BY <1>1, <2>3, <4>6, AtBefore
      <4>5. At(h + 1, FALSE) \in Lexers
        <5> DEFINE e == FALSE
        <5>1. e \in BOOLEAN
          OBVIOUS
        <5> HIDE DEF e
        <5>2. At(h + 1, e) \in Lexers
          BY <2>3, <5>1 DEF At, Lexers
        <5> QED
          BY <5>2 DEF e
      <4> HIDE DEF lex
      <4> QED
        BY <1>1, <2>3, <4>1, <4>3, <4>4, <4>5, RoundGivesUp
    <3> QED
      BY <3>1, <3>2
  <2> QED
    BY <1>4, <2>4, <2>6, <2>7
<1>11. \/ w[2] \notin Starts \cup {RCURLY}
       \/ /\ w[2] \in Starts /\ Len(w) > 2
          /\ \/ w[2] \in {"D", "TS"} /\ w[3] \notin Strings \cup Starts
             \/ Len(w) > 3 /\ w[2] = "FN" /\ w[3] \notin Functions /\ Type(w[3]) # "OTHER" /\ w[4] \notin Starts
  <2>1. Unknown(w)
    BY DEF w
  <2>2. Len(w) > 3 => Len(w) > 2
    BY <1>2
  <2> QED
    BY <2>1, <2>2 DEF Unknown, Starts
<1> QED
  BY <1>9, <1>10, <1>11

Replaced(q, m) == Rewritten(q) \in Text /\ WithoutSpaces(Rewritten(q)) = m

LEMMA UnknownReplaced ==
  ASSUME NEW q \in Text, Outermost(q), Unknown(WithoutSpaces(q))
  PROVE  Replaced(q, WithoutSpaces(q))
BY UnknownStays DEF Replaced

LEMMA KnownReplaced ==
  ASSUME NEW q \in Text, Outermost(q), Readable(q), NEW D, Derivation(D),
         NEW part \in D, part.kind = "sequence", part.text = WithoutSpaces(q)
  PROVE  Replaced(q, part.means)
<1> DEFINE lex == At(1, FALSE)
           w == part.text
           m == part.means
           N == Len(q)
           no == <<>>
<1>1. Prepared(q) /\ N \in Nat /\ 1 \in 1..N /\ N + 1 \in Fuel(q)
  BY OutermostFacts DEF Prepared, Closed, Fuel
<1>2. q[1] = LCURLY /\ q[1] # SPACE
  BY OutermostFacts, AllMarks, MarkFacts, NamesAreApart
<1>3. IsSequence(q, w, m)
  BY <1>1, DerivedHolds DEF Holds
<1>4. w \in Text /\ no \in Text /\ w \o no = w
  BY TextClosed, TextEmpty DEF Derivation
<1>5. Words(q)[1] = w \o no
  BY <1>4 DEF WithoutSpaces
<1>6. Facing(q, lex, 1, FALSE)
  <2>1. First(q, 1) = 1
    BY <1>1, <1>2, FirstFacts
  <2> QED
    BY <1>1, <2>1, AtFaces
<1>7. NewLexer = lex
  BY DEF NewLexer, At
<1> HIDE DEF lex, w, m, no
<1>8. PICK j \in PlacesIn(q), e \in BOOLEAN : Yields(Sequence(q, Levels(q)[N + 1], lex), m, At(j, e))
  <2>1. (N + 1) + 1 >= Len(q)
    BY <1>1
  <2> QED
    BY <1>1, <1>2, <1>3, <1>4, <1>5, <1>6, <2>1 DEF IsSequence
<1>9. Rewritten(q) = Sequence(q, Levels(q)[N + 1], lex).out
  BY <1>7 DEF Rewritten
<1> QED
  BY <1>8, <1>9, YieldsParts DEF Replaced, m

-----------------------------------------------------------------------------
(* Parts of a text.                                                         *)
LEMMA PartFirst ==
  ASSUME NEW t \in Text, NEW i \in 1..Len(t), NEW n \in i..Len(t)
  PROVE  SubSeq(t, i, n) = <<t[i]>> \o SubSeq(t, i + 1, n) /\ SubSeq(t, i + 1, n) \in Text
<1>1. t \in Seq(Pieces) /\ Len(t) \in Nat
  BY DEF Text
<1>2. SubSeq(t, i, n) = <<t[i]>> \o SubSeq(t, i + 1, n)
  BY <1>1, SubSeqRecursiveFirst
<1>3. \A j \in (i + 1)..n : t[j] \in Pieces
  BY <1>1
<1>4. SubSeq(t, i + 1, n) \in Seq(Pieces)
  BY <1>1, <1>3, SubSeqProperties
<1> QED
  BY <1>2, <1>4 DEF Text

LEMMA PartLast ==
  ASSUME NEW a \in Text, NEW b \in Text
  PROVE  SubSeq(a \o b, Len(a) + 1, Len(a) + Len(b)) = b
<1>1. a \in Seq(Pieces) /\ b \in Seq(Pieces) /\ Len(a) \in Nat /\ Len(b) \in Nat
  BY DEF Text
<1>2. CASE Len(b) = 0
  <2>1. b = <<>> /\ a \o b = a
    BY <1>1, <1>2
  <2>2. SubSeq(a, Len(a) + 1, Len(a) + Len(b)) = <<>>
    BY <1>1, <1>2, PartNone
  <2> QED
    BY <2>1, <2>2
<1>3. CASE Len(b) # 0
  <2> DEFINE m == Len(a) + 1
             n == Len(a) + Len(b)
  <2>1. m \in (Len(a) + 1)..(Len(a) + Len(b)) /\ n \in (Len(a) + 1)..(Len(a) + Len(b))
        /\ m - Len(a) = 1 /\ n - Len(a) = Len(b)
    BY <1>1, <1>3
  <2> HIDE DEF m, n
  <2>2. SubSeq(a \o b, m, n) = SubSeq(b, m - Len(a), n - Len(a))
    BY <1>1, <2>1, SubSeqOfConcat2
  <2>3. SubSeq(b, 1, Len(b)) = b
    BY <1>1, SubSeqFull
  <2> QED
    BY <2>1, <2>2, <2>3 DEF m, n
<1> QED
  BY <1>2, <1>3

LEMMA PartMiddle ==
  ASSUME NEW a \in Text, NEW q \in Text, NEW r \in Text, Len(q) > 0
  PROVE  SubSeq((a \o q) \o r, Len(a) + 1, Len(a) + Len(q)) = q
<1> DEFINE s == a \o q
           m == Len(a) + 1
           n == Len(a) + Len(q)
<1>1. s \in Text /\ Len(s) = n /\ Len(a) \in Nat /\ Len(q) \in Nat
  BY TextClosed, TextPlaces
<1>2. s \in Seq(Pieces) /\ r \in Seq(Pieces)
  BY <1>1 DEF Text
<1>3. SubSeq(s, m, n) = q
  BY PartLast
<1>4. m \in 1..Len(s) /\ n \in 1..Len(s)
  BY <1>1
<1> HIDE DEF s, m, n
<1>5. SubSeq(s \o r, m, n) = SubSeq(s, m, n)
  BY <1>2, <1>4, SubSeqOfConcat1
<1> QED
  BY <1>3, <1>5 DEF s, m, n

-----------------------------------------------------------------------------
(* What ReplaceFrom does at a place where no sequence is open.               *)

(* The next sequence and what follows it are texts.                         *)
Texts3(t, i) ==
  Closing(t, i) <= Len(t) =>
    /\ Rewritten(SubSeq(t, Opening(t, i), Closing(t, i))) \in Text
    /\ ReplaceFrom(t)[Closing(t, i) + 1] \in Text

Ended(t, i) == Texts3(t, i) /\ ReplaceFrom(t)[i] = SubSeq(t, i, Len(t))

LEMMA ReplaceLast ==
  ASSUME NEW t \in Text, NEW i \in 1..(Len(t) + 1), \A j \in i..Len(t) : Level(t, j) # 0
  PROVE  Ended(t, i)
<1>1. Len(t) \in Nat
  BY TextPlaces
<1>2. /\ Closing(t, i) \in Opening(t, i)..(Len(t) + 1)
      /\ Opening(t, i) \in i..(Len(t) + 1)
      /\ Closing(t, i) <= Len(t) => Level(t, Closing(t, i)) = 0
  BY ClosingFacts
<1>3. Closing(t, i) > Len(t)
  BY <1>1, <1>2
<1>4. ReplaceFrom(t)[i] = Replacing(t, ReplaceFrom(t), i)
  BY ReplaceRecursion
<1> QED
  BY <1>1, <1>2, <1>3, <1>4 DEF Replacing, Ended, Texts3

CopiedAt(t, i) == Texts3(t, i) /\ ReplaceFrom(t)[i] = <<t[i]>> \o ReplaceFrom(t)[i + 1]

LEMMA ReplaceNone ==
  ASSUME NEW t \in Text, NEW i \in 1..Len(t), t[i] # LCURLY, Texts3(t, i + 1)
  PROVE  CopiedAt(t, i)
<1> DEFINE N == Len(t)
           o == Opening(t, i)
           k == Closing(t, i)
           g == ReplaceFrom(t)
           b == Rewritten(SubSeq(t, o, k))
           P == <<t[i]>>
<1>1. N \in Nat /\ i + 1 \in 1..(N + 1) /\ i \in 1..(N + 1) /\ t[i] \in Pieces
  BY TextPlaces
<1>2. Opening(t, i + 1) = o
  <2> DEFINE T == {LCURLY}
  <2>1. {j \in i..N : t[j] \in T} = {j \in (i + 1)..N : t[j] \in T}
    BY <1>1
  <2> QED
    BY <2>1 DEF Opening, FirstIn
<1>3. Closing(t, i + 1) = k
  BY <1>2 DEF Closing
<1>4. k \in o..(N + 1) /\ o \in (i + 1)..(N + 1)
  <2>1. k \in o..(N + 1)
    BY <1>1, ClosingFacts
  <2>2. Opening(t, i + 1) \in (i + 1)..(N + 1)
    BY <1>1, ClosingFacts
  <2> QED
    BY <1>2, <2>1, <2>2
<1>5. g[i] = Replacing(t, g, i) /\ g[i + 1] = Replacing(t, g, i + 1)
  BY <1>1, ReplaceRecursion
<1>6. g[i] = IF k > N THEN SubSeq(t, i, N) ELSE (SubSeq(t, i, o - 1) \o b) \o g[k + 1]
  BY <1>5 DEF Replacing
<1>7. g[i + 1] = IF k > N THEN SubSeq(t, i + 1, N) ELSE (SubSeq(t, i + 1, o - 1) \o b) \o g[k + 1]
  BY <1>2, <1>3, <1>5 DEF Replacing
<1>8. k <= N => b \in Text /\ g[k + 1] \in Text
  BY <1>2, <1>3 DEF Texts3
<1>9. Texts3(t, i)
  BY <1>8 DEF Texts3
<1>10. P \in Text
  BY <1>1, TextClosed
<1> HIDE DEF g, b
<1>11. g[i] = P \o g[i + 1]
  <2>1. CASE k > N
    <3>1. SubSeq(t, i, N) = P \o SubSeq(t, i + 1, N)
      BY <1>1, PartFirst
    <3> QED
      BY <1>6, <1>7, <2>1, <3>1
  <2>2. CASE ~(k > N)
    <3> DEFINE n == o - 1
               s == SubSeq(t, i + 1, n)
               h == g[k + 1]
    <3>1. n \in i..N
      BY <1>1, <1>4, <2>2
    <3> HIDE DEF n
    <3>2. SubSeq(t, i, n) = P \o s /\ s \in Text
      BY <3>1, PartFirst
    <3>3. b \in Text /\ h \in Text
      BY <1>1, <1>4, <1>8, <2>2
    <3>4. g[i] = ((P \o s) \o b) \o h /\ g[i + 1] = (s \o b) \o h
      BY <1>6, <1>7, <2>2, <3>2 DEF n
    <3> HIDE DEF s, h, P, k
    <3>5. ((P \o s) \o b) \o h = P \o ((s \o b) \o h)
      <4>1. (P \o s) \o b = P \o (s \o b) /\ s \o b \in Text
        BY <1>10, <3>2, <3>3, TextAhead
      <4>2. (P \o (s \o b)) \o h = P \o ((s \o b) \o h)
        BY <1>10, <3>3, <4>1, TextAhead
      <4> QED
        BY <4>1, <4>2
    <3> QED
      BY <3>4, <3>5
  <2> QED
    BY <2>1, <2>2
<1> QED
  BY <1>9, <1>11 DEF CopiedAt, g

Balanced(a) == a \in Text /\ Level(a, Len(a)) = 0

LEMMA BalancedJoins ==
  ASSUME NEW a, Balanced(a), NEW b, Balanced(b)
  PROVE  Balanced(a \o b)
<1>1. Len(a) \in Nat /\ Len(b) \in Nat /\ a \in Text /\ b \in Text
  BY TextPlaces DEF Balanced
<1>2. a \o b \in Text /\ Len(a \o b) = Len(a) + Len(b)
  BY <1>1, TextClosed, TextPlaces
<1>3. Len(b) \in 0..Len(b)
  BY <1>1
<1>4. Level(a \o b, Len(a) + Len(b)) = Level(a, Len(a)) + Level(b, Len(b))
  BY <1>1, <1>3, LevelJoins
<1> QED
  BY <1>2, <1>4 DEF Balanced

LEMMA PieceBalanced ==
  ASSUME NEW p \in Pieces, p \notin {LCURLY, RCURLY}
  PROVE  Balanced(<<p>>)
<1> DEFINE t == <<p>>
<1>1. t \in Text /\ Len(t) = 1 /\ t[1] = p
  BY TextClosed
<1> HIDE DEF t
<1>2. Level(t, 0) = 0 /\ Level(t, 0 + 1) = Level(t, 0) + (IF t[0 + 1] = LCURLY THEN 1 ELSE 0)
                                               - (IF t[0 + 1] = RCURLY THEN 1 ELSE 0)
  BY LevelStep
<1>3. Level(t, 1) = 0
  BY <1>1, <1>2
<1> QED
  BY <1>1, <1>3 DEF Balanced, t

(* Behind a balanced text the levels are those of what follows.             *)
LEMMA LevelOfRest ==
  ASSUME NEW a, Balanced(a), NEW b \in Text, NEW j \in 0..Len(b)
  PROVE  Level(a \o b, Len(a) + j) = Level(b, j)
<1>1. a \in Text /\ Len(b) \in Nat
  BY TextPlaces DEF Balanced
<1>2. Level(a \o b, Len(a) + j) = Level(a, Len(a)) + Level(b, j)
  BY <1>1, LevelJoins
<1>3. Level(b, j) \in Int
  BY <1>1, LevelStep
<1> QED
  BY <1>2, <1>3 DEF Balanced

Opened(t, i, q, k) ==
  Texts3(t, i) /\ ReplaceFrom(t)[i] = Rewritten(q) \o ReplaceFrom(t)[k]

LEMMA ReplaceOpened ==
  ASSUME NEW a, Balanced(a), NEW q \in Text, Outermost(q), NEW r \in Text,
         NEW t, t = (a \o q) \o r,
         Rewritten(q) \in Text, NEW i, i = Len(a) + 1, NEW k, k = Len(a \o q) + 1, ReplaceFrom(t)[k] \in Text
  PROVE  Opened(t, i, q, k)
<1> DEFINE A == Len(a)
           n == Len(q)
           R == Len(r)
<1>1. /\ A \in Nat /\ n \in Nat /\ R \in Nat /\ a \in Text /\ n > 1 /\ q[1] = LCURLY
      /\ Level(q, n) = 0 /\ \A j \in 1..(n - 1) : Level(q, j) > 0
  BY TextPlaces, OutermostFacts DEF Balanced, Closed
<1>2. a \o q \in Text /\ Len(a \o q) = A + n /\ t \in Text /\ Len(t) = (A + n) + R
  BY <1>1, TextClosed, TextPlaces
<1>3. q \o r \in Text /\ Len(q \o r) = n + R /\ t = a \o (q \o r)
  <2>1. q \o r \in Text /\ t = a \o (q \o r)
    <3>1. a \in Text /\ q \in Text /\ r \in Text /\ t = (a \o q) \o r
      BY <1>1
    <3>2. q \o r \in Text
      BY <3>1, TextClosed
    <3>3. (a \o q) \o r = a \o (q \o r)
      <4>1. Joined(q, r, q \o r)
        BY TextJoined
      <4> QED
        BY <3>1, <4>1 DEF Joined
    <3> QED
      BY <3>1, <3>2, <3>3
  <2>2. Len(q \o r) = n + R
    BY TextPlaces
  <2> QED
    BY <2>1, <2>2
<1>4. i \in 1..(Len(t) + 1) /\ i \in 1..Len(t) /\ k = A + n + 1 /\ i = A + 1
  BY <1>1, <1>2
<1>5. t[i] = LCURLY
  <2>1. 1 \in 1..n /\ 1 \in 1..Len(q \o r)
    BY <1>1, <1>3
  <2>2. (q \o r)[1] = q[1]
    BY <2>1, TextPlaces
  <2>3. (a \o (q \o r))[A + 1] = (q \o r)[1]
    BY <1>1, <1>3, <2>1, TextPlaces
  <2> QED
    BY <1>1, <1>3, <1>4, <2>2, <2>3
<1>6. ASSUME NEW j \in 1..n
      PROVE  Level(t, A + j) = Level(q, j)
  <2>1. j \in 0..Len(q \o r) /\ j \in 0..Len(q)
    BY <1>1, <1>3
  <2>2. Level(a \o (q \o r), A + j) = Level(q \o r, j)
    BY <1>3, <2>1, LevelOfRest
  <2>3. Level(q \o r, j) = Level(q, j)
    BY <2>1, LevelJoins
  <2> QED
    BY <1>3, <2>2, <2>3
<1>7. Opening(t, i) = i
  <2>1. Opening(t, i) \in i..(Len(t) + 1) /\ Opening(t, i) <= i
    <3> DEFINE S == {LCURLY}
               o == FirstIn(t, i, S)
    <3>1. t[i] \in S /\ i \in i..Len(t)
      BY <1>1, <1>2, <1>4, <1>5
    <3> HIDE DEF S
    <3>2. o \in i..(Len(t) + 1) /\ \A j \in i..Len(t) : t[j] \in S => o <= j
      BY <1>2, <1>4, FirstInFacts
    <3> QED
      BY <3>1, <3>2 DEF Opening, S
  <2> QED
    BY <1>1, <1>4, <2>1
<1> DEFINE c == Closing(t, i)
<1>8. c \in i..(Len(t) + 1) /\ (\A j \in i..Len(t) : Level(t, j) = 0 => c <= j) /\ (c <= Len(t) => Level(t, c) = 0)
  BY <1>2, <1>4, <1>7, ClosingFacts
<1> HIDE DEF c
<1>9. c = A + n
  <2>1. c <= A + n
    <3>1. n \in 1..n /\ A + n \in i..Len(t)
      BY <1>1, <1>2, <1>4
    <3>2. Level(t, A + n) = 0
      BY <1>1, <1>6, <3>1
    <3> QED
      BY <1>8, <3>1, <3>2
  <2>2. c <= Len(t) /\ c - A \in 1..n /\ A + (c - A) = c
    BY <1>1, <1>2, <1>4, <1>8, <2>1
  <2>3. Level(t, A + (c - A)) = Level(q, c - A)
    BY <1>6, <2>2
  <2>4. Level(q, c - A) = 0
    BY <1>8, <2>2, <2>3
  <2>5. c - A \notin 1..(n - 1)
    BY <1>1, <2>4
  <2> DEFINE z == c - A
  <2> HIDE DEF z
  <2>6. z \in 1..n /\ z \notin 1..(n - 1)
    BY <2>2, <2>5 DEF z
  <2>7. z = n
    BY <1>1, <2>6
  <2> QED
    BY <2>2, <2>7 DEF z
<1>10. SubSeq(t, i, c) = q
  BY <1>1, <1>4, <1>9, PartMiddle
<1>11. SubSeq(t, i, i - 1) = <<>>
  BY <1>1, <1>4, PartNone
<1>12. ReplaceFrom(t)[i] = Replacing(t, ReplaceFrom(t), i)
  BY <1>2, <1>4, ReplaceRecursion
<1>13. c <= Len(t) /\ c + 1 = k
  BY <1>1, <1>2, <1>4, <1>9
<1> DEFINE g == ReplaceFrom(t)
<1> HIDE DEF g
<1>14. g[i] = (SubSeq(t, i, i - 1) \o Rewritten(SubSeq(t, i, c))) \o g[c + 1]
  <2>1. ~(Closing(t, i) > Len(t))
    BY <1>1, <1>2, <1>9, <1>13 DEF c
  <2> QED
    BY <1>7, <1>12, <2>1 DEF Replacing, c, g
<1> DEFINE b == Rewritten(q)
<1>15. b \in Text /\ <<>> \o b = b
  BY TextEmpty
<1> HIDE DEF b
<1>16. g[i] = b \o g[k]
  <2>1. g[i] = (<<>> \o b) \o g[k]
    BY <1>10, <1>11, <1>13, <1>14 DEF b
  <2> QED
    BY <1>15, <2>1
<1>17. Texts3(t, i)
  BY <1>7, <1>10, <1>13 DEF Texts3, c
<1> QED
  BY <1>16, <1>17 DEF Opened, g, b

(* Text w, where no sequence is open, is replaced by what it means, m.      *)
MeantAt(t, i, m) ==
  Texts3(t, i) /\ ReplaceFrom(t)[i] \in Text /\ WithoutSpaces(ReplaceFrom(t)[i]) = m

Meant(w, m) == \A a : Balanced(a) => MeantAt(a \o w, Len(a) + 1, m)

LEMMA MeantOpen ==
  ASSUME NEW w \in Text, \A j \in 1..Len(w) : Level(w, j) > 0
  PROVE  Meant(w, WithoutSpaces(w))
<1> SUFFICES ASSUME NEW a, Balanced(a)
             PROVE  MeantAt(a \o w, Len(a) + 1, WithoutSpaces(w))
  BY DEF Meant
<1> DEFINE t == a \o w
           A == Len(a)
           i == A + 1
<1>1. A \in Nat /\ Len(w) \in Nat /\ a \in Text
  BY TextPlaces DEF Balanced
<1>2. t \in Text /\ Len(t) = A + Len(w)
  BY <1>1, TextClosed, TextPlaces
<1>3. i \in 1..(Len(t) + 1)
  BY <1>1, <1>2
<1>4. ASSUME NEW j \in i..Len(t) PROVE Level(t, j) # 0
  <2> DEFINE n == j - A
  <2>1. n \in 0..Len(w) /\ n \in 1..Len(w) /\ A + n = j /\ n \in Nat
    BY <1>1, <1>2
  <2> HIDE DEF n, A
  <2>2. Level(t, A + n) = Level(w, n)
    BY <2>1, LevelOfRest DEF A
  <2>3. Level(w, n) > 0
    BY <2>1
  <2>4. Level(w, n) \in Int
    BY <1>1, <2>1, LevelStep
  <2> QED
    BY <2>1, <2>2, <2>3, <2>4
<1>5. SubSeq(t, i, Len(t)) = w
  BY <1>1, <1>2, PartLast
<1> HIDE DEF t, i
<1>6. Ended(t, i)
  BY <1>2, <1>3, <1>4, ReplaceLast
<1>7. MeantAt(t, i, WithoutSpaces(w))
  BY <1>5, <1>6 DEF MeantAt, Ended
<1> QED
  BY <1>7 DEF t, i

LEMMA MeantPiece ==
  ASSUME NEW p \in Pieces, p \notin {LCURLY, RCURLY}, NEW w \in Text, NEW m \in Text, Meant(w, m)
  PROVE  Meant(<<p>> \o w, WithoutSpaces(<<p>>) \o m)
<1> DEFINE P == <<p>>
           c == WithoutSpaces(P)
<1> SUFFICES ASSUME NEW a, Balanced(a)
             PROVE  MeantAt(a \o (P \o w), Len(a) + 1, c \o m)
  BY DEF Meant
<1>1. Balanced(P) /\ P \in Text /\ Len(P) = 1 /\ P[1] = p /\ Len(a) \in Nat /\ a \in Text
  BY PieceBalanced, TextClosed, TextPlaces DEF Balanced
<1> HIDE DEF P
<1> DEFINE b == a \o P
           t == b \o w
           i == Len(a) + 1
<1>2. Balanced(b) /\ b \in Text /\ Len(b) = i
  <2>1. Balanced(b)
    BY <1>1, BalancedJoins
  <2>2. Len(b) = Len(a) + Len(P)
    BY <1>1, TextPlaces
  <2> QED
    BY <1>1, <2>1, <2>2 DEF Balanced
<1>3. a \o (P \o w) = t
  <2>1. Joined(P, w, P \o w)
    BY <1>1, TextJoined
  <2> QED
    BY <1>1, <2>1 DEF Joined
<1>4. t \in Text /\ Len(t) = i + Len(w) /\ Len(w) \in Nat
  BY <1>2, TextClosed, TextPlaces
<1>5. t[i] = p
  <2>1. i \in 1..Len(b)
    BY <1>1, <1>2
  <2>2. (b \o w)[i] = b[i]
    BY <1>2, <2>1, TextPlaces
  <2>3. 1 \in 1..Len(P)
    BY <1>1
  <2>4. (a \o P)[Len(a) + 1] = P[1]
    BY <1>1, <2>3, TextPlaces
  <2> QED
    BY <1>1, <2>2, <2>4
<1>6. MeantAt(t, i + 1, m)
  <2>1. MeantAt(b \o w, Len(b) + 1, m)
    BY <1>2 DEF Meant
  <2> QED
    BY <1>2, <2>1
<1>7. i \in 1..Len(t)
  BY <1>1, <1>4
<1> HIDE DEF t, i, b
<1> DEFINE r == ReplaceFrom(t)[i + 1]
<1>8. Texts3(t, i + 1) /\ r \in Text /\ WithoutSpaces(r) = m
  BY <1>6 DEF MeantAt
<1>9. CopiedAt(t, i)
  BY <1>4, <1>5, <1>7, <1>8, ReplaceNone
<1>10. ReplaceFrom(t)[i] = P \o r /\ Texts3(t, i)
  BY <1>5, <1>9 DEF CopiedAt, P
<1> HIDE DEF r
<1>11. P \o r \in Text /\ WithoutSpaces(P \o r) = c \o m
  <2>1. P \o r \in Text
    BY <1>1, <1>8, TextClosed
  <2>2. WithoutSpaces(P \o r) = WithoutSpaces(P) \o WithoutSpaces(r)
    BY <1>1, <1>8, WithoutSpacesConcat
  <2> QED
    BY <1>8, <2>1, <2>2
<1>12. MeantAt(t, i, c \o m)
  BY <1>10, <1>11 DEF MeantAt
<1> QED
  BY <1>3, <1>12 DEF i

LEMMA MeantSequence ==
  ASSUME NEW q \in Text, Outermost(q), NEW c, Replaced(q, c), NEW w \in Text,
         NEW m \in Text, Meant(w, m)
  PROVE  Meant(q \o w, c \o m)
<1> SUFFICES ASSUME NEW a, Balanced(a)
             PROVE  MeantAt(a \o (q \o w), Len(a) + 1, c \o m)
  BY DEF Meant
<1>1. Balanced(q) /\ Len(a) \in Nat /\ a \in Text
  BY OutermostFacts, TextPlaces DEF Balanced
<1> DEFINE b == a \o q
           t == b \o w
           i == Len(a) + 1
           k == Len(b) + 1
<1>2. Balanced(b) /\ b \in Text
  BY <1>1, BalancedJoins DEF Balanced
<1>3. a \o (q \o w) = t
  <2>1. Joined(q, w, q \o w)
    BY TextJoined
  <2> QED
    BY <1>1, <2>1 DEF Joined
<1>4. MeantAt(t, k, m)
  BY <1>2 DEF Meant
<1> DEFINE r == ReplaceFrom(t)[k]
           o == Rewritten(q)
<1>5. r \in Text /\ WithoutSpaces(r) = m
  BY <1>4 DEF MeantAt
<1>6. o \in Text /\ WithoutSpaces(o) = c
  BY DEF Replaced
<1>7. Opened(t, i, q, k)
  <2> HIDE DEF t, i, k
  <2>1. t = (a \o q) \o w /\ i = Len(a) + 1 /\ k = Len(a \o q) + 1
    BY DEF t, i, k
  <2> HIDE DEF b
  <2> QED
    BY <1>5, <1>6, <2>1, ReplaceOpened
<1> HIDE DEF t, i, k, b
<1>8. ReplaceFrom(t)[i] = o \o r /\ Texts3(t, i)
  BY <1>7 DEF Opened
<1> HIDE DEF r, o
<1>9. o \o r \in Text /\ WithoutSpaces(o \o r) = c \o m
  <2>1. o \o r \in Text
    BY <1>5, <1>6, TextClosed
  <2>2. WithoutSpaces(o \o r) = WithoutSpaces(o) \o WithoutSpaces(r)
    BY <1>5, <1>6, WithoutSpacesConcat
  <2> QED
    BY <1>5, <1>6, <2>1, <2>2
<1>10. MeantAt(t, i, c \o m)
  BY <1>8, <1>9 DEF MeantAt
<1> QED
  BY <1>3, <1>10 DEF i

LEMMA QueryFollows ==
  ASSUME NEW X, NEW x, x.kind = "query", Follows(x, X)
  PROVE  QueryRule(x, X)
<1>1. ASSUME NEW text, NEW means, x = Phrase("sequence", text, means) PROVE FALSE
  BY <1>1, PhraseParts
<1>2. ~LiteralRule(x)
  BY <1>1 DEF LiteralRule
<1>3. ASSUME NEW text, NEW means, IsCall(x, text, means) PROVE FALSE
  BY <1>1, <1>3 DEF IsCall
<1>4. ~RenamedRule(x, X) /\ ~NowRule(x, X)
  BY <1>3 DEF RenamedRule, NowRule
<1>5. ~SpecialRule(x, X)
  BY <1>3 DEF SpecialRule
<1>6. ~InsideRule(x, X) /\ ~GroupRule(x, X) /\ ~CopyRule(x, X) /\ ~ArgumentRule(x, X)
  BY DEF InsideRule, GroupRule, CopyRule, ArgumentRule
<1> QED
  BY <1>2, <1>4, <1>5, <1>6 DEF Follows

LEMMA QueryMeant ==
  ASSUME NEW D, Derivation(D), NEW x \in D, x.kind = "query",
         \A y \in D : y.kind = "query" /\ Len(y.text) < Len(x.text) => Meant(y.text, y.means)
  PROVE  Meant(x.text, x.means)
<1> DEFINE X == Shorter(D, x)
<1>1. \A y \in D : y.text \in Text /\ y.means \in Text
  BY DEF Derivation
<1>2. QueryRule(x, X)
  BY QueryFollows DEF Derivation
<1>3. ASSUME NEW rest \in Of(X, "query")
      PROVE  rest \in D /\ rest.text \in Text /\ rest.means \in Text /\ Meant(rest.text, rest.means)
  BY <1>1 DEF Of, Shorter
<1>4. \A part \in Of(X, "sequence") : part \in D /\ part.kind = "sequence"
  BY DEF Of, Shorter
<1> HIDE DEF X
<1>5. CASE x = Phrase("query", <<>>, <<>>)
  <2> DEFINE no == <<>>
  <2>1. x.text = no /\ x.means = no /\ WithoutSpaces(no) = no /\ no \in Text /\ Len(no) = 0
    BY <1>5, PhraseParts, WithoutSpacesPiece, TextClosed
  <2> HIDE DEF no
  <2>2. Meant(no, WithoutSpaces(no))
    BY <2>1, MeantOpen
  <2> QED
    BY <2>1, <2>2
<1>6. CASE x.means = WithoutSpaces(x.text) /\ \A i \in 1..Len(x.text) : Level(x.text, i) > 0
  BY <1>1, <1>6, MeantOpen
<1>7. ASSUME NEW rest \in Of(X, "query"), x.text # <<>>, x.text[1] \notin {LCURLY, RCURLY},
             Joins(x, Phrase("piece", <<x.text[1]>>, WithoutSpaces(<<x.text[1]>>)), rest)
      PROVE  Meant(x.text, x.means)
  <2> DEFINE p == x.text[1]
             u == rest.text
             m == rest.means
  <2>1. p \in Pieces
    BY <1>1, <1>7, TextBegins
  <2>2. u \in Text /\ m \in Text /\ Meant(u, m) /\ p \notin {LCURLY, RCURLY}
    BY <1>3, <1>7
  <2>3. x.text = <<p>> \o u /\ x.means = WithoutSpaces(<<p>>) \o m
    BY <1>7 DEF Joins, Phrase
  <2> HIDE DEF p, u, m
  <2>4. Meant(<<p>> \o u, WithoutSpaces(<<p>>) \o m)
    BY <2>1, <2>2, MeantPiece
  <2> QED
    BY <2>3, <2>4
<1>8. ASSUME NEW rest \in Of(X, "query"), NEW n \in 1..Len(x.text), NEW q, NEW w, NEW c,
             q = SubSeq(x.text, 1, n), w = WithoutSpaces(q), Outermost(q), Joins(x, Phrase("sequence", q, c), rest),
             \/ Unknown(w) /\ c = w
             \/ Readable(q) /\ \E part \in Of(X, "sequence") : part.text = w /\ part.means = c
      PROVE  Meant(x.text, x.means)
  <2> DEFINE u == rest.text
             m == rest.means
  <2>1. q \in Text
    <3>1. x.text \in Text /\ Len(x.text) \in Nat /\ \A j \in 1..Len(x.text) : x.text[j] \in Pieces
      BY <1>1, TextPlaces
    <3>2. \A j \in 1..n : x.text[j] \in Pieces
      BY <3>1
    <3>3. SubSeq(x.text, 1, n) \in Seq(Pieces)
      BY <3>1, <3>2, SubSeqProperties
    <3> QED
      BY <1>8, <3>3 DEF Text
  <2>2. Replaced(q, c)
    <3>1. CASE Unknown(w) /\ c = w
      BY <1>8, <2>1, <3>1, UnknownReplaced
    <3>2. ASSUME Readable(q), NEW part \in Of(X, "sequence"), part.text = w, part.means = c
          PROVE  Replaced(q, c)
      <4>1. part \in D /\ part.kind = "sequence" /\ part.text = WithoutSpaces(q)
        BY <1>4, <1>8, <3>2
      <4>2. Replaced(q, part.means)
        BY <1>8, <2>1, <3>2, <4>1, KnownReplaced
      <4> QED
        BY <3>2, <4>2
    <3> QED
      BY <1>8, <3>1, <3>2
  <2>3. u \in Text /\ m \in Text /\ Meant(u, m)
    BY <1>3
  <2>4. x.text = q \o u /\ x.means = c \o m
    BY <1>8 DEF Joins, Phrase
  <2> HIDE DEF u, m
  <2>5. Meant(q \o u, c \o m)
    BY <1>8, <2>1, <2>2, <2>3, MeantSequence
  <2> QED
    BY <2>4, <2>5
<1>9. ASSUME NEW rest \in Of(X, "query"), NEW n \in 1..Len(x.text),
             LET q == SubSeq(x.text, 1, n)
                 w == WithoutSpaces(q)
             IN /\ Outermost(q)
                /\ \/ Unknown(w) /\ Joins(x, Phrase("sequence", q, w), rest)
                   \/ Readable(q) /\ \E part \in Of(X, "sequence") :
                        part.text = w /\ Joins(x, Phrase("sequence", q, part.means), rest)
      PROVE  Meant(x.text, x.means)
  <2> DEFINE q == SubSeq(x.text, 1, n)
             w == WithoutSpaces(q)
  <2>1. CASE Unknown(w) /\ Joins(x, Phrase("sequence", q, w), rest)
    BY <1>8, <1>9, <2>1
  <2>2. ASSUME Readable(q), NEW part \in Of(X, "sequence"), part.text = w,
               Joins(x, Phrase("sequence", q, part.means), rest)
        PROVE  Meant(x.text, x.means)
    BY <1>8, <1>9, <2>2
  <2> QED
    BY <1>9, <2>1, <2>2
<1> QED
  BY <1>2, <1>5, <1>6, <1>7, <1>9 DEF QueryRule

LEMMA QueriesMeant ==
  ASSUME NEW D, Derivation(D)
  PROVE  \A x \in D : x.kind = "query" => Meant(x.text, x.means)
<1> DEFINE Fulfilled(x) == x.kind = "query" => Meant(x.text, x.means)
           Wrong == {Len(x.text) : x \in {y \in D : ~Fulfilled(y)}}
<1>1. \A x \in D : Len(x.text) \in Nat
  BY TextPlaces DEF Derivation
<1>2. ASSUME Wrong # {} PROVE FALSE
  <2>1. Wrong \in SUBSET Nat
    BY <1>1
  <2>2. PICK n \in Wrong : \A k \in Wrong : n <= k
    <3> HIDE DEF Wrong
    <3> QED
      BY <1>2, <2>1, LeastNumber
  <2>3. PICK x \in D : Len(x.text) = n /\ ~Fulfilled(x)
    BY <2>2
  <2>4. ASSUME NEW y \in D, Len(y.text) < Len(x.text) PROVE Fulfilled(y)
    <3>1. ~(n <= Len(y.text))
      BY <1>1, <2>3, <2>4
    <3>2. Len(y.text) \notin Wrong
      <4> HIDE DEF Wrong
      <4> QED
        BY <2>2, <3>1
    <3> HIDE DEF Fulfilled
    <3> QED
      BY <3>2
  <2>5. x.kind = "query" /\ ~Meant(x.text, x.means)
    BY <2>3
  <2>6. \A y \in D : y.kind = "query" /\ Len(y.text) < Len(x.text) => Meant(y.text, y.means)
    BY <2>4
  <2> QED
    BY <2>5, <2>6, QueryMeant
<1> QED
  BY <1>2

(* What the driver promises of a text it keeps: with its escape sequences    *)
(* replaced, the text says what it means, but for the blanks.                *)
THEOREM PromisesAreKept ==
  ASSUME NEW text \in Text, NEW means, Promised(text, means)
  PROVE  WithoutSpaces(ReplaceEscapes(text)) = means
<1>1. PICK D : Promises(D, text, means)
  BY DEF Promised
<1>2. CASE Stray(text)
  BY <1>1, <1>2 DEF Promises, ReplaceEscapes
<1>3. CASE ~Stray(text)
  <2> DEFINE x == Phrase("query", text, means)
             no == <<>>
  <2>1. Derivation(D) /\ x \in D
    BY <1>1, <1>3 DEF Promises
  <2>2. x.kind = "query" /\ x.text = text /\ x.means = means
    BY PhraseParts
  <2>3. Meant(text, means)
    BY <2>1, <2>2, QueriesMeant
  <2>4. Balanced(no) /\ Len(no) = 0 /\ no \o text = text
    <3>1. no \in Text /\ no \o text = text /\ Len(no) = 0
      BY TextClosed, TextEmpty
    <3>2. Level(no, 0) = 0
      BY LevelStep
    <3> QED
      BY <3>1, <3>2 DEF Balanced
  <2> HIDE DEF no
  <2>5. MeantAt(no \o text, Len(no) + 1, means)
    BY <2>3, <2>4 DEF Meant
  <2>6. MeantAt(text, 1, means)
    BY <2>4, <2>5
  <2> QED
    BY <1>3, <2>6 DEF MeantAt, ReplaceEscapes
<1> QED
  BY <1>2, <1>3

-----------------------------------------------------------------------------
(* What the lexer makes of a text are tokens that the machines know.        *)
LEMMA TokenIsKnown ==
  ASSUME NEW t \in Text, NEW k \in 1..Len(t)
  PROVE  Seen(TokenAt(t, k)) \in Token
<1> DEFINE x == TokenAt(t, k)
           raw == IF x.text = <<>> THEN NoText ELSE IF Len(x.text) = 1 THEN x.text[1] ELSE "run"
<1>1. t[k] \in Pieces
  BY TextPlaces
<1>2. x.type = Type(t[k]) /\ x.type \in TokenTypes /\ x.text \in Text
  BY <1>1, TypeFacts, TokenAtFacts, TokenEnds
<1>3. x.type # "OTHER" => x.text = <<t[k]>>
  BY <1>2, TokenEnds
<1>4. Seen(x) = TokenOf(x.type, raw)
  BY DEF Seen
<1> HIDE DEF x
<1>5. raw \in Pieces \cup {NoText, "run"}
  <2>1. ASSUME x.text # <<>>, Len(x.text) = 1 PROVE x.text[1] \in Pieces
    BY <1>2, <2>1, TextPlaces
  <2> QED
    BY <2>1
<1>6. x.type # "OTHER" => raw = t[k]
  <2> SUFFICES ASSUME x.type # "OTHER" PROVE raw = t[k]
    OBVIOUS
  <2>1. x.text = <<t[k]>>
    BY <1>3
  <2> DEFINE p == t[k]
  <2> HIDE DEF p
  <2>2. <<p>> # <<>> /\ Len(<<p>>) = 1 /\ <<p>>[1] = p
    OBVIOUS
  <2> QED
    BY <2>1, <2>2 DEF p
<1> HIDE DEF raw
<1>7. raw \in Names /\ UpperOf(raw) \in Names
  BY <1>5, QueriesAssumption
<1>8. x.type \in STRING
  BY <1>2, QueriesAssumption
<1>9. x.type \in Separators => raw = x.type
  <2> SUFFICES ASSUME x.type \in Separators PROVE raw = x.type
    OBVIOUS
  <2>1. x.type \in Delimiters
    BY Zenon DEF Separators, Delimiters, Comma, Blank, COMMA, SPACE, LPARENT, RPARENT
  <2>2. x.type # "OTHER"
    BY <2>1, NamesAreApart DEF Kinds
  <2>3. Type(t[k]) = t[k]
    BY <1>1, <1>2, <2>1, TypeFacts
  <2> QED
    BY <1>2, <1>6, <2>2, <2>3
<1>10. raw = NoText => x.type = "OTHER"
  BY <1>1, <1>6, QueriesAssumption
<1> QED
  <2> DEFINE s == TokenOf(x.type, raw)
  <2>1. s \in [type : STRING, raw : Names, word : Names, column : BOOLEAN, dotted : BOOLEAN]
    BY <1>7, <1>8 DEF TokenOf
  <2>2. s.type = x.type /\ s.raw = raw
    BY DEF TokenOf
  <2> HIDE DEF s
  <2>3. s = TokenOf(s.type, s.raw)
    BY <2>2 DEF s
  <2>4. s \in Token
    BY <1>9, <1>10, <2>1, <2>2, <2>3 DEF Token
  <2> QED
    BY <1>4, <2>4 DEF s, x

(* The lexer hands the machines only what they are made for: every token of *)
(* a text, whatever quotes it leaves open, has a type and a name they know. *)
THEOREM TokensAreKnown ==
  ASSUME NEW t \in Text
  PROVE  Lexed(t) \in Seq(Token)
<1> DEFINE T == {TokenAt(t, k) : k \in 1..Len(t)}
           S == {i \in 1..(Len(t) + 1) : \A j \in i..(Len(t) + 1) : TokensFrom(t)[j] \in Seq(T)}
<1>1. Len(t) \in Nat
  BY TextPlaces
<1>2. \A x \in T : Seen(x) \in Token
  BY TokenIsKnown
<1>3. ASSUME NEW i \in 1..(Len(t) + 1), \A j \in (i + 1)..(Len(t) + 1) : TokensFrom(t)[j] \in Seq(T)
      PROVE  TokensFrom(t)[i] \in Seq(T)
  <2> DEFINE x == NextToken(t, i, TRUE)
  <2>1. TokensFrom(t)[i] = IF x.type = "EOS" THEN <<>>
                           ELSE IF x.next = i THEN <<x>> ELSE <<x>> \o TokensFrom(t)[x.next]
    BY TokensRecursion DEF LexTurn
  <2>2. x.type = "EOS" \/ (x \in T /\ x.next \in i..(Len(t) + 1))
    BY TokenThere
  <2> HIDE DEF x, T
  <2>3. <<>> \in Seq(T)
    OBVIOUS
  <2>4. ASSUME x.type # "EOS", x.next # i PROVE <<x>> \o TokensFrom(t)[x.next] \in Seq(T)
    <3>1. x \in T /\ x.next \in (i + 1)..(Len(t) + 1)
      BY <1>1, <2>2, <2>4
    <3>2. TokensFrom(t)[x.next] \in Seq(T)
      BY <1>3, <3>1
    <3> QED
      BY <3>1, <3>2, ConsFacts
  <2>5. x \in T => <<x>> \in Seq(T)
    BY ListIsSeq
  <2> QED
    BY <2>1, <2>2, <2>3, <2>4, <2>5
<1> HIDE DEF T
<1>4. Len(t) + 1 \in S
  <2>1. TokensFrom(t)[Len(t) + 1] \in Seq(T)
    BY <1>1, <1>3
  <2> QED
    BY <1>1, <2>1
<1>5. \A i \in 1..Len(t) : i + 1 \in S => i \in S
  <2> SUFFICES ASSUME NEW i \in 1..Len(t), i + 1 \in S PROVE i \in S
    OBVIOUS
  <2>1. \A j \in (i + 1)..(Len(t) + 1) : TokensFrom(t)[j] \in Seq(T)
    OBVIOUS
  <2>2. i \in 1..(Len(t) + 1)
    BY <1>1
  <2>3. TokensFrom(t)[i] \in Seq(T)
    BY <1>3, <2>1, <2>2
  <2>4. \A j \in i..(Len(t) + 1) : j = i \/ j \in (i + 1)..(Len(t) + 1)
    BY <1>1
  <2> QED
    BY <2>1, <2>2, <2>3, <2>4
<1>6. 1 \in S
  <2> HIDE DEF S
  <2>1. 1..(Len(t) + 1) \subseteq S
    BY <1>1, <1>4, <1>5, DownwardInduction
  <2> QED
    BY <1>1, <2>1
<1>7. Tokens(t) \in Seq(T)
  BY <1>1, <1>6 DEF Tokens
<1>8. DOMAIN Tokens(t) = 1..Len(Tokens(t)) /\ Len(Tokens(t)) \in Nat
         /\ \A i \in 1..Len(Tokens(t)) : Tokens(t)[i] \in T
  BY <1>7
<1>9. \A i \in 1..Len(Tokens(t)) : Seen(Tokens(t)[i]) \in Token
  BY <1>2, <1>8
<1>10. Lexed(t) = [i \in 1..Len(Tokens(t)) |-> Seen(Tokens(t)[i])]
  BY <1>8 DEF Lexed
<1> QED
  BY <1>8, <1>9, <1>10

-----------------------------------------------------------------------------
(* A query before, while and after the machines read it.                    *)
Untouched == cur = 1 /\ machines = <<>> /\ read = TRUE /\ out = <<>>
QueryIInv ==
  /\ given \in Texts
  /\ phase = "start" => replaced = ReplaceEscapes(given.text)
  /\ \/ phase = "given" /\ tokens = <<>> /\ Untouched
     \/ phase = "unchanged" /\ out = <<>>
     \/ phase # "given" /\ WholeIInv

(* What the rewriting makes of the queries are texts.                       *)
LEMMA TextsAreRewritten == \A q \in Texts : ReplaceEscapes(q.text) \in Text
BY TextsAssumption, RewritingEnds

LEMMA QueryInitIInv == QueryInit => QueryIInv
BY DEF QueryInit, QueryIInv, Untouched

LEMMA InitWholeBehind == Init' => WholeIInv'
<1>1. Init => WholeIInv
  BY InitWhole
<1> QED
  BY <1>1, PTL

LEMMA EscapeIInv ==
  ASSUME QueryIInv, Escape
  PROVE  QueryIInv'
<1> DEFINE text == ReplaceEscapes(given.text)
<1>1. given \in Texts /\ Untouched
  BY DEF QueryIInv, Escape
<1>2. text \in Text
  BY <1>1, TextsAreRewritten
<1>3. tokens' = Lexed(text) /\ replaced' = text
  BY DEF Escape
<1>4. tokens' \in Seq(Token)
  BY <1>2, <1>3, TokensAreKnown
<1>5. phase' = "start" /\ cur' = 1 /\ machines' = <<>> /\ read' = TRUE /\ out' = <<>> /\ given' = given
  BY <1>1 DEF Escape, Untouched
<1>6. Init'
  BY <1>4, <1>5 DEF Init, Token, TokenOf
<1>7. WholeIInv'
  BY <1>6, InitWholeBehind
<1> QED
  BY <1>1, <1>3, <1>5, <1>7 DEF QueryIInv

LEMMA QueryStepIInv ==
  ASSUME QueryIInv, [QueryNext]_queryVars
  PROVE  QueryIInv'
<1>1. CASE PrepareUnscanned \/ EscapeStray
  <2>1. phase = "given" /\ Unread
    BY <1>1, Zenon DEF PrepareUnscanned, EscapeStray
  <2> QED
    BY <2>1 DEF QueryIInv, Unread, Untouched
<1>2. CASE Escape
  BY <1>2, EscapeIInv
<1>3. CASE UnquoteColumns
  <2>1. phase # "given" /\ Next /\ UNCHANGED <<given, scan, replaced>>
    BY <1>3 DEF UnquoteColumns
  <2>2. phase \in {"start", "running"} /\ phase' \notin {"given", "start"}
    BY <2>1 DEF Next, StartMachine, ReturnUnchanged, CloseMachine, EnterSubquery, ChangeState,
       PassOver,
                ReturnToOuter, Finish, Turn
  <2>3. WholeIInv
    BY <2>2 DEF QueryIInv
  <2>4. WholeIInv'
    BY <2>1, <2>3, WholeStep
  <2> QED
    BY <2>1, <2>2, <2>4 DEF QueryIInv
<1>4. CASE UNCHANGED queryVars
  <2>1. CASE phase # "given" /\ WholeIInv
    <3>1. [Next]_vars
      BY <1>4 DEF queryVars
    <3>2. WholeIInv'
      BY <2>1, <3>1, WholeStep
    <3> QED
      BY <1>4, <2>1, <3>2 DEF QueryIInv, queryVars, vars
  <2>2. CASE ~(phase # "given" /\ WholeIInv)
    BY <1>4, <2>2 DEF QueryIInv, queryVars, vars, Untouched
  <2> QED
    BY <2>1, <2>2
<1> QED
  BY <1>1, <1>2, <1>3, <1>4 DEF QueryNext

LEMMA QueriesKeepIInv == QuerySpec => []QueryIInv
<1>1. QueryIInv /\ [QueryNext]_queryVars => QueryIInv'
  BY QueryStepIInv
<1> QED
  BY <1>1, QueryInitIInv, PTL DEF QuerySpec

LEMMA MachinesOrNot ==
  ASSUME QueryIInv
  PROVE  InOrder /\ LostBehindParenthesis /\ QueryIsWhole /\ TablesOfColumnsAreNotSplit /\ AliasesAreNotSplit
<1>1. CASE WholeIInv
  <2>1. LostIInv
    BY <1>1 DEF WholeIInv
  <2> QED
    BY <1>1, <2>1, LostInOrder, LostBehind, WholeKeeps, WholeSparesTables, WholeSparesAliases
<1>2. CASE phase \in {"given", "unchanged"} /\ out = <<>>
  BY <1>2 DEF InOrder, LostBehindParenthesis, QueryIsWhole, TablesOfColumnsAreNotSplit,
     AliasesAreNotSplit
<1> QED
  BY <1>1, <1>2 DEF QueryIInv, Untouched

(* The tokens that the machines get from SQLPrepare and SQLExecDirect are   *)
(* those of the rewritten text, which escape sequences it had or not: the   *)
(* five invariants of Columns, with all that their definitions except, hold *)
(* of it.  Of a query with a stray closing brace they say nothing: it is    *)
(* sent as it is, and the machines write nothing.                           *)
THEOREM RewrittenQueriesAreRead ==
  QuerySpec => [](/\ InOrder /\ LostBehindParenthesis /\ QueryIsWhole
                  /\ TablesOfColumnsAreNotSplit /\ AliasesAreNotSplit)
<1>1. QueryIInv => InOrder /\ LostBehindParenthesis /\ QueryIsWhole
                     /\ TablesOfColumnsAreNotSplit /\ AliasesAreNotSplit
  BY MachinesOrNot
<1> QED
  BY <1>1, QueriesKeepIInv, PTL

(* What is claimed about the queries is what Meanings derives.              *)
ClaimsArePromised == \A q \in Texts : \A m \in q.means : Promised(q.text, m)

MeaningIInv ==
  /\ given \in Texts /\ scan \in BOOLEAN
  /\ phase # "given" /\ scan => replaced = ReplaceEscapes(given.text)

(* A query that SQL_ATTR_NOSCAN does not exempt is rewritten to what its    *)
(* escape sequences mean: of a text that Meanings derives a meaning for,    *)
(* Statement::prepareQuery makes a text that says it, up to blanks.         *)
THEOREM EscapesAreMeant ==
  ASSUME ClaimsArePromised
  PROVE  QuerySpec => []EscapesKeepMeaning
<1>1. QueryInit => MeaningIInv
  BY DEF QueryInit, MeaningIInv
<1>2. MeaningIInv /\ [QueryNext]_queryVars => MeaningIInv'
  <2> SUFFICES ASSUME MeaningIInv, [QueryNext]_queryVars PROVE MeaningIInv'
    OBVIOUS
  <2>1. CASE PrepareUnscanned
    BY <2>1 DEF MeaningIInv, PrepareUnscanned, Unread
  <2>5. CASE EscapeStray
    BY <2>5 DEF MeaningIInv, EscapeStray, Unread, ReplaceEscapes
  <2>2. CASE Escape
    BY <2>2 DEF MeaningIInv, Escape
  <2>3. CASE UnquoteColumns
    BY <2>3 DEF MeaningIInv, UnquoteColumns
  <2>4. CASE UNCHANGED queryVars
    BY <2>4 DEF MeaningIInv, queryVars, vars
  <2> QED
    BY <2>1, <2>2, <2>3, <2>4, <2>5 DEF QueryNext
<1>3. MeaningIInv => EscapesKeepMeaning
  <2> SUFFICES ASSUME MeaningIInv, phase \in {"start", "unchanged"}, scan, given.means # {}
               PROVE  WithoutSpaces(replaced) \in given.means
    BY DEF EscapesKeepMeaning
  <2>4. phase # "given"
    OBVIOUS
  <2>1. PICK m \in given.means : TRUE
    OBVIOUS
  <2>2. given.text \in Text /\ Promised(given.text, m)
    BY <2>1, TextsAssumption DEF ClaimsArePromised, MeaningIInv
  <2>3. WithoutSpaces(ReplaceEscapes(given.text)) = m
    BY <2>2, PromisesAreKept
  <2> QED
    BY <2>1, <2>3, <2>4 DEF MeaningIInv
<1> QED
  BY <1>1, <1>2, <1>3, PTL DEF QuerySpec
=============================================================================

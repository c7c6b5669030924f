---------------------------- MODULE ValuesProofs ----------------------------
(***************************************************************************)
(* Proofs about the values of a result on their way to the application:    *)
(* the types they have, the buffers they are written to and the calls that *)
(* retrieve them.                                                          *)
(*                                                                         *)
(* TypeParser: the pointers of the type parser never go astray, whatever   *)
(* the text and however long it is, and only ill-formed texts are          *)
(* undefined. The tree of a well-formed text, and the column made of it,   *)
(* are the reference's. OutputBuffers: for every width of a character and  *)
(* of a length and for every size of a value and of a buffer.              *)
(* DataRetrieval: for results of any size, buffers of any length and any   *)
(* order of calls.                                                         *)
(***************************************************************************)
EXTENDS TypeParser, OutputBuffers, DataRetrieval, SequenceTheorems,
  FiniteSetTheorems, WellFoundedInduction, TLAPS

(* The elements of an element are numbered from 1 without a gap at the     *)
(* end, so that the place behind the last is free: an element that was     *)
(* made never takes the place of one that the stack points to.             *)
Path == Seq(Nat)
Paths == DOMAIN tree

Element ==
  [meta : Metas \cup {"unset"}, name : Names \cup {""}, size : Sizes \cup {NoSize},
   elements : Nat]

TreeTyped ==
  /\ tree \in [Paths -> Element]
  /\ Paths \subseteq Path
  /\ Root \in Paths

NextIsFree ==
  \A p \in Path, k \in Nat :
    Append(p, k) \in Paths => p \in Paths /\ k <= tree[p].elements

Way == Append(open, type)

(* IsElementOf in the tree t.                                              *)
Below(t, p, q) == \E k \in 1..t[q].elements : p = Append(q, k)

PointersTyped == type \in Paths /\ open \in Seq(Paths)
WayIsPath ==
  \A i \in 1..Len(open) :
    \/ Below(tree, Way[i + 1], Way[i])
    \/ i = 1 /\ Way[i + 1] = Root

ParserInv == TreeTyped /\ NextIsFree /\ PointersTyped /\ Way[1] = Root /\ WayIsPath

-----------------------------------------------------------------------------
(* The property is part of the invariant.                                  *)
LEMMA InvImpliesStackIsPath == ParserInv => StackIsPath
<1> SUFFICES ASSUME ParserInv PROVE StackIsPath
  OBVIOUS
<1>1. \A i \in DOMAIN Way : Way[i] \in Paths
  BY DEF ParserInv, PointersTyped, Way
<1> QED  BY <1>1 DEF ParserInv, StackIsPath, WayIsPath, Way, Paths, Below, IsElementOf

(* What LPar and Comma do to the tree.                                     *)
Grown(p) ==
  /\ Paths \subseteq Paths'
  /\ NextElement(p) \in Paths'
  /\ TreeTyped' /\ NextIsFree'
  /\ \A q \in Path, r \in Paths : Below(tree, q, r) => Below(tree', q, r)
  /\ Below(tree', NextElement(p), p)

(* emplace_back keeps every element where it is and adds one that was not  *)
(* there.                                                                  *)
LEMMA TreeGrows ==
  ASSUME TreeTyped, NextIsFree, NEW p \in Paths, tree' = EmplaceBack(p)
  PROVE  Grown(p)
<1> DEFINE e == NextElement(p)
           n == tree[p].elements
<1>1. p \in Path /\ n \in Nat /\ e = Append(p, n + 1) /\ e \in Path
  <2>1. p \in Path /\ n \in Nat  BY DEF TreeTyped, Element
  <2>2. Append(p, n + 1) \in Path  BY <2>1, AppendProperties DEF Path
  <2> QED  BY <2>1, <2>2 DEF NextElement
<1>2. e \notin Paths
  <2>1. SUFFICES ASSUME e \in Paths PROVE FALSE
    OBVIOUS
  <2>2. n + 1 <= n  BY <1>1, <2>1 DEF NextIsFree
  <2> QED  BY <1>1, <2>2
<1>3. Paths' = Paths \cup {e}
  BY DEF EmplaceBack, Paths
<1>4. \A q \in Paths : q # p => tree'[q] = tree[q]
  BY <1>2 DEF EmplaceBack, Paths
<1>5. tree'[p].elements = n + 1
  BY <1>2 DEF EmplaceBack, Paths, TreeTyped, Element
<1>6. tree'[e].elements = 0
  BY <1>2 DEF EmplaceBack, Paths, NewElement
<1> HIDE DEF e, n
<1>7. \A q \in Paths : tree'[q].elements \in Nat /\ tree[q].elements <= tree'[q].elements
  <2> SUFFICES ASSUME NEW q \in Paths
               PROVE  tree'[q].elements \in Nat /\ tree[q].elements <= tree'[q].elements
    OBVIOUS
  <2>1. tree[q].elements \in Nat  BY DEF TreeTyped, Element
  <2> QED  BY <1>1, <1>4, <1>5, <2>1 DEF n
<1>8. TreeTyped'
  <2>1. NewElement \in Element  BY DEF NewElement, Element, Metas, Known
  <2>2. [tree[p] EXCEPT !.elements = @ + 1] \in Element
    <3>1. tree[p] \in Element  BY DEF TreeTyped
    <3>2. tree[p].elements + 1 \in Nat  BY <1>1 DEF n
    <3> QED  BY <3>1, <3>2 DEF Element
  <2>3. tree' \in [Paths \cup {e} -> Element]
    BY <2>1, <2>2 DEF EmplaceBack, TreeTyped, Paths, e
  <2> QED  BY <1>1, <1>3, <2>3 DEF TreeTyped, Root
<1>9. NextIsFree'
  <2> SUFFICES ASSUME NEW q \in Path, NEW k \in Nat, Append(q, k) \in Paths'
               PROVE  q \in Paths' /\ k <= tree'[q].elements
    BY DEF NextIsFree
  <2>1. CASE Append(q, k) \in Paths
    <3>1. q \in Paths /\ k <= tree[q].elements  BY <2>1 DEF NextIsFree
    <3>2. tree[q].elements \in Nat  BY <3>1 DEF TreeTyped, Element
    <3> QED  BY <1>3, <1>7, <3>1, <3>2
  <2>2. CASE Append(q, k) = e
    <3>1. q = p /\ k = n + 1
      BY <1>1, <2>2, n + 1 \in Nat, AppendInjective DEF Path
    <3> QED  BY <1>1, <1>3, <1>5, <3>1
  <2> QED  BY <1>3, <2>1, <2>2
<1>10. ASSUME NEW q \in Path, NEW r \in Paths, Below(tree, q, r)
       PROVE  Below(tree', q, r)
  <2>1. PICK k \in 1..tree[r].elements : q = Append(r, k)
    BY <1>10 DEF Below
  <2>2. k \in 1..tree'[r].elements
    <3>1. tree[r].elements \in Nat  BY DEF TreeTyped, Element
    <3> QED  BY <1>7, <2>1, <3>1
  <2> QED  BY <2>1, <2>2 DEF Below
<1>11. Below(tree', e, p)
  <2>1. n + 1 \in 1..tree'[p].elements  BY <1>1, <1>5
  <2> QED  BY <1>1, <2>1 DEF Below
<1> QED  BY <1>3, <1>8, <1>9, <1>10, <1>11 DEF Grown, e

(* An element with a new meta and a new name.                              *)
LEMMA Named ==
  ASSUME NEW e \in Element, NEW m \in Metas, NEW n \in Names
  PROVE  /\ [e EXCEPT !.meta = m, !.name = n] \in Element
         /\ [e EXCEPT !.meta = m, !.name = n].elements = e.elements
BY DEF Element

(* Likewise for a size.                                                    *)
LEMMA Sized ==
  ASSUME NEW e \in Element, NEW m \in Metas, NEW n \in Sizes
  PROVE  /\ [e EXCEPT !.meta = m, !.size = n] \in Element
         /\ [e EXCEPT !.meta = m, !.size = n].elements = e.elements
BY DEF Element

(* Name and Number change no number of elements.                           *)
LEMMA TreeStays ==
  ASSUME ParserInv, Paths' = Paths, UNCHANGED <<type, open>>,
         tree' \in [Paths -> Element],
         \A p \in Paths : tree'[p].elements = tree[p].elements
  PROVE  ParserInv'
<1>1. \A q, r : r \in Paths => (Below(tree, q, r) <=> Below(tree', q, r))
  BY DEF Below
<1>2. TreeTyped' /\ NextIsFree' /\ PointersTyped' /\ (Way[1] = Root)'
  BY DEF ParserInv, TreeTyped, NextIsFree, PointersTyped, Way
<1>3. \A i \in 1..Len(open) : Way[i] \in Paths
  BY DEF ParserInv, PointersTyped, Way
<1>4. WayIsPath'
  BY <1>1, <1>3 DEF ParserInv, WayIsPath, Way
<1> QED  BY <1>2, <1>4 DEF ParserInv

-----------------------------------------------------------------------------
(* The root alone, pushed once.                                            *)
LEMMA InitParserInv == Init => ParserInv
<1> SUFFICES ASSUME Init PROVE ParserInv
  OBVIOUS
<1>1. Paths = {Root} /\ tree[Root].elements = 0
  BY DEF Init, Paths, NewElement
<1>2. TreeTyped
  <2>1. tree \in [Paths -> Element]
    BY <1>1 DEF Init, NewElement, Element
  <2> QED  BY <1>1, <2>1 DEF TreeTyped, Path, Root
<1>3. NextIsFree
  <2>1. \A p \in Path, k \in Nat : Append(p, k) # Root
    BY AppendProperties DEF Path, Root
  <2> QED  BY <1>1, <2>1 DEF NextIsFree
<1>4. PointersTyped  BY <1>1 DEF Init, PointersTyped
<1>5. Way[1] = Root /\ WayIsPath  BY DEF Init, Way, WayIsPath
<1> QED  BY <1>2, <1>3, <1>4, <1>5 DEF ParserInv

(* One case per token.                                                     *)
LEMMA StepParserInv == ParserInv /\ [Next]_vars => ParserInv'
<1> SUFFICES ASSUME ParserInv, [Next]_vars PROVE ParserInv'
  OBVIOUS
<1> USE DEF Paths
<1>1. ASSUME NEW n \in Names, Name(n) PROVE ParserInv'
  <2>1. /\ Paths' = Paths /\ UNCHANGED <<type, open>>
        /\ tree' = [tree EXCEPT ![type].meta = getTypeMeta(n), ![type].name = n]
    BY <1>1 DEF Name, ParserInv, TreeTyped
  <2>2. getTypeMeta(n) \in Metas  BY DEF getTypeMeta, Metas
  <2>3. type \in Paths /\ tree \in [Paths -> Element]
    BY DEF ParserInv, TreeTyped, PointersTyped
  <2>4. \A p \in Paths : tree'[p] =
          IF p = type THEN [tree[type] EXCEPT !.meta = getTypeMeta(n), !.name = n] ELSE tree[p]
    BY <2>1, <2>3
  <2>5. tree[type] \in Element  BY <2>3
  <2> DEFINE e == [tree[type] EXCEPT !.meta = getTypeMeta(n), !.name = n]
  <2>6. e \in Element /\ e.elements = tree[type].elements
    BY <2>2, <2>5, Named
  <2> HIDE DEF e
  <2>7. \A p \in Paths : tree'[p] \in Element /\ tree'[p].elements = tree[p].elements
    BY <2>3, <2>4, <2>6 DEF e
  <2>8. tree' \in [Paths -> Element]
    BY <2>1, <2>3, <2>7
  <2> HIDE DEF Paths
  <2> QED  BY <2>1, <2>7, <2>8, TreeStays
<1>2. ASSUME NEW n \in Sizes, Number(n) PROVE ParserInv'
  <2>1. /\ Paths' = Paths /\ UNCHANGED <<type, open>>
        /\ tree' = [tree EXCEPT ![type].meta = "Number", ![type].size = n]
    BY <1>2 DEF Number, ParserInv, TreeTyped
  <2>2. "Number" \in Metas  BY DEF Metas
  <2>3. type \in Paths /\ tree \in [Paths -> Element]
    BY DEF ParserInv, TreeTyped, PointersTyped
  <2>4. \A p \in Paths : tree'[p] =
          IF p = type THEN [tree[type] EXCEPT !.meta = "Number", !.size = n] ELSE tree[p]
    BY <2>1, <2>3
  <2>5. tree[type] \in Element  BY <2>3
  <2> DEFINE e == [tree[type] EXCEPT !.meta = "Number", !.size = n]
  <2>6. e \in Element /\ e.elements = tree[type].elements
    BY <2>2, <2>5, Sized
  <2> HIDE DEF e
  <2>7. \A p \in Paths : tree'[p] \in Element /\ tree'[p].elements = tree[p].elements
    BY <2>3, <2>4, <2>6 DEF e
  <2>8. tree' \in [Paths -> Element]
    BY <2>1, <2>3, <2>7
  <2> HIDE DEF Paths
  <2> QED  BY <2>1, <2>7, <2>8, TreeStays
<1>3. CASE LPar
  <2>1. Grown(type)
    BY <1>3, TreeGrows DEF LPar, ParserInv, PointersTyped
  <2>2. type' = NextElement(type) /\ open' = Append(open, type)
    BY <1>3 DEF LPar
  <2>3. PointersTyped'
    BY <2>1, <2>2 DEF Grown, ParserInv, PointersTyped
  <2>4. Len(open') = Len(open) + 1 /\ Way'[Len(open) + 2] = type'
    BY <2>2 DEF ParserInv, PointersTyped, Way
  <2>5. \A i \in 1 .. Len(open) + 1 : Way'[i] = Way[i] /\ Way[i] \in Paths
    BY <2>2 DEF ParserInv, PointersTyped, Way
  <2>6. Way[Len(open) + 1] = type
    BY DEF ParserInv, PointersTyped, Way
  <2>7. ASSUME NEW i \in 1..Len(open')
        PROVE  Below(tree', Way'[i + 1], Way'[i]) \/ (i = 1 /\ Way'[i + 1] = Root)
    <3>1. CASE i = Len(open) + 1
      BY <2>1, <2>2, <2>4, <2>5, <2>6, <3>1 DEF Grown, ParserInv, PointersTyped
    <3>2. CASE i \in 1..Len(open)
      <4>1. Way'[i] = Way[i] /\ Way'[i + 1] = Way[i + 1] /\ Way[i] \in Paths /\ Way[i + 1] \in Paths
        BY <2>5, <3>2
      <4>2. Way[i + 1] \in Path  BY <4>1 DEF ParserInv, TreeTyped
      <4>3. Below(tree, Way[i + 1], Way[i]) \/ (i = 1 /\ Way[i + 1] = Root)
        BY <3>2 DEF ParserInv, WayIsPath
      <4>4. Below(tree, Way[i + 1], Way[i]) => Below(tree', Way'[i + 1], Way'[i])
        BY <2>1, <4>1, <4>2 DEF Grown
      <4> QED  BY <4>1, <4>3, <4>4
    <3> QED  BY <2>4, <3>1, <3>2 DEF ParserInv, PointersTyped
  <2> QED  BY <2>1, <2>3, <2>5, <2>7 DEF Grown, ParserInv, WayIsPath, PointersTyped
<1>4. CASE RPar
  <2>1. open # <<>> /\ type' = open[Len(open)] /\ open' = SubSeq(open, 1, Len(open) - 1) /\ tree' = tree
    BY <1>4 DEF RPar, Top, Popped
  <2>2. open' \in Seq(Paths) /\ Len(open') = Len(open) - 1 /\ Len(open) \in Nat \ {0}
    <3>1. open \in Seq(Paths)  BY DEF ParserInv, PointersTyped
    <3>2. Len(open) \in Nat \ {0}  BY <2>1, <3>1, EmptySeq
    <3>3. \A i \in 1 .. Len(open) - 1 : open[i] \in Paths  BY <3>1, <3>2, ElementOfSeq
    <3> DEFINE n == Len(open) - 1
    <3>4. n \in Nat /\ open' = SubSeq(open, 1, n)  BY <2>1, <3>2
    <3>5. \A i \in 1..n : open[i] \in Paths  BY <3>3
    <3> HIDE DEF n
    <3>6. open' \in Seq(Paths) /\ Len(open') = IF 1 <= n THEN n - 1 + 1 ELSE 0
      BY <3>4, <3>5, SubSeqProperties
    <3>7. Len(open') = n  BY <3>4, <3>6
    <3> QED  BY <3>2, <3>6, <3>7 DEF n
  <2>3. PointersTyped'
    BY <2>1, <2>2 DEF ParserInv, PointersTyped
  <2>4. \A i \in 1..Len(open) : Way'[i] = Way[i] /\ Way[i] \in Paths
    BY <2>1, <2>2 DEF ParserInv, PointersTyped, Way
  <2>5. ASSUME NEW i \in 1..Len(open')
        PROVE  Below(tree', Way'[i + 1], Way'[i]) \/ (i = 1 /\ Way'[i + 1] = Root)
    <3>1. i \in 1..Len(open) /\ i + 1 \in 1..Len(open)  BY <2>2
    <3>2. Way'[i] = Way[i] /\ Way'[i + 1] = Way[i + 1]  BY <2>4, <3>1
    <3>3. Below(tree, Way[i + 1], Way[i]) \/ (i = 1 /\ Way[i + 1] = Root)
      BY <3>1 DEF ParserInv, WayIsPath
    <3> QED  BY <2>1, <3>2, <3>3
  <2>6. WayIsPath'  BY <2>5 DEF WayIsPath
  <2>7. Way'[1] = Root  BY <2>2, <2>4 DEF ParserInv
  <2> QED  BY <2>1, <2>3, <2>6, <2>7 DEF ParserInv, TreeTyped, NextIsFree
<1>5. CASE Comma
  <2>1. open # <<>> /\ Len(open) \in Nat \ {0} /\ Top \in Paths
    BY <1>5 DEF Comma, ParserInv, PointersTyped, Top
  <2>2. type' = NextElement(Top) /\ open' = open
    BY <1>5 DEF Comma
  <2>3. Grown(Top)
    BY <1>5, <2>1, TreeGrows DEF Comma, ParserInv
  <2>4. PointersTyped'
    BY <2>2, <2>3 DEF Grown, ParserInv, PointersTyped
  <2>5. Way'[Len(open) + 1] = type' /\ Way[Len(open)] = Top
    BY <2>1, <2>2 DEF ParserInv, PointersTyped, Way, Top
  <2>6. \A i \in 1..Len(open) : Way'[i] = Way[i] /\ Way[i] \in Paths
    BY <2>1, <2>2 DEF ParserInv, PointersTyped, Way
  <2>7. ASSUME NEW i \in 1..Len(open')
        PROVE  Below(tree', Way'[i + 1], Way'[i]) \/ (i = 1 /\ Way'[i + 1] = Root)
    <3>1. CASE i = Len(open)
      BY <2>1, <2>2, <2>3, <2>5, <2>6, <3>1 DEF Grown
    <3>2. CASE i \in 1 .. Len(open) - 1
      <4>1. Way'[i] = Way[i] /\ Way'[i + 1] = Way[i + 1] /\ Way[i] \in Paths /\ Way[i + 1] \in Paths
        BY <2>1, <2>6, <3>2
      <4>2. Way[i + 1] \in Path  BY <4>1 DEF ParserInv, TreeTyped
      <4>3. Below(tree, Way[i + 1], Way[i]) \/ (i = 1 /\ Way[i + 1] = Root)
        BY <2>1, <3>2 DEF ParserInv, WayIsPath
      <4>4. Below(tree, Way[i + 1], Way[i]) => Below(tree', Way'[i + 1], Way'[i])
        BY <2>3, <4>1, <4>2 DEF Grown
      <4> QED  BY <4>1, <4>3, <4>4
    <3> QED  BY <2>1, <2>2, <3>1, <3>2
  <2> QED  BY <2>1, <2>3, <2>4, <2>6, <2>7 DEF Grown, ParserInv, WayIsPath
<1>6. CASE UNCHANGED <<tree, type, open>>
  BY <1>6, TreeStays DEF ParserInv, TreeTyped
<1> QED
  BY <1>1, <1>2, <1>3, <1>4, <1>5, <1>6
  DEF Next, Underflow, Accept, Reject, AssignTypeInfo, vars

(* The open elements and the current one lead down from the root, for      *)
(* every text of any length, well-formed or not.                           *)
THEOREM PointersStayInTree == Spec => []StackIsPath
<1>1. ParserInv => StackIsPath  BY InvImpliesStackIsPath
<1> QED  BY InitParserInv, StepParserInv, <1>1, PTL DEF Spec

-----------------------------------------------------------------------------
(* How the stack follows the parentheses, and what is known of an element  *)
(* from the tokens alone.                                                  *)

(* Count over any sequence of tokens.                                      *)
CountIn(s, t, n) == Cardinality({i \in 1..n : s[i].type = t})

(* The stack has one element more than there are open parentheses; it can  *)
(* be empty only behind a parenthesis that was never opened.               *)
StackInv ==
  /\ input \in Seq(Token)
  /\ Len(input) <= MaxTokens
  /\ phase = "parsing" =>
       Len(open) + CountIn(input, "RPar", Len(input)) = 1 + CountIn(input, "LPar", Len(input))
  /\ phase = "underflow" => ~Balanced

(* A token more changes no earlier count.                                  *)
LEMMA CountGrows ==
  ASSUME input \in Seq(Token), NEW x \in Token, NEW t
  PROVE  LET more == Append(input, x)
             n    == Len(input)
         IN  /\ more \in Seq(Token) /\ Len(more) = n + 1
             /\ \A k \in 0..n : CountIn(input, t, k) \in Nat /\ CountIn(more, t, k) = CountIn(input, t, k)
             /\ CountIn(more, t, n + 1) = CountIn(input, t, n) + (IF x.type = t THEN 1 ELSE 0)
<1> DEFINE more == Append(input, x)
           n == Len(input)
           At(s, k) == {i \in 1..k : s[i].type = t}
<1>1. more \in Seq(Token) /\ Len(more) = n + 1 /\ n \in Nat /\ more[n + 1] = x
      /\ \A i \in 1..n : more[i] = input[i]
  BY AppendProperties
<1> HIDE DEF more, n
<1>2. ASSUME NEW k \in 0..n PROVE At(more, k) = At(input, k) /\ IsFiniteSet(At(input, k))
  <2>1. 1..k \subseteq 1..n  BY <1>1
  <2>2. IsFiniteSet(1..k)  BY <1>1, FS_Interval
  <2>3. At(input, k) \subseteq 1..k  OBVIOUS
  <2>4. IsFiniteSet(At(input, k))
    <3> HIDE DEF At
    <3> QED  BY <2>2, <2>3, FS_Subset
  <2> QED  BY <1>1, <2>1, <2>4
<1>3. \A k \in 0..n : CountIn(input, t, k) \in Nat /\ CountIn(more, t, k) = CountIn(input, t, k)
  <2>1. \A k \in 0..n : Cardinality(At(input, k)) \in Nat
    <3> HIDE DEF At
    <3> QED  BY <1>2, FS_CardinalityType
  <2> QED  BY <1>2, <2>1 DEF CountIn
<1>4. CASE x.type = t
  <2>1. At(more, n + 1) = At(input, n) \cup {n + 1}  BY <1>1, <1>4
  <2>2. n + 1 \notin At(input, n)  BY <1>1
  <2>3. n \in 0..n  BY <1>1
  <2>4. Cardinality(At(more, n + 1)) = Cardinality(At(input, n)) + 1
    <3> HIDE DEF At
    <3> QED  BY <1>2, <2>1, <2>2, <2>3, FS_AddElement
  <2> QED  BY <1>1, <1>3, <1>4, <2>4 DEF CountIn, more, n
<1>5. CASE x.type # t
  <2>1. At(more, n + 1) = At(input, n)  BY <1>1, <1>5
  <2>2. CountIn(input, t, n) \in Nat  BY <1>1, <1>3
  <2> QED  BY <1>1, <1>3, <1>5, <2>1, <2>2 DEF CountIn, more, n
<1> QED  BY <1>4, <1>5

(* Tokens are tokens.                                                      *)
LEMMA TokensTyped ==
  /\ \A n \in Names : [type |-> "Name", value |-> n] \in Token
  /\ \A n \in Sizes : [type |-> "Number", value |-> n] \in Token
  /\ \A t \in {"LPar", "RPar", "Comma"} : Punctuation(t) \in Token /\ Punctuation(t).type = t
BY DEF Token, Punctuation

(* No token has been read, and the root stands on the stack.               *)
LEMMA InitStackInv == Init => StackInv
<1> SUFFICES ASSUME Init PROVE StackInv
  OBVIOUS
<1>1. input \in Seq(Token) /\ Len(input) = 0 /\ Len(open) = 1 /\ phase = "parsing"
  BY DEF Init
<1>2. \A t : CountIn(input, t, 0) = 0
  <2>1. \A t : {i \in 1..0 : input[i].type = t} = {}  OBVIOUS
  <2> QED  BY <2>1, FS_EmptySet DEF CountIn
<1> QED  BY <1>1, <1>2, TypeParserAssumption DEF StackInv

(* One case per kind of token.                                             *)
LEMMA StepStackInv == ParserInv /\ StackInv /\ [Next]_vars => StackInv'
<1> SUFFICES ASSUME ParserInv, StackInv, [Next]_vars PROVE StackInv'
  OBVIOUS
<1> DEFINE n == Len(input)
           L == CountIn(input, "LPar", n)
           R == CountIn(input, "RPar", n)
<1>1. open \in Seq(Paths) /\ Len(open) \in Nat /\ n \in Nat /\ input \in Seq(Token)
  BY DEF ParserInv, PointersTyped, StackInv
<1>2. ASSUME NEW x \in Token, Consume(x)
      PROVE  /\ phase = "parsing" /\ input' \in Seq(Token) /\ Len(input') = n + 1
             /\ n + 1 <= MaxTokens /\ L \in Nat /\ R \in Nat /\ Len(open) + R = 1 + L
             /\ CountIn(input', "LPar", n + 1) = L + (IF x.type = "LPar" THEN 1 ELSE 0)
             /\ CountIn(input', "RPar", n + 1) = R + (IF x.type = "RPar" THEN 1 ELSE 0)
             /\ \A k \in 0..n : /\ CountIn(input', "LPar", k) = CountIn(input, "LPar", k)
                                /\ CountIn(input', "RPar", k) = CountIn(input, "RPar", k)
  <2>1. input' = Append(input, x) /\ phase = "parsing" /\ n < MaxTokens
    BY <1>2 DEF Consume
  <2>2. n + 1 <= MaxTokens  BY <1>1, <2>1, TypeParserAssumption
  <2>3. n \in 0..n  BY <1>1
  <2>4. L \in Nat /\ R \in Nat /\ Len(open) + R = 1 + L
    BY <1>1, <2>1, <2>3, CountGrows DEF StackInv
  <2> QED  BY <1>1, <2>1, <2>2, <2>4, CountGrows
<1> HIDE DEF L, R, n
<1>3. ASSUME NEW x \in Token, Consume(x), phase' = phase,
             Len(open') = Len(open) + (IF x.type = "LPar" THEN 1 ELSE 0)
                                    - (IF x.type = "RPar" THEN 1 ELSE 0)
      PROVE  StackInv'
  <2>1. phase' = "parsing" /\ n + 1 \in Nat  BY <1>1, <1>2, <1>3
  <2>2. Len(open') + CountIn(input', "RPar", n + 1) = 1 + CountIn(input', "LPar", n + 1)
    <3>1. CASE x.type = "LPar"
      <4>1. x.type # "RPar"  BY <3>1
      <4>2. Len(open') = Len(open) + 1 /\ CountIn(input', "LPar", n + 1) = L + 1
            /\ CountIn(input', "RPar", n + 1) = R
        BY <1>1, <1>2, <1>3, <3>1, <4>1
      <4>3. Len(open) \in Nat /\ L \in Nat /\ R \in Nat /\ Len(open) + R = 1 + L
        BY <1>1, <1>2, <1>3
      <4> QED  BY <4>2, <4>3
    <3>2. CASE x.type = "RPar"  BY <1>1, <1>2, <1>3, <3>2
    <3>3. CASE x.type # "LPar" /\ x.type # "RPar"  BY <1>1, <1>2, <1>3, <3>3
    <3> QED  BY <3>1, <3>2, <3>3
  <2> QED  BY <1>2, <1>3, <2>1, <2>2 DEF StackInv
<1>4. ASSUME NEW m \in Names, Name(m) PROVE StackInv'
  <2> DEFINE x == [type |-> "Name", value |-> m]
  <2>1. x \in Token /\ x.type = "Name"  BY TokensTyped
  <2>2. Consume(x) /\ phase' = phase /\ open' = open  BY <1>4 DEF Name
  <2> HIDE DEF x
  <2> QED  BY <1>1, <1>3, <2>1, <2>2
<1>5. ASSUME NEW m \in Sizes, Number(m) PROVE StackInv'
  <2> DEFINE x == [type |-> "Number", value |-> m]
  <2>1. x \in Token /\ x.type = "Number"  BY TokensTyped
  <2>2. Consume(x) /\ phase' = phase /\ open' = open  BY <1>5 DEF Number
  <2> HIDE DEF x
  <2> QED  BY <1>1, <1>3, <2>1, <2>2
<1>6. CASE LPar
  <2>1. Consume(Punctuation("LPar")) /\ phase' = phase /\ Len(open') = Len(open) + 1
    BY <1>1, <1>6 DEF LPar, ParserInv, PointersTyped
  <2> QED  BY <1>1, <1>3, <2>1, TokensTyped
<1>7. CASE RPar
  <2>1. Consume(Punctuation("RPar")) /\ phase' = phase /\ open # <<>>
        /\ open' = SubSeq(open, 1, Len(open) - 1)
    BY <1>7 DEF RPar, Popped
  <2>2. Len(open) \in Nat \ {0}  BY <1>1, <2>1, EmptySeq
  <2>3. Len(open') = Len(open) - 1
    <3> DEFINE k == Len(open) - 1
    <3>1. k \in Nat /\ open' = SubSeq(open, 1, k) /\ \A i \in 1..k : open[i] \in Paths
      BY <1>1, <2>1, <2>2, ElementOfSeq
    <3> HIDE DEF k
    <3>2. Len(open') = IF 1 <= k THEN k - 1 + 1 ELSE 0
      BY <3>1, SubSeqProperties
    <3>3. Len(open') = k  BY <3>1, <3>2
    <3> QED  BY <3>3 DEF k
  <2>4. Len(open') = Len(open) + 0 - 1  BY <1>1, <2>3
  <2> QED  BY <1>1, <1>3, <2>1, <2>4, TokensTyped
<1>8. CASE Comma
  <2>1. Consume(Punctuation("Comma")) /\ phase' = phase /\ open' = open
    BY <1>8 DEF Comma
  <2> QED  BY <1>1, <1>3, <2>1, TokensTyped
<1>9. CASE Underflow
  <2>1. PICK t \in {"RPar", "Comma"} : Consume(Punctuation(t))
    BY <1>9 DEF Underflow
  <2>2. phase' = "underflow" /\ Len(open) = 0  BY <1>9 DEF Underflow
  <2>3. Punctuation(t) \in Token  BY TokensTyped
  <2>4. R = 1 + L /\ L \in Nat /\ R \in Nat  BY <1>2, <2>1, <2>2, <2>3
  <2>5. n # 0
    <3> SUFFICES ASSUME n = 0 PROVE FALSE
      OBVIOUS
    <3>1. {i \in 1..0 : input[i].type = "RPar"} = {}  OBVIOUS
    <3>2. R = 0  BY <3>1, FS_EmptySet DEF CountIn, R
    <3> QED  BY <2>4, <3>2
  <2>6. n \in 0..n /\ n \in 1..Len(input')  BY <1>1, <1>2, <2>1, <2>3, <2>5
  <2>7. CountIn(input', "RPar", n) = R /\ CountIn(input', "LPar", n) = L
    BY <1>2, <2>1, <2>3, <2>6 DEF R, L
  <2>8. ~(Balanced')
    <3>1. ~(R <= L)  BY <2>4
    <3> QED  BY <2>6, <2>7, <3>1 DEF Balanced, Count, CountIn
  <2> QED  BY <1>2, <2>1, <2>2, <2>3, <2>8 DEF StackInv
<1>10. CASE Accept \/ Reject \/ AssignTypeInfo
  <2>1. input' = input /\ phase' # "parsing" /\ phase' # "underflow"
    BY <1>10 DEF Accept, Reject, AssignTypeInfo
  <2> QED  BY <2>1 DEF StackInv
<1>11. CASE UNCHANGED vars
  BY <1>11 DEF vars, StackInv, Balanced, Count
<1> QED  BY <1>4, <1>5, <1>6, <1>7, <1>8, <1>9, <1>10, <1>11 DEF Next

-----------------------------------------------------------------------------
(* The name Nullable, and one of them that no parenthesis follows.         *)
LastIsNullable ==
  input # <<>> /\ input[Len(input)] = [type |-> "Name", value |-> "Nullable"]
Bare ==
  \E i \in 1 .. Len(input) - 1 :
    input[i].type = "Name" /\ input[i].value = "Nullable" /\ input[i + 1].type # "LPar"

(* What assignTypeInfo relies on: paths are no longer than the text, the   *)
(* elements that are counted exist, an element that is Nullable has some   *)
(* unless the text lacks a parenthesis, and the root of a text that begins *)
(* with a name has its meta.                                               *)
DepthInv == \A p \in Paths : Len(p) <= Len(input)
ElementsInv == \A p \in Paths : \A k \in 1..tree[p].elements : Append(p, k) \in Paths
NullableInv ==
  \A p \in Paths :
    tree[p].meta = "Nullable" /\ tree[p].elements = 0 => Bare \/ (p = type /\ LastIsNullable)
RootInv ==
  /\ input = <<>> => type = Root
  /\ input # <<>> /\ input[1].type = "Name" => tree[Root].meta # "unset"
MeaningInv == DepthInv /\ ElementsInv /\ NullableInv /\ RootInv

(* A token more.                                                           *)
LEMMA TokenRead ==
  ASSUME input \in Seq(Token), NEW x \in Token, input' = Append(input, x)
  PROVE  /\ Len(input') = Len(input) + 1 /\ Len(input) \in Nat
         /\ input' # <<>>
         /\ input'[1] = IF input = <<>> THEN x ELSE input[1]
         /\ Bare => Bare'
         /\ LastIsNullable /\ x.type # "LPar" => Bare'
         /\ x = [type |-> "Name", value |-> "Nullable"] => LastIsNullable'
<1> DEFINE n == Len(input)
<1>1. /\ Len(input') = n + 1 /\ n \in Nat /\ input'[n + 1] = x
      /\ \A i \in 1..n : input'[i] = input[i]
  BY AppendProperties
<1>2. input' # <<>>
  BY <1>1
<1>3. n = 0 <=> input = <<>>
  BY EmptySeq
<1> HIDE DEF n
<1>4. input'[1] = IF input = <<>> THEN x ELSE input[1]
  BY <1>1, <1>3
<1>5. Bare => Bare'
  BY <1>1 DEF Bare, n
<1>6. LastIsNullable /\ x.type # "LPar" => Bare'
  <2> SUFFICES ASSUME LastIsNullable, x.type # "LPar" PROVE Bare'
    OBVIOUS
  <2>1. n \in 1..n  BY <1>1, <1>3 DEF LastIsNullable
  <2>2. input'[n].type = "Name" /\ input'[n].value = "Nullable" /\ input'[n + 1].type # "LPar"
    BY <1>1, <2>1 DEF LastIsNullable, n
  <2>3. n \in 1 .. Len(input') - 1  BY <1>1, <2>1
  <2> QED  BY <2>2, <2>3 DEF Bare
<1>7. x = [type |-> "Name", value |-> "Nullable"] => LastIsNullable'
  BY <1>1, <1>2 DEF LastIsNullable
<1> QED  BY <1>1, <1>2, <1>4, <1>5, <1>6, <1>7 DEF n

(* Name and Number give the element that is parsed another meta.           *)
LEMMA ElementIsSet ==
  ASSUME ParserInv, StackInv, MeaningInv, NEW x \in Token, input' = Append(input, x),
         x.type # "LPar", UNCHANGED <<type, open>>, Paths' = Paths,
         \A p \in Paths : tree'[p].elements = tree[p].elements,
         \A p \in Paths \ {type} : tree'[p].meta = tree[p].meta,
         tree'[type].meta # "unset",
         tree'[type].meta = "Nullable" => x = [type |-> "Name", value |-> "Nullable"]
  PROVE  MeaningInv'
<1>1. type \in Paths /\ Root \in Paths /\ \A p \in Paths : Len(p) \in Nat
  BY DEF ParserInv, PointersTyped, TreeTyped, Path
<1>2. input \in Seq(Token)
  BY DEF StackInv
<1>3. Len(input') = Len(input) + 1 /\ Len(input) \in Nat
  BY <1>2, TokenRead
<1>4. DepthInv'
  BY <1>1, <1>3 DEF MeaningInv, DepthInv
<1>5. ElementsInv'
  BY DEF MeaningInv, ElementsInv
<1>6. NullableInv'
  <2>1. Bare \/ LastIsNullable => Bare'
    BY <1>2, TokenRead
  <2>2. tree'[type].meta = "Nullable" => LastIsNullable'
    BY <1>2, TokenRead
  <2>3. \A p \in Paths \ {type} :
          tree'[p].meta = "Nullable" /\ tree'[p].elements = 0 => Bare'
    BY <2>1 DEF MeaningInv, NullableInv
  <2> QED  BY <2>2, <2>3 DEF NullableInv
<1>7. RootInv'
  <2>1. input' # <<>> /\ input'[1] = IF input = <<>> THEN x ELSE input[1]
    BY <1>2, TokenRead
  <2>2. CASE type = Root
    BY <2>1, <2>2 DEF RootInv
  <2>3. CASE type # Root
    BY <1>1, <2>1, <2>3 DEF MeaningInv, RootInv
  <2> QED  BY <2>2, <2>3
<1> QED  BY <1>4, <1>5, <1>6, <1>7 DEF MeaningInv

(* LPar and Comma append an element to q.                                  *)
LEMMA ElementIsAppended ==
  ASSUME ParserInv, StackInv, MeaningInv, NEW x \in Token, input' = Append(input, x),
         x.type # "Name", NEW q \in Paths, tree' = EmplaceBack(q),
         x.type = "LPar" => q = type
  PROVE  MeaningInv'
<1> DEFINE e == NextElement(q)
           n == tree[q].elements
<1>1. q \in Path /\ n \in Nat /\ e = Append(q, n + 1) /\ e \in Path /\ Len(e) = Len(q) + 1
      /\ Len(q) \in Nat
  <2>1. q \in Path /\ n \in Nat  BY DEF ParserInv, TreeTyped, Element
  <2>2. Append(q, n + 1) \in Path /\ Len(Append(q, n + 1)) = Len(q) + 1
    BY <2>1, AppendProperties DEF Path
  <2> QED  BY <2>1, <2>2 DEF NextElement, Path
<1>2. e \notin Paths
  <2> SUFFICES ASSUME e \in Paths PROVE FALSE
    OBVIOUS
  <2>1. n + 1 <= n  BY <1>1 DEF ParserInv, NextIsFree
  <2> QED  BY <1>1, <2>1
<1>3. Paths' = Paths \cup {e}
  BY DEF EmplaceBack, Paths
<1>4. \A p \in Paths : p # q => tree'[p] = tree[p]
  BY <1>2 DEF EmplaceBack, Paths
<1>5. tree'[q].elements = n + 1 /\ tree'[q].meta = tree[q].meta
  BY <1>2 DEF EmplaceBack, Paths, ParserInv, TreeTyped, Element
<1>6. tree'[e].elements = 0 /\ tree'[e].meta = "Array"
  BY <1>2 DEF EmplaceBack, Paths, NewElement
<1> HIDE DEF e, n
<1>7. input \in Seq(Token)
  BY DEF StackInv
<1>8. Len(input') = Len(input) + 1 /\ Len(input) \in Nat
  BY <1>7, TokenRead
<1>9. DepthInv'
  <2>1. \A p \in Paths : Len(p) \in Nat /\ Len(p) <= Len(input)
    BY DEF MeaningInv, DepthInv, ParserInv, TreeTyped, Path
  <2>2. Len(e) <= Len(input) + 1
    BY <1>1, <1>8, <2>1
  <2> QED  BY <1>3, <1>8, <2>1, <2>2 DEF DepthInv
<1>10. ElementsInv'
  <2> SUFFICES ASSUME NEW p \in Paths', NEW k \in 1..tree'[p].elements
               PROVE  Append(p, k) \in Paths'
    BY DEF ElementsInv
  <2>1. CASE p = e
    BY <1>6, <2>1
  <2>2. CASE p = q /\ k = n + 1
    BY <1>1, <1>3, <2>2
  <2>3. CASE p = q /\ k # n + 1
    <3>1. k \in 1..tree[q].elements  BY <1>1, <1>5, <2>3 DEF n
    <3> QED  BY <1>3, <2>3, <3>1 DEF MeaningInv, ElementsInv
  <2>4. CASE p # e /\ p # q
    BY <1>3, <1>4, <2>4 DEF MeaningInv, ElementsInv
  <2> QED  BY <2>1, <2>2, <2>3, <2>4
<1>11. NullableInv'
  <2> SUFFICES ASSUME NEW p \in Paths', tree'[p].meta = "Nullable", tree'[p].elements = 0
               PROVE  Bare'
    BY DEF NullableInv
  <2>1. p # e /\ p # q
    <3>1. n + 1 # 0  BY <1>1
    <3>2. p # q  BY <1>5, <3>1
    <3>3. p # e  BY <1>6
    <3> QED  BY <3>2, <3>3
  <2>2. p \in Paths /\ tree[p].meta = "Nullable" /\ tree[p].elements = 0
    BY <1>3, <1>4, <2>1
  <2>3. Bare \/ (p = type /\ LastIsNullable)
    BY <2>2 DEF MeaningInv, NullableInv
  <2>4. p = type => x.type # "LPar"
    BY <2>1
  <2> QED  BY <1>7, <2>3, <2>4, TokenRead
<1>12. RootInv'
  <2>1. Root \in Paths
    BY DEF ParserInv, TreeTyped
  <2>2. tree'[Root].meta = tree[Root].meta
    BY <1>4, <1>5, <2>1
  <2> QED  BY <1>7, <2>2, TokenRead DEF MeaningInv, RootInv
<1> QED  BY <1>9, <1>10, <1>11, <1>12 DEF MeaningInv

(* A token that leaves the tree alone.                                     *)
LEMMA TreeIsKept ==
  ASSUME ParserInv, StackInv, MeaningInv, NEW x \in Token, input' = Append(input, x),
         x.type \notin {"Name", "LPar"}, UNCHANGED tree
  PROVE  MeaningInv'
<1>1. \A p \in Paths : Len(p) \in Nat
  BY DEF ParserInv, TreeTyped, Path
<1>2. input \in Seq(Token)
  BY DEF StackInv
<1>3. Paths' = Paths
  BY DEF Paths
<1>4. DepthInv'
  BY <1>1, <1>2, <1>3, TokenRead DEF MeaningInv, DepthInv
<1>5. ElementsInv'
  BY <1>3 DEF MeaningInv, ElementsInv
<1>6. NullableInv'
  BY <1>2, <1>3, TokenRead DEF MeaningInv, NullableInv
<1>7. RootInv'
  BY <1>2, TokenRead DEF MeaningInv, RootInv
<1> QED  BY <1>4, <1>5, <1>6, <1>7 DEF MeaningInv

LEMMA InitMeaningInv == Init => MeaningInv
<1> SUFFICES ASSUME Init PROVE MeaningInv
  OBVIOUS
<1>1. Paths = {Root} /\ tree[Root].elements = 0 /\ tree[Root].meta = "unset"
      /\ input = <<>> /\ type = Root /\ Len(Root) = 0
  BY DEF Init, Paths, NewElement, Root
<1> QED  BY <1>1 DEF MeaningInv, DepthInv, ElementsInv, NullableInv, RootInv

(* One case per token.                                                     *)
LEMMA StepMeaningInv == ParserInv /\ StackInv /\ MeaningInv /\ [Next]_vars => MeaningInv'
<1> SUFFICES ASSUME ParserInv, StackInv, MeaningInv, [Next]_vars PROVE MeaningInv'
  OBVIOUS
<1>1. type \in Paths /\ tree \in [Paths -> Element] /\ open \in Seq(Paths)
  BY DEF ParserInv, TreeTyped, PointersTyped
<1>2. ASSUME NEW m \in Names, Name(m) PROVE MeaningInv'
  <2> DEFINE x == [type |-> "Name", value |-> m]
  <2>1. x \in Token /\ x.type # "LPar"  BY TokensTyped
  <2>2. input' = Append(input, x) /\ UNCHANGED <<type, open>>
        /\ tree' = [tree EXCEPT ![type].meta = getTypeMeta(m), ![type].name = m]
    BY <1>2 DEF Name, Consume
  <2>3. Paths' = Paths  BY <1>1, <2>2 DEF Paths
  <2>4. \A p \in Paths : tree'[p] =
          IF p = type THEN [tree[type] EXCEPT !.meta = getTypeMeta(m), !.name = m] ELSE tree[p]
    BY <1>1, <2>2
  <2>5. tree[type] \in Element  BY <1>1
  <2>6. tree'[type].elements = tree[type].elements /\ tree'[type].meta = getTypeMeta(m)
    BY <1>1, <2>4, <2>5 DEF Element
  <2>7. getTypeMeta(m) # "unset" /\ (getTypeMeta(m) = "Nullable" => m = "Nullable")
    BY DEF getTypeMeta, Known
  <2> HIDE DEF x
  <2>8. m = "Nullable" => x = [type |-> "Name", value |-> "Nullable"]  BY DEF x
  <2> QED  BY <2>1, <2>2, <2>3, <2>4, <2>6, <2>7, <2>8, ElementIsSet
<1>3. ASSUME NEW m \in Sizes, Number(m) PROVE MeaningInv'
  <2> DEFINE x == [type |-> "Number", value |-> m]
  <2>1. x \in Token /\ x.type # "LPar"  BY TokensTyped
  <2>2. input' = Append(input, x) /\ UNCHANGED <<type, open>>
        /\ tree' = [tree EXCEPT ![type].meta = "Number", ![type].size = m]
    BY <1>3 DEF Number, Consume
  <2>3. Paths' = Paths  BY <1>1, <2>2 DEF Paths
  <2>4. \A p \in Paths : tree'[p] =
          IF p = type THEN [tree[type] EXCEPT !.meta = "Number", !.size = m] ELSE tree[p]
    BY <1>1, <2>2
  <2>5. tree[type] \in Element  BY <1>1
  <2>6. tree'[type].elements = tree[type].elements /\ tree'[type].meta = "Number"
    BY <1>1, <2>4, <2>5 DEF Element
  <2> HIDE DEF x
  <2> QED  BY <2>1, <2>2, <2>3, <2>4, <2>6, ElementIsSet
<1>4. CASE LPar
  <2>1. input' = Append(input, Punctuation("LPar")) /\ tree' = EmplaceBack(type)
    BY <1>4 DEF LPar, Consume
  <2> QED  BY <1>1, <2>1, TokensTyped, ElementIsAppended
<1>5. CASE RPar
  <2>1. input' = Append(input, Punctuation("RPar")) /\ tree' = tree
    BY <1>5 DEF RPar, Consume
  <2> QED  BY <2>1, TokensTyped, TreeIsKept
<1>6. CASE Comma
  <2>1. input' = Append(input, Punctuation("Comma")) /\ tree' = EmplaceBack(Top) /\ open # <<>>
    BY <1>6 DEF Comma, Consume
  <2>2. Top \in Paths
    BY <1>1, <2>1, EmptySeq, ElementOfSeq DEF Top
  <2> QED  BY <2>1, <2>2, TokensTyped, ElementIsAppended
<1>7. CASE Underflow
  <2>1. PICK t \in {"RPar", "Comma"} : input' = Append(input, Punctuation(t)) /\ tree' = tree
    BY <1>7 DEF Underflow, Consume
  <2> QED  BY <2>1, TokensTyped, TreeIsKept
<1>8. CASE UNCHANGED <<input, tree, type>>
  BY <1>8 DEF MeaningInv, DepthInv, ElementsInv, NullableInv, RootInv, Paths, Bare, LastIsNullable
<1> QED
  BY <1>2, <1>3, <1>4, <1>5, <1>6, <1>7, <1>8
  DEF Next, Accept, Reject, AssignTypeInfo, vars

-----------------------------------------------------------------------------
(* A set of numbers that is not empty has a least one.                     *)
LEMMA LeastNumber ==
  ASSUME NEW T \in SUBSET Nat, T # {}
  PROVE  \E n \in T : \A m \in T : n <= m
<1> DEFINE U == {1..n : n \in T}
<1>1. U \subseteq FiniteSubsetsOf(Nat) /\ U # {}
  <2>1. \A n \in T : 1..n \in FiniteSubsetsOf(Nat)
    BY FS_Interval DEF FiniteSubsetsOf
  <2> QED
    BY <2>1
<1>2. IsWellFoundedOn(StrictSubsetOrdering(Nat), FiniteSubsetsOf(Nat))
  BY FS_StrictSubsetOrderingWellFounded
<1>3. PICK X \in U : \A Y \in U : ~ (<<Y, X>> \in StrictSubsetOrdering(Nat))
  <2> HIDE DEF U
  <2> QED
    BY <1>1, <1>2, WFMin
<1>4. PICK n \in T : X = 1..n
  OBVIOUS
<1>5. ASSUME NEW m \in T, m < n PROVE FALSE
  <2>1. 1..m \in U
    BY DEF U
  <2>2. 1..m \in SUBSET Nat /\ 1..n \in SUBSET Nat
    OBVIOUS
  <2>3. 1..m \subseteq 1..n /\ 1..m # 1..n
    <3>1. n \in 1..n /\ n \notin 1..m
      BY <1>5
    <3> QED
      BY <3>1, <1>5
  <2>4. <<1..m, 1..n>> \in StrictSubsetOrdering(Nat)
    BY <2>2, <2>3 DEF StrictSubsetOrdering
  <2> QED
    BY <2>4, <2>1, <1>3, <1>4
<1> QED
  BY <1>5

(* Below a root that is Nullable, the first elements lead to one at which  *)
(* assignTypeInfo stops; its CHOOSE finds it.                              *)
LEMMA DescentEnds ==
  ASSUME ParserInv, StackInv, MeaningInv, NEW Stops \in SUBSET Nat,
         \A k \in Nat : k \notin Stops => tree[First(k)].elements # 0
  PROVE  \E k \in 0..MaxTokens :
           First(k) \in Paths /\ k \in Stops /\ \A j \in 0 .. k - 1 : j \notin Stops
<1> USE TypeParserAssumption
<1> DEFINE U == {k \in Nat : First(k) \notin Paths \/ k \in Stops}
<1>1. \A k \in Nat : First(k) \in Seq({1}) /\ Len(First(k)) = k
  BY DEF First
<1>2. U # {}
  <2>1. First(MaxTokens + 1) \notin Paths
    <3> SUFFICES ASSUME First(MaxTokens + 1) \in Paths PROVE FALSE
      OBVIOUS
    <3>1. MaxTokens + 1 <= Len(input) /\ Len(input) <= MaxTokens
      BY <1>1 DEF MeaningInv, DepthInv, StackInv
    <3>2. Len(input) \in Nat  BY DEF StackInv
    <3> QED  BY <3>1, <3>2
  <2>2. MaxTokens + 1 \in U  BY <2>1
  <2> QED  BY <2>2
<1>3. PICK u \in U : \A v \in U : u <= v
  <2>1. U \in SUBSET Nat  OBVIOUS
  <2> HIDE DEF U
  <2> QED  BY <1>2, <2>1, LeastNumber
<1>4. u \in Nat /\ \A j \in 0 .. u - 1 : First(j) \in Paths /\ j \notin Stops
  <2>1. ASSUME NEW j \in 0 .. u - 1 PROVE j \notin U
    <3>1. j < u /\ j \in Nat  OBVIOUS
    <3> HIDE DEF U
    <3>2. u \in Nat  BY DEF U
    <3> QED  BY <1>3, <3>1, <3>2
  <2> QED  BY <2>1
<1>5. First(u) \in Paths
  <2>1. CASE u = 0
    <3>1. First(0) = Root  BY DEF First, Root
    <3> QED  BY <2>1, <3>1 DEF ParserInv, TreeTyped
  <2>2. CASE u # 0
    <3> DEFINE j == u - 1
    <3>1. j \in Nat /\ u = j + 1 /\ First(j) \in Paths /\ tree[First(j)].elements # 0
      BY <1>4, <2>2
    <3>2. tree[First(j)].elements \in Nat
      BY <3>1 DEF ParserInv, TreeTyped, Element
    <3>3. Append(First(j), 1) \in Paths
      BY <3>1, <3>2 DEF MeaningInv, ElementsInv
    <3>4. Append(First(j), 1) = First(j + 1)
      BY <3>1 DEF First
    <3> QED  BY <3>1, <3>3, <3>4
  <2> QED  BY <2>1, <2>2
<1>6. u \in 0..MaxTokens
  <2>1. u <= Len(input) /\ Len(input) <= MaxTokens /\ Len(input) \in Nat
    BY <1>1, <1>4, <1>5 DEF MeaningInv, DepthInv, StackInv
  <2> QED  BY <1>4, <2>1
<1> QED  BY <1>3, <1>4, <1>5, <1>6

(* No text that is well-formed is undefined.                               *)
LEMMA UndefinedIsIllFormed ==
  ASSUME ParserInv, StackInv, MeaningInv, AssignTypeInfo, phase' = "undefined"
  PROVE  ~(WellFormed /\ NullablesHaveArguments)
<1> SUFFICES ASSUME WellFormed, NullablesHaveArguments PROVE FALSE
  OBVIOUS
<1> USE TypeParserAssumption
<1>1. input \in Seq(Token) /\ Len(input) \in Nat /\ input # <<>> /\ input[1].type = "Name"
  BY DEF StackInv, WellFormed
<1>2. tree[Root].meta # "unset"
  BY <1>1 DEF MeaningInv, RootInv
<1>3. First(0) = Root
  BY DEF First, Root
<1> DEFINE MetaOf(k) == IF k = 0 THEN tree[Root].meta ELSE tree[First(k)].meta
           Ends(k) == MetaOf(k) # "Nullable" \/ tree[First(k)].elements = 0
           Found(k) == First(k) \in DOMAIN tree /\ Ends(k) /\ \A j \in 0 .. k - 1 : ~Ends(j)
           deepest == CHOOSE k \in 0..MaxTokens : Found(k)
<1>4. \E k \in 0..MaxTokens : Found(k)
  <2> DEFINE Stops == {k \in Nat : Ends(k)}
  <2>1. Stops \in SUBSET Nat /\ \A k \in Nat : k \notin Stops => tree[First(k)].elements # 0
    OBVIOUS
  <2> HIDE DEF Stops
  <2>2. PICK k \in 0..MaxTokens :
          First(k) \in Paths /\ k \in Stops /\ \A j \in 0 .. k - 1 : j \notin Stops
    BY <2>1, DescentEnds
  <2> USE DEF Stops
  <2>3. Ends(k) /\ \A j \in 0 .. k - 1 : ~Ends(j)
    BY <2>2
  <2> QED  BY <2>2, <2>3 DEF Paths
<1>5. deepest \in 0..MaxTokens /\ Found(deepest)
  <2> HIDE DEF Found
  <2> QED  BY <1>4
<1>6. MetaOf(deepest) = "Nullable"
  BY <1>2 DEF AssignTypeInfo
<1> HIDE DEF deepest
<1>7. tree[First(deepest)].meta = "Nullable" /\ tree[First(deepest)].elements = 0
      /\ First(deepest) \in Paths
  BY <1>3, <1>5, <1>6 DEF Paths
<1>8. Bare \/ LastIsNullable
  BY <1>7 DEF MeaningInv, NullableInv
<1>9. CASE Bare
  <2>1. PICK i \in 1 .. Len(input) - 1 :
          input[i].type = "Name" /\ input[i].value = "Nullable" /\ input[i + 1].type # "LPar"
    BY <1>9 DEF Bare
  <2> QED  BY <1>1, <2>1 DEF NullablesHaveArguments, Elements
<1>10. CASE LastIsNullable
  <2>1. Len(input) \in 1..Len(input)  BY <1>1, EmptySeq
  <2> QED  BY <1>1, <1>10, <2>1 DEF LastIsNullable, NullablesHaveArguments, Elements
<1> QED  BY <1>8, <1>9, <1>10

(* The parser takes from an empty stack only behind a parenthesis too      *)
(* many, and assignTypeInfo reads an element that is not there only for a  *)
(* type that is not well-formed or has a Nullable without parentheses, for *)
(* texts of any length.                                                    *)
THEOREM BalancedTypesAreDefined == Spec => []BalancedIsDefined
<1> DEFINE AllParts ==
      ParserInv /\ StackInv /\ MeaningInv
        /\ (phase = "undefined" => ~(WellFormed /\ NullablesHaveArguments))
<1>1. Init => AllParts
  <2>1. Init => phase # "undefined"  BY DEF Init
  <2> QED  BY <2>1, InitParserInv, InitStackInv, InitMeaningInv
<1>2. AllParts /\ [Next]_vars => AllParts'
  <2> SUFFICES ASSUME AllParts, [Next]_vars PROVE AllParts'
    OBVIOUS
  <2>1. ParserInv' /\ StackInv' /\ MeaningInv'
    BY StepParserInv, StepStackInv, StepMeaningInv
  <2>2. ASSUME phase' = "undefined" PROVE ~(WellFormed /\ NullablesHaveArguments)'
    <3>1. CASE AssignTypeInfo
      <4>1. ~(WellFormed /\ NullablesHaveArguments)
        BY <2>2, <3>1, UndefinedIsIllFormed
      <4>2. input' = input  BY <3>1 DEF AssignTypeInfo
      <4> QED  BY <4>1, <4>2 DEF WellFormed, NullablesHaveArguments, Elements, Balanced, Depth, Count
    <3>2. CASE UNCHANGED vars
      <4>1. input' = input /\ phase = "undefined"  BY <2>2, <3>2 DEF vars
      <4> QED  BY <4>1 DEF WellFormed, NullablesHaveArguments, Elements, Balanced, Depth, Count
    <3>3. CASE Next /\ ~AssignTypeInfo
      BY <2>2, <3>3 DEF Next, Name, Number, LPar, RPar, Comma, Underflow, Accept, Reject, Consume
    <3> QED  BY <3>1, <3>2, <3>3
  <2> QED  BY <2>1, <2>2
<1>3. AllParts => BalancedIsDefined
  BY DEF BalancedIsDefined, StackInv
<1> HIDE DEF AllParts
<1> QED  BY <1>1, <1>2, <1>3, PTL DEF Spec

-----------------------------------------------------------------------------
(* The tree of a well-formed type. What TypeParser reads off the tokens,   *)
(* for any sequence of tokens.                                             *)
ElementsOf(s)    == {i \in 1..Len(s) : s[i].type \in {"Name", "Number"}}
DepthAt(s, i)    == CountIn(s, "LPar", i) - CountIn(s, "RPar", i)
IsParent(s, j, i) ==
  /\ j < i /\ DepthAt(s, j) = DepthAt(s, i) - 1
  /\ \A k \in ElementsOf(s) : k < i /\ DepthAt(s, k) = DepthAt(s, i) - 1 => k <= j
Siblings(s, j, i) == {k \in ElementsOf(s) : j < k /\ k <= i /\ DepthAt(s, k) = DepthAt(s, i)}

(* What a well-formed type may begin with.                                 *)
Followers == [Name   |-> {"LPar", "RPar", "Comma"}, Number |-> {"RPar", "Comma"},
              LPar   |-> {"Name", "Number"},        Comma  |-> {"Name", "Number"},
              RPar   |-> {"RPar", "Comma"}]
Begins(s) ==
  /\ \A i \in 1 .. Len(s) - 1 : s[i + 1].type \in Followers[s[i].type]
  /\ s # <<>> => s[1].type = "Name"
  /\ \A i \in 1..Len(s) : DepthAt(s, i) >= 0
  /\ \A i \in 2..Len(s) : DepthAt(s, i) > 0 \/ (i = Len(s) /\ s[i].type = "RPar")

(* How a token changes the depth.                                          *)
Opening(x) == IF x.type = "LPar" THEN 1 ELSE IF x.type = "RPar" THEN -1 ELSE 0

LEMMA CountNext ==
  ASSUME NEW s \in Seq(Token), NEW t, NEW n \in 1..Len(s)
  PROVE  /\ CountIn(s, t, n - 1) \in Nat
         /\ CountIn(s, t, n) = CountIn(s, t, n - 1) + (IF s[n].type = t THEN 1 ELSE 0)
<1> DEFINE At(k) == {i \in 1..k : s[i].type = t}
<1>1. IsFiniteSet(At(n - 1)) /\ n \notin At(n - 1)
  <2>1. IsFiniteSet(1 .. n - 1) /\ At(n - 1) \subseteq 1 .. n - 1
    BY FS_Interval
  <2>2. n \notin At(n - 1)
    OBVIOUS
  <2> HIDE DEF At
  <2> QED  BY <2>1, <2>2, FS_Subset
<1>2. At(n) = IF s[n].type = t THEN At(n - 1) \cup {n} ELSE At(n - 1)
  OBVIOUS
<1>3. CountIn(s, t, n) = Cardinality(At(n)) /\ CountIn(s, t, n - 1) = Cardinality(At(n - 1))
  BY DEF CountIn
<1> HIDE DEF At
<1>4. Cardinality(At(n - 1)) \in Nat
  BY <1>1, FS_CardinalityType
<1>5. Cardinality(At(n - 1) \cup {n}) = Cardinality(At(n - 1)) + 1
  BY <1>1, FS_AddElement
<1> QED  BY <1>2, <1>3, <1>4, <1>5

LEMMA DepthNext ==
  ASSUME NEW s \in Seq(Token)
  PROVE  /\ DepthAt(s, 0) = 0
         /\ \A i \in 0..Len(s) : DepthAt(s, i) \in Int
         /\ \A i \in 1..Len(s) : DepthAt(s, i) = DepthAt(s, i - 1) + Opening(s[i])
<1>1. \A t : CountIn(s, t, 0) = 0
  <2>1. \A t : {i \in 1..0 : s[i].type = t} = {}  OBVIOUS
  <2> QED  BY <2>1, FS_EmptySet DEF CountIn
<1>2. \A t : \A i \in 1..Len(s) :
        /\ CountIn(s, t, i - 1) \in Nat
        /\ CountIn(s, t, i) = CountIn(s, t, i - 1) + (IF s[i].type = t THEN 1 ELSE 0)
  BY CountNext
<1>3. DepthAt(s, 0) = 0
  BY <1>1 DEF DepthAt
<1>4. ASSUME NEW i \in 1..Len(s)
      PROVE  DepthAt(s, i) \in Int /\ DepthAt(s, i) = DepthAt(s, i - 1) + Opening(s[i])
  <2>1. s[i].type = "LPar" => s[i].type # "RPar"  OBVIOUS
  <2> QED  BY <1>2, <2>1 DEF DepthAt, Opening
<1> QED  BY <1>3, <1>4

(* A token more changes nothing of what the others mean.                   *)
Reads(x) ==
  LET n == Len(input)
  IN  /\ n \in Nat /\ input \in Seq(Token)
      /\ input' \in Seq(Token) /\ Len(input') = n + 1 /\ input'[n + 1] = x
      /\ \A i \in 1..n : input'[i] = input[i]
      /\ \A i \in 0..n : DepthAt(input, i) \in Int /\ DepthAt(input', i) = DepthAt(input, i)
      /\ DepthAt(input', n + 1) = DepthAt(input, n) + Opening(x)
      /\ DepthAt(input, 0) = 0
      /\ ElementsOf(input') =
           ElementsOf(input) \cup (IF x.type \in {"Name", "Number"} THEN {n + 1} ELSE {})

LEMMA TokenReads ==
  ASSUME input \in Seq(Token), NEW x \in Token, input' = Append(input, x)
  PROVE  Reads(x)
<1> DEFINE n == Len(input)
<1>1. /\ n \in Nat /\ input' \in Seq(Token) /\ Len(input') = n + 1 /\ input'[n + 1] = x
      /\ \A i \in 1..n : input'[i] = input[i]
  BY AppendProperties
<1>2. \A i \in 0..n : DepthAt(input', i) = DepthAt(input, i)
  <2>1. \A t : \A k \in 0..n : CountIn(input', t, k) = CountIn(input, t, k)
    BY CountGrows
  <2> QED  BY <2>1 DEF DepthAt
<1>3. DepthAt(input', n + 1) = DepthAt(input', n) + Opening(x)
  <2>1. n + 1 \in 1..Len(input') /\ (n + 1) - 1 = n  BY <1>1
  <2> HIDE DEF n
  <2> QED  BY <1>1, <2>1, DepthNext
<1>4. ElementsOf(input') =
        ElementsOf(input) \cup (IF x.type \in {"Name", "Number"} THEN {n + 1} ELSE {})
  BY <1>1 DEF ElementsOf
<1> QED  BY <1>1, <1>2, <1>3, <1>4, DepthNext DEF Reads

LEMMA PrefixBegins ==
  ASSUME NEW x \in Token, Reads(x), Begins(input')
  PROVE  /\ Begins(input)
         /\ input = <<>> => x.type = "Name"
         /\ input # <<>> => /\ Len(input) \in 1..Len(input)
                            /\ x.type \in Followers[input[Len(input)].type]
                            /\ input[Len(input)].type = "RPar" => Len(input) > 1
                            /\ DepthAt(input, Len(input)) + Opening(x) >= 0
                            /\ x.type # "RPar" => DepthAt(input, Len(input)) + Opening(x) > 0
<1> DEFINE n == Len(input)
<1>1. /\ n \in Nat /\ Len(input') = n + 1 /\ input'[n + 1] = x
      /\ \A i \in 1..n : input'[i] = input[i] /\ DepthAt(input', i) = DepthAt(input, i)
                         /\ DepthAt(input, i) \in Int
      /\ DepthAt(input', n + 1) = DepthAt(input, n) + Opening(x)
  BY DEF Reads
<1>2. n = 0 <=> input = <<>>
  BY EmptySeq DEF Reads
<1>3. input' # <<>>
  BY <1>1
<1>4. /\ \A i \in 1..n : input'[i + 1].type \in Followers[input'[i].type]
      /\ input'[1].type = "Name"
      /\ \A i \in 1 .. n + 1 : DepthAt(input', i) >= 0
      /\ \A i \in 2 .. n + 1 : DepthAt(input', i) > 0 \/ (i = n + 1 /\ input'[i].type = "RPar")
  BY <1>1, <1>3 DEF Begins
<1> HIDE DEF n
<1>6. input # <<>> => input[1].type = "Name"
  BY <1>1, <1>2, <1>4
<1>5. Begins(input)
  <2>1. \A i \in 1 .. n - 1 : input[i + 1].type \in Followers[input[i].type]
    <3> SUFFICES ASSUME NEW i \in 1 .. n - 1
                 PROVE  input[i + 1].type \in Followers[input[i].type]
      OBVIOUS
    <3>1. i \in 1..n /\ i + 1 \in 1..n  BY <1>1
    <3> QED  BY <1>1, <1>4, <3>1
  <2>2. \A i \in 1..n : DepthAt(input, i) >= 0
    <3> SUFFICES ASSUME NEW i \in 1..n PROVE DepthAt(input, i) >= 0
      OBVIOUS
    <3>1. i \in 1 .. n + 1  BY <1>1
    <3> QED  BY <1>1, <1>4, <3>1
  <2>3. \A i \in 2..n : DepthAt(input, i) > 0
    <3> SUFFICES ASSUME NEW i \in 2..n PROVE DepthAt(input, i) > 0
      OBVIOUS
    <3>1. i \in 2 .. n + 1 /\ i \in 1..n /\ i # n + 1  BY <1>1
    <3> QED  BY <1>1, <1>4, <3>1
  <2> QED  BY <1>6, <2>1, <2>2, <2>3 DEF Begins, n
<1>7. CASE input = <<>>
  BY <1>1, <1>2, <1>4, <1>5, <1>7
<1>8. CASE input # <<>>
  <2>1. n \in 1..n /\ n + 1 \in 2 .. n + 1 /\ n + 1 \in 1 .. n + 1  BY <1>1, <1>2, <1>8
  <2>2. input[n].type = "RPar" => n > 1
    <3>1. n # 1 => n > 1  BY <2>1
    <3> QED  BY <1>6, <1>8, <3>1
  <2>3. x.type \in Followers[input[n].type]  BY <1>1, <1>4, <2>1
  <2>4. DepthAt(input, n) + Opening(x) >= 0  BY <1>1, <1>4, <2>1
  <2>5. x.type # "RPar" => DepthAt(input, n) + Opening(x) > 0  BY <1>1, <1>4, <2>1
  <2> QED  BY <1>5, <1>8, <2>1, <2>2, <2>3, <2>4, <2>5 DEF n
<1> QED  BY <1>7, <1>8

-----------------------------------------------------------------------------
(* Paths of the elements, as a function of their positions: f is PathOf,   *)
(* once it is known that PathOf is defined.                                *)
PathsRight(s, f) ==
  /\ f \in [ElementsOf(s) -> Path]
  /\ 1 \in ElementsOf(s) => f[1] = Root
  /\ \A i \in ElementsOf(s) \ {1} : \E j \in ElementsOf(s) :
       IsParent(s, j, i) /\ f[i] = Append(f[j], Cardinality(Siblings(s, j, i)))
  /\ \A i \in ElementsOf(s) : Len(f[i]) = DepthAt(s, i)
  /\ \A i, j \in ElementsOf(s) : f[i] = f[j] => i = j

(* Neither the place of an element nor its parent or its index depends on  *)
(* what follows.                                                           *)
LEMMA OldMeaning ==
  ASSUME NEW x \in Token, Reads(x)
  PROVE  \A i, j \in ElementsOf(input) :
           /\ i \in 1..Len(input) /\ i \in ElementsOf(input')
           /\ DepthAt(input', i) = DepthAt(input, i) /\ DepthAt(input, i) \in Int
           /\ IsParent(input, j, i) => IsParent(input', j, i)
           /\ Siblings(input', j, i) = Siblings(input, j, i)
<1> DEFINE n == Len(input)
           E == ElementsOf(input)
           F == ElementsOf(input')
<1>1. n \in Nat /\ (\A i \in E : i \in 1..n) /\ E \subseteq F /\ \A k \in F : k \in E \/ k = n + 1
  BY DEF Reads, ElementsOf
<1>2. \A i \in E : DepthAt(input', i) = DepthAt(input, i) /\ DepthAt(input, i) \in Int
  BY <1>1 DEF Reads
<1> HIDE DEF n, E, F
<1>3. ASSUME NEW i \in E, NEW k \in F, k <= i PROVE k \in E
  BY <1>1, <1>3
<1>4. ASSUME NEW i \in E, NEW j \in E, IsParent(input, j, i) PROVE IsParent(input', j, i)
  <2>1. j < i /\ DepthAt(input', j) = DepthAt(input', i) - 1
    BY <1>2, <1>4 DEF IsParent
  <2>2. ASSUME NEW k \in F, k < i, DepthAt(input', k) = DepthAt(input', i) - 1 PROVE k <= j
    <3>1. k \in E
      <4>1. i \in Nat /\ k \in Nat  BY <1>1
      <4> QED  BY <1>3, <2>2, <4>1
    <3> QED  BY <1>2, <1>4, <2>2, <3>1 DEF IsParent, E
  <2> QED  BY <2>1, <2>2 DEF IsParent, F
<1>5. ASSUME NEW i \in E, NEW j \in E PROVE Siblings(input', j, i) = Siblings(input, j, i)
  <2>1. \A k \in F : k <= i => k \in E  BY <1>3
  <2> QED  BY <1>1, <1>2, <2>1 DEF Siblings, E, F
<1> QED  BY <1>1, <1>2, <1>4, <1>5 DEF E, F, n

LEMMA PathsKept ==
  ASSUME NEW x \in Token, Reads(x), x.type \notin {"Name", "Number"},
         NEW f, PathsRight(input, f)
  PROVE  PathsRight(input', f)
<1>1. ElementsOf(input') = ElementsOf(input)
  BY DEF Reads
<1>2. ASSUME NEW i \in ElementsOf(input) \ {1}
      PROVE  \E j \in ElementsOf(input) :
               IsParent(input', j, i) /\ f[i] = Append(f[j], Cardinality(Siblings(input', j, i)))
  BY OldMeaning DEF PathsRight
<1>3. \A i \in ElementsOf(input) : Len(f[i]) = DepthAt(input', i)
  BY OldMeaning DEF PathsRight
<1> QED  BY <1>1, <1>2, <1>3 DEF PathsRight

(* The paths with one more, for the last token of s.                       *)
With(s, f, q) == [i \in ElementsOf(s) |-> IF i = Len(s) THEN q ELSE f[i]]

LEMMA PathsExtended ==
  ASSUME NEW x \in Token, Reads(x), x.type \in {"Name", "Number"},
         NEW f, PathsRight(input, f), NEW q \in Path,
         \A i \in ElementsOf(input) : f[i] # q,
         Len(q) = DepthAt(input', Len(input) + 1),
         Len(input) = 0 => q = Root,
         Len(input) # 0 => \E j \in ElementsOf(input) :
           /\ IsParent(input', j, Len(input) + 1)
           /\ q = Append(f[j], Cardinality(Siblings(input', j, Len(input) + 1)))
  PROVE  /\ PathsRight(input', With(input', f, q))
         /\ \A i \in ElementsOf(input) : With(input', f, q)[i] = f[i]
         /\ With(input', f, q)[Len(input) + 1] = q
<1> DEFINE n == Len(input)
           E == ElementsOf(input)
           F == ElementsOf(input')
           g == With(input', f, q)
<1>1. n \in Nat /\ Len(input') = n + 1 /\ F = E \cup {n + 1} /\ \A i \in E : i \in 1..n /\ i # n + 1
  BY DEF Reads, ElementsOf
<1>2. /\ f \in [E -> Path]
      /\ 1 \in E => f[1] = Root
      /\ \A i \in E \ {1} : \E j \in E :
           IsParent(input, j, i) /\ f[i] = Append(f[j], Cardinality(Siblings(input, j, i)))
      /\ \A i \in E : Len(f[i]) = DepthAt(input, i)
      /\ \A i, j \in E : f[i] = f[j] => i = j
  BY DEF PathsRight
<1>3. /\ g \in [F -> Path]
      /\ \A i \in E : g[i] = f[i]
      /\ g[n + 1] = q
  BY <1>1, <1>2 DEF With
<1>4. \A i, j \in E : /\ DepthAt(input', i) = DepthAt(input, i)
                      /\ IsParent(input, j, i) => IsParent(input', j, i)
                      /\ Siblings(input', j, i) = Siblings(input, j, i)
  BY OldMeaning
<1>0. n # 0 => \E j \in E :
        /\ IsParent(input', j, n + 1)
        /\ q = Append(f[j], Cardinality(Siblings(input', j, n + 1)))
  OBVIOUS
<1> HIDE DEF n, E, F, g
<1>5. 1 \in F => g[1] = Root
  <2>1. CASE 1 \in E  BY <1>2, <1>3, <2>1
  <2>2. CASE 1 = n + 1
    <3>1. n = 0  BY <1>1, <2>2
    <3> QED  BY <1>3, <2>2, <3>1 DEF n
  <2> QED  BY <1>1, <2>1, <2>2
<1>6. ASSUME NEW i \in F \ {1}
      PROVE  \E j \in F : IsParent(input', j, i) /\ g[i] = Append(g[j], Cardinality(Siblings(input', j, i)))
  <2>1. CASE i \in E
    <3>1. PICK j \in E :
            IsParent(input, j, i) /\ f[i] = Append(f[j], Cardinality(Siblings(input, j, i)))
      BY <1>2, <2>1
    <3>2. IsParent(input', j, i) /\ g[i] = Append(g[j], Cardinality(Siblings(input', j, i)))
      BY <1>3, <1>4, <2>1, <3>1
    <3> QED  BY <1>1, <3>2
  <2>2. CASE i = n + 1
    <3>1. n # 0  BY <1>1, <2>2
    <3>2. PICK j \in E : /\ IsParent(input', j, n + 1)
                         /\ q = Append(f[j], Cardinality(Siblings(input', j, n + 1)))
      BY <1>0, <3>1
    <3> QED  BY <1>1, <1>3, <2>2, <3>2
  <2> QED  BY <1>1, <2>1, <2>2
<1>7. \A i \in F : Len(g[i]) = DepthAt(input', i)
  BY <1>1, <1>2, <1>3, <1>4 DEF n
<1>8. \A i, j \in F : g[i] = g[j] => i = j
  BY <1>1, <1>2, <1>3 DEF E
<1> QED  BY <1>3, <1>5, <1>6, <1>7, <1>8 DEF PathsRight, F, E, g, n

(* PathOf is what any function is that is right.                           *)
LEMMA PathOfIsRight ==
  ASSUME input \in Seq(Token), NEW f, PathsRight(input, f)
  PROVE  PathOf = f
<1> DEFINE E == ElementsOf(input)
           Made(g) == [i \in E |-> IF i = 1 THEN Root ELSE Append(g[ParentOf(i)], IndexOf(i))]
<1>1. Elements = E /\ E \subseteq Nat /\ \A i : Depth(i) = DepthAt(input, i)
  BY DEF Elements, ElementsOf, Depth, DepthAt, Count, CountIn
<1>2. ASSUME NEW i \in E \ {1}
      PROVE  /\ ParentOf(i) \in E /\ ParentOf(i) < i
             /\ f[i] = Append(f[ParentOf(i)], IndexOf(i))
  <2> DEFINE P(j) == /\ j < i /\ Depth(j) = Depth(i) - 1
                     /\ \A k \in Elements : k < i /\ Depth(k) = Depth(i) - 1 => k <= j
  <2>1. PICK j \in E :
          IsParent(input, j, i) /\ f[i] = Append(f[j], Cardinality(Siblings(input, j, i)))
    BY DEF PathsRight
  <2>2. P(j)
    BY <1>1, <2>1 DEF IsParent
  <2>3. \A h \in Elements : P(h) => h = j
    <3> SUFFICES ASSUME NEW h \in Elements, P(h) PROVE h = j
      OBVIOUS
    <3>1. h <= j /\ j <= h  BY <1>1, <2>2
    <3> QED  BY <1>1, <3>1
  <2>4. ParentOf(i) = CHOOSE h \in Elements : P(h)
    BY DEF ParentOf
  <2> HIDE DEF P
  <2>5. ParentOf(i) = j
    BY <1>1, <2>2, <2>3, <2>4
  <2>6. IndexOf(i) = Cardinality(Siblings(input, j, i))
    BY <1>1, <2>5 DEF IndexOf, Siblings
  <2> QED  BY <2>1, <2>2, <2>5, <2>6 DEF P
<1>3. f = Made(f)
  <2>1. f \in [E -> Path] /\ (1 \in E => f[1] = Root)
    BY DEF PathsRight
  <2> QED  BY <1>2, <2>1
<1>4. ASSUME NEW g, g = Made(g) PROVE g = f
  <2> DEFINE T == {i \in E : g[i] # f[i]}
  <2>1. SUFFICES ASSUME T # {} PROVE FALSE
    <3>1. f \in [E -> Path]  BY DEF PathsRight
    <3>2. g = [i \in E |-> g[i]]  BY <1>4
    <3> QED  BY <2>1, <3>1, <3>2
  <2>2. PICK i \in T : \A j \in T : i <= j
    <3>1. T \in SUBSET Nat  BY <1>1
    <3> HIDE DEF T
    <3> QED  BY <2>1, <3>1, LeastNumber
  <2>3. i \in E /\ g[i] # f[i] /\ i \in Nat
    BY <1>1
  <2>4. i # 1
    <3>1. 1 \in E => g[1] = Root  BY <1>4
    <3> QED  BY <2>3, <3>1 DEF PathsRight
  <2>5. ParentOf(i) \in E /\ ParentOf(i) < i /\ ParentOf(i) \in Nat
    BY <1>1, <1>2, <2>3, <2>4
  <2>6. ParentOf(i) \notin T
    <3>1. ~(i <= ParentOf(i))  BY <2>3, <2>5
    <3> HIDE DEF T
    <3> QED  BY <2>2, <3>1
  <2>7. g[i] = Append(g[ParentOf(i)], IndexOf(i))
    BY <1>4, <2>3, <2>4
  <2> QED  BY <1>2, <2>3, <2>4, <2>5, <2>6, <2>7
<1>5. PathOf = CHOOSE g : g = Made(g)
  BY <1>1 DEF PathOf
<1> HIDE DEF Made
<1> QED  BY <1>3, <1>4, <1>5

-----------------------------------------------------------------------------
(* Behind these tokens an element has been made whose token is to come.    *)
Awaits(s) == s = <<>> \/ s[Len(s)].type \in {"LPar", "Comma"}

(* The i-th token is an element, and the k-th parenthesis that is open     *)
(* behind s is its own; and what stands directly in that parenthesis.      *)
IsOpen(s, i, k) == DepthAt(s, i) = k - 1 /\ \A m \in i + 1 .. Len(s) : DepthAt(s, m) >= k
Inner(s, i, k)  == {j \in ElementsOf(s) : i < j /\ DepthAt(s, j) = k}

Describes(e, x) ==
  IF x.type = "Name" THEN e.name = x.value /\ e.meta = getTypeMeta(x.value) /\ e.size = NoSize
  ELSE e.size = x.value /\ e.meta = "Number"

(* The tree has an element for each token that is one, and the one that is *)
(* awaited.                                                                *)
TreeRight(f) ==
  /\ \A i \in ElementsOf(input) : f[i] \in Paths /\ Describes(tree[f[i]], input[i])
  /\ \A p \in Paths : (\E i \in ElementsOf(input) : p = f[i]) \/ (Awaits(input) /\ p = type)
  /\ Awaits(input) => /\ \A i \in ElementsOf(input) : f[i] # type
                      /\ tree[type].elements = 0 /\ tree[type].size = NoSize

(* The stack holds the open elements below the root, each has as many      *)
(* elements as stand in its parentheses, and the awaited one is the last   *)
(* of the innermost.                                                       *)
StackRight(f) ==
  LET d == DepthAt(input, Len(input))
  IN  /\ Len(open) = d + 1
      /\ \A k \in 1..d : \E i \in ElementsOf(input) :
           /\ IsOpen(input, i, k) /\ open[k + 1] = f[i]
           /\ tree[f[i]].elements = Cardinality(Inner(input, i, k))
                                      + (IF k = d /\ Awaits(input) THEN 1 ELSE 0)
      /\ d > 0 /\ Awaits(input) => type = Append(open[d + 1], tree[open[d + 1]].elements)
      /\ Len(input) \in ElementsOf(input) => type = f[Len(input)] /\ tree[type].elements = 0

(* An element without parentheses has no elements, one with a number alone *)
(* in them has one, one with more behind the number has more.              *)
HasParentheses(s, i) == i < Len(s) /\ s[i + 1].type = "LPar"
HasNumber(s, i) == HasParentheses(s, i) /\ i + 3 <= Len(s) /\ s[i + 2].type = "Number"
SizesRight(f) ==
  \A i \in ElementsOf(input) :
    /\ ~HasParentheses(input, i) => tree[f[i]].elements = 0
    /\ HasNumber(input, i) /\ input[i + 3].type = "RPar" => tree[f[i]].elements = 1
    /\ HasNumber(input, i) /\ input[i + 3].type = "Comma" => tree[f[i]].elements >= 2

AllRight(f) == PathsRight(input, f) /\ TreeRight(f) /\ StackRight(f) /\ SizesRight(f)

TreeInv == Begins(input) => \E f : AllRight(f)

-----------------------------------------------------------------------------
(* What is open stays open and keeps its elements, whatever follows.       *)
LEMMA OpenKept ==
  ASSUME NEW x \in Token, Reads(x),
         NEW k \in 1..DepthAt(input', Len(input')),
         NEW i \in ElementsOf(input), IsOpen(input, i, k)
  PROVE  /\ IsOpen(input', i, k)
         /\ x.type \notin {"Name", "Number"} => Inner(input', i, k) = Inner(input, i, k)
<1> DEFINE n == Len(input)
<1>1. /\ n \in Nat /\ Len(input') = n + 1
      /\ \A m \in 0..n : DepthAt(input', m) = DepthAt(input, m)
      /\ DepthAt(input', n + 1) \in Int
  BY DEF Reads, Opening
<1>2. \A j \in ElementsOf(input) : j \in 1..n /\ j \in 0..n
  BY DEF ElementsOf
<1> HIDE DEF n
<1>3. DepthAt(input', i) = k - 1
  BY <1>1, <1>2 DEF IsOpen
<1>4. ASSUME NEW m \in i + 1 .. n + 1 PROVE DepthAt(input', m) >= k
  <2>1. CASE m = n + 1  BY <1>1, <2>1
  <2>2. CASE m # n + 1
    <3>1. m \in i + 1 .. n /\ m \in 0..n  BY <1>1, <1>2, <2>2
    <3> QED  BY <1>1, <3>1 DEF IsOpen, n
  <2> QED  BY <2>1, <2>2
<1>5. x.type \notin {"Name", "Number"} => Inner(input', i, k) = Inner(input, i, k)
  BY <1>1, <1>2 DEF Reads, Inner
<1> QED  BY <1>1, <1>3, <1>4, <1>5 DEF IsOpen

(* The set of the elements in a parenthesis is finite, and empty behind    *)
(* the last token.                                                         *)
LEMMA InnerFinite ==
  ASSUME NEW s \in Seq(Token), NEW i \in Nat, NEW k
  PROVE  /\ IsFiniteSet(Inner(s, i, k)) /\ Cardinality(Inner(s, i, k)) \in Nat
         /\ i >= Len(s) => Cardinality(Inner(s, i, k)) = 0
<1>1. IsFiniteSet(1..Len(s)) /\ Inner(s, i, k) \subseteq 1..Len(s)
  BY FS_Interval DEF Inner, ElementsOf
<1>2. i >= Len(s) => Inner(s, i, k) = {}
  BY DEF Inner, ElementsOf
<1> QED  BY <1>1, <1>2, FS_Subset, FS_CardinalityType, FS_EmptySet

(* Nor do the parentheses change that have closed or hold a number.        *)
LEMMA OldSizes ==
  ASSUME NEW x \in Token, Reads(x), NEW i \in ElementsOf(input)
  PROVE  /\ i # Len(input) => (HasParentheses(input', i) <=> HasParentheses(input, i))
         /\ HasNumber(input', i) =>
              \/ HasNumber(input, i) /\ input'[i + 3] = input[i + 3]
              \/ /\ i + 2 = Len(input) /\ input'[i + 3] = x
                 /\ input[i + 1].type = "LPar" /\ input[i + 2].type = "Number"
         /\ ~HasParentheses(input, Len(input)) /\ ~HasNumber(input, Len(input))
<1> DEFINE n == Len(input)
<1>1. /\ n \in Nat /\ Len(input') = n + 1 /\ input'[n + 1] = x /\ i \in 1..n
      /\ \A j \in 1..n : input'[j] = input[j]
  BY DEF Reads, ElementsOf
<1>2. i # n => (HasParentheses(input', i) <=> HasParentheses(input, i))
  BY <1>1 DEF HasParentheses
<1>3. ASSUME HasNumber(input', i)
      PROVE  \/ HasNumber(input, i) /\ input'[i + 3] = input[i + 3]
             \/ /\ i + 2 = n /\ input'[i + 3] = x
                /\ input[i + 1].type = "LPar" /\ input[i + 2].type = "Number"
  <2>1. i + 3 <= n + 1 /\ input'[i + 1].type = "LPar" /\ input'[i + 2].type = "Number"
    BY <1>1, <1>3 DEF HasNumber, HasParentheses
  <2>2. i + 1 \in 1..n /\ i + 2 \in 1..n /\ i < n
    BY <1>1, <2>1
  <2>3. CASE i + 3 = n + 1
    <3>1. i + 2 = n  BY <1>1, <2>3
    <3> QED  BY <1>1, <2>1, <2>2, <2>3, <3>1
  <2>4. CASE i + 3 # n + 1
    <3>1. i + 3 \in 1..n  BY <1>1, <2>1, <2>4
    <3> QED  BY <1>1, <2>1, <2>2, <3>1 DEF HasNumber, HasParentheses
  <2> QED  BY <2>3, <2>4
<1> QED  BY <1>1, <1>2, <1>3 DEF HasNumber, HasParentheses

(* A name or a number fills the element that was awaited.                  *)
LEMMA ElementIsRead ==
  ASSUME ParserInv, StackInv, MeaningInv, NEW x \in Token, Reads(x),
         x.type \in {"Name", "Number"}, Begins(input'),
         UNCHANGED <<type, open>>, Paths' = Paths,
         \A p \in Paths : tree'[p].elements = tree[p].elements,
         \A p \in Paths \ {type} : tree'[p] = tree[p],
         tree[type].size = NoSize => Describes(tree'[type], x),
         NEW f, AllRight(f)
  PROVE  \E g : AllRight(g)'
<1> DEFINE n == Len(input)
           d == DepthAt(input, n)
           E == ElementsOf(input)
<1>0. PICK g : g = With(input', f, type)
  OBVIOUS
<1>1. /\ n \in Nat /\ Len(input') = n + 1 /\ input'[n + 1] = x
      /\ \A i \in 1..n : input'[i] = input[i]
      /\ \A i \in 0..n : DepthAt(input', i) = DepthAt(input, i) /\ DepthAt(input, i) \in Int
      /\ DepthAt(input', n + 1) = d /\ d \in Int
      /\ ElementsOf(input') = E \cup {n + 1} /\ DepthAt(input, 0) = 0
  BY DEF Reads, Opening
<1>2. \A i \in E : i \in 1..n /\ i \in Nat /\ i # n + 1
  BY <1>1 DEF ElementsOf
<1>3. n = 0 <=> input = <<>>
  BY EmptySeq DEF Reads
<1>4. /\ Awaits(input) /\ ~Awaits(input')
      /\ n # 0 => d > 0 /\ input[n].type \notin {"Name", "Number"} /\ n \in 1..n
  <2>1. CASE input = <<>>
    BY <1>1, <1>3, <2>1 DEF Awaits
  <2>2. CASE input # <<>>
    <3>1. /\ x.type \in Followers[input[n].type] /\ d + Opening(x) > 0 /\ n \in 1..n
          /\ input[n] \in Token
      BY <2>2, PrefixBegins DEF Reads
    <3>2. input[n].type \in {"LPar", "Comma"}
      BY <3>1 DEF Followers, Token
    <3>3. d > 0
      BY <1>1, <3>1 DEF Opening
    <3> QED  BY <1>1, <1>3, <2>2, <3>1, <3>2, <3>3 DEF Awaits
  <2> QED  BY <2>1, <2>2
<1>5. /\ PathsRight(input, f)
      /\ \A i \in E : f[i] \in Paths /\ Describes(tree[f[i]], input[i]) /\ f[i] # type
      /\ \A p \in Paths : (\E i \in E : p = f[i]) \/ p = type
      /\ tree[type].elements = 0 /\ tree[type].size = NoSize
  BY <1>4 DEF AllRight, TreeRight
<1>6. /\ Len(open) = d + 1
      /\ \A k \in 1..d : \E i \in E :
           /\ IsOpen(input, i, k) /\ open[k + 1] = f[i]
           /\ tree[f[i]].elements = Cardinality(Inner(input, i, k)) + (IF k = d THEN 1 ELSE 0)
      /\ d > 0 => type = Append(open[d + 1], tree[open[d + 1]].elements)
  BY <1>4 DEF AllRight, StackRight
<1>7. type \in Paths /\ type \in Path
  BY DEF ParserInv, PointersTyped, TreeTyped
<1>8. \A i \in E : f[i] \in Path /\ Len(f[i]) = DepthAt(input, i)
  BY <1>5 DEF PathsRight
<1> HIDE DEF n, d, E
<1>9. ASSUME NEW k \in 1..d, NEW i \in E, IsOpen(input, i, k)
      PROVE  /\ IsOpen(input', i, k)
             /\ Cardinality(Inner(input', i, k))
                  = Cardinality(Inner(input, i, k)) + (IF k = d THEN 1 ELSE 0)
  <2>1. IsOpen(input', i, k)
    BY <1>1, <1>9, OpenKept DEF E
  <2>2. Inner(input', i, k) = Inner(input, i, k) \cup (IF k = d THEN {n + 1} ELSE {})
    BY <1>1, <1>2 DEF Inner, E
  <2>3. IsFiniteSet(Inner(input, i, k)) /\ Cardinality(Inner(input, i, k)) \in Nat
    BY <1>2, InnerFinite DEF Reads
  <2>4. n + 1 \notin Inner(input, i, k)
    BY <1>2 DEF Inner, E
  <2>5. Cardinality(Inner(input, i, k) \cup {n + 1}) = Cardinality(Inner(input, i, k)) + 1
    BY <2>3, <2>4, FS_AddElement
  <2>6. CASE k = d
    <3> HIDE DEF IsOpen, Inner
    <3> QED  BY <2>1, <2>2, <2>5, <2>6
  <2>7. CASE k # d
    <3>1. Inner(input', i, k) = Inner(input, i, k)  BY <2>2, <2>7
    <3> QED  BY <2>1, <2>3, <2>7, <3>1
  <2> QED  BY <2>6, <2>7
<1>10. /\ PathsRight(input', g)
       /\ \A i \in E : g[i] = f[i]
       /\ g[n + 1] = type
  <2>1. CASE n = 0
    <3>1. type = Root  BY <1>3, <2>1 DEF MeaningInv, RootInv
    <3>2. Len(type) = DepthAt(input', n + 1)  BY <1>1, <2>1, <3>1 DEF Root, d
    <3> QED  BY <1>5, <1>7, <2>1, <3>1, <3>2, <1>0, PathsExtended DEF E, n
  <2>2. CASE n # 0
    <3>1. d \in 1..d  BY <1>1, <1>4, <2>2
    <3>2. PICK i \in E :
            /\ IsOpen(input, i, d) /\ open[d + 1] = f[i]
            /\ tree[f[i]].elements = Cardinality(Inner(input, i, d)) + 1
      BY <1>6, <3>1
    <3>3. IsParent(input', i, n + 1)
      <4>1. i < n + 1 /\ DepthAt(input', i) = d - 1
        BY <1>1, <1>2, <3>1, <3>2, <1>9 DEF IsOpen
      <4>2. ASSUME NEW k \in E \cup {n + 1}, k < n + 1, DepthAt(input', k) = d - 1, ~(k <= i)
            PROVE  FALSE
        <5>1. k \in E /\ k \in i + 1 .. n /\ k \in 0..n  BY <1>1, <1>2, <4>2
        <5>2. DepthAt(input, k) >= d  BY <3>2, <5>1 DEF IsOpen, n
        <5> QED  BY <1>1, <4>2, <5>1, <5>2
      <4> QED  BY <1>1, <4>1, <4>2 DEF IsParent
    <3>4. Siblings(input', i, n + 1) = Inner(input', i, d)
      BY <1>1, <1>2 DEF Siblings, Inner
    <3>5. type = Append(f[i], Cardinality(Siblings(input', i, n + 1)))
      BY <1>4, <1>6, <1>9, <2>2, <3>1, <3>2, <3>4
    <3>6. Len(type) = DepthAt(input', n + 1)
      <4>1. f[i] \in Path /\ Len(f[i]) = d - 1
        BY <1>8, <3>2 DEF IsOpen
      <4>2. tree[f[i]].elements \in Nat
        BY <1>5 DEF ParserInv, TreeTyped, Element
      <4>3. Len(type) = Len(f[i]) + 1
        BY <1>4, <1>6, <2>2, <3>2, <4>1, <4>2, AppendProperties DEF Path
      <4> QED  BY <1>1, <4>1, <4>3
    <3>7. \E j \in ElementsOf(input) :
            /\ IsParent(input', j, Len(input) + 1)
            /\ type = Append(f[j], Cardinality(Siblings(input', j, Len(input) + 1)))
      BY <3>2, <3>3, <3>5 DEF E, n
    <3>8. /\ PathsRight(input', With(input', f, type))
          /\ \A j \in ElementsOf(input) : With(input', f, type)[j] = f[j]
          /\ With(input', f, type)[Len(input) + 1] = type
      BY <1>5, <1>7, <2>2, <3>6, <3>7, PathsExtended DEF E, n
    <3> QED  BY <1>0, <3>8 DEF E, n
  <2> QED  BY <2>1, <2>2
<1>11. TreeRight(g)'
  <2>1. ASSUME NEW i \in E \cup {n + 1}
        PROVE  g[i] \in Paths /\ Describes(tree'[g[i]], input'[i])
    <3>1. CASE i = n + 1
      BY <1>1, <1>5, <1>7, <1>10, <3>1
    <3>2. CASE i \in E
      <4>1. tree'[f[i]] = tree[f[i]] /\ input'[i] = input[i]  BY <1>1, <1>2, <1>5, <3>2
      <4> QED  BY <1>5, <1>10, <3>2, <4>1
    <3> QED  BY <3>1, <3>2
  <2>2. \A p \in Paths : \E i \in E \cup {n + 1} : p = g[i]
    BY <1>5, <1>10
  <2> QED  BY <1>1, <1>4, <2>1, <2>2 DEF TreeRight
<1>12. StackRight(g)'
  <2>1. ASSUME NEW k \in 1..d
        PROVE  \E i \in E \cup {n + 1} :
                 /\ IsOpen(input', i, k) /\ open[k + 1] = g[i]
                 /\ tree'[g[i]].elements = Cardinality(Inner(input', i, k))
    <3>1. PICK i \in E :
            /\ IsOpen(input, i, k) /\ open[k + 1] = f[i]
            /\ tree[f[i]].elements = Cardinality(Inner(input, i, k)) + (IF k = d THEN 1 ELSE 0)
      BY <1>6
    <3>2. tree'[f[i]].elements = tree[f[i]].elements
      BY <1>5
    <3> QED  BY <1>9, <1>10, <3>1, <3>2
  <2>2. tree'[type].elements = 0
    BY <1>5, <1>7
  <2>3. \A c \in Nat : c + 0 = c
    OBVIOUS
  <2>4. \A k \in 1..d : \E i \in E \cup {n + 1} :
          /\ IsOpen(input', i, k) /\ open[k + 1] = g[i]
          /\ tree'[g[i]].elements = Cardinality(Inner(input', i, k)) + 0
    <3> SUFFICES ASSUME NEW k \in 1..d
                 PROVE  \E i \in E \cup {n + 1} :
                          /\ IsOpen(input', i, k) /\ open[k + 1] = g[i]
                          /\ tree'[g[i]].elements = Cardinality(Inner(input', i, k)) + 0
      OBVIOUS
    <3>1. PICK i \in E \cup {n + 1} :
            /\ IsOpen(input', i, k) /\ open[k + 1] = g[i]
            /\ tree'[g[i]].elements = Cardinality(Inner(input', i, k))
      BY <2>1
    <3>2. Cardinality(Inner(input', i, k)) \in Nat
      BY <1>1, <1>2, InnerFinite DEF Reads
    <3> QED  BY <2>3, <3>1, <3>2
  <2> QED  BY <1>1, <1>4, <1>6, <1>10, <2>2, <2>4 DEF StackRight
<1>13. SizesRight(g)'
  <2> SUFFICES ASSUME NEW i \in E \cup {n + 1}
               PROVE  /\ ~HasParentheses(input', i) => tree'[g[i]].elements = 0
                      /\ HasNumber(input', i) /\ input'[i + 3].type = "RPar" => tree'[g[i]].elements = 1
                      /\ HasNumber(input', i) /\ input'[i + 3].type = "Comma" => tree'[g[i]].elements >= 2
    BY <1>1 DEF SizesRight
  <2>1. CASE i = n + 1
    <3>1. ~HasParentheses(input', i)  BY <1>1, <2>1 DEF HasParentheses
    <3>2. tree'[g[i]].elements = 0  BY <1>5, <1>7, <1>10, <2>1
    <3> QED  BY <3>1, <3>2 DEF HasNumber
  <2>2. CASE i \in E
    <3>1. i # n  BY <1>2, <1>4, <2>2 DEF E, n, ElementsOf
    <3>4. tree'[g[i]].elements = tree[f[i]].elements
      BY <1>5, <1>10, <2>2
    <3> QED  BY <2>2, <3>1, <3>4, OldSizes DEF AllRight, SizesRight, E, n
  <2> QED  BY <2>1, <2>2
<1> QED  BY <1>10, <1>11, <1>12, <1>13 DEF AllRight

(* emplace_back: the new element is behind the others of q, which keeps    *)
(* what it is but for their number.                                        *)
LEMMA ElementMade ==
  ASSUME ParserInv, NEW q \in Paths, tree' = EmplaceBack(q)
  PROVE  /\ NextElement(q) = Append(q, tree[q].elements + 1) /\ tree[q].elements \in Nat
         /\ NextElement(q) \notin Paths /\ Paths' = Paths \cup {NextElement(q)}
         /\ tree'[NextElement(q)].elements = 0 /\ tree'[NextElement(q)].size = NoSize
         /\ \A p \in Paths \ {q} : tree'[p] = tree[p]
         /\ tree'[q].elements = tree[q].elements + 1
         /\ \A x : Describes(tree[q], x) => Describes(tree'[q], x)
<1> DEFINE e == NextElement(q)
<1>1. q \in Path /\ tree[q] \in Element /\ tree[q].elements \in Nat
      /\ e = Append(q, tree[q].elements + 1)
  BY DEF ParserInv, TreeTyped, Element, NextElement
<1>2. e \notin Paths
  <2> SUFFICES ASSUME e \in Paths PROVE FALSE
    OBVIOUS
  <2>1. tree[q].elements + 1 <= tree[q].elements
    BY <1>1 DEF ParserInv, NextIsFree
  <2> QED  BY <1>1, <2>1
<1>3. /\ Paths' = Paths \cup {e} /\ tree'[e] = NewElement
      /\ \A p \in Paths \ {q} : tree'[p] = tree[p]
      /\ tree'[q] = [tree[q] EXCEPT !.elements = @ + 1]
  BY <1>2 DEF EmplaceBack, Paths
<1>5. tree'[e].elements = 0 /\ tree'[e].size = NoSize
  <2>1. NewElement.elements = 0 /\ NewElement.size = NoSize  BY DEF NewElement
  <2> QED  BY <1>3, <2>1
<1> HIDE DEF e
<1>4. /\ tree'[q].elements = tree[q].elements + 1 /\ tree'[q].name = tree[q].name
      /\ tree'[q].meta = tree[q].meta /\ tree'[q].size = tree[q].size
  BY <1>1, <1>3 DEF Element
<1> QED  BY <1>1, <1>2, <1>3, <1>4, <1>5 DEF Describes, e

LEMMA AwaitedIsMade ==
  ASSUME ParserInv, NEW x \in Token, Reads(x), x.type \in {"LPar", "Comma"},
         NEW q \in Paths, tree' = EmplaceBack(q), type' = NextElement(q),
         NEW f, AllRight(f), ~Awaits(input)
  PROVE  PathsRight(input', f) /\ TreeRight(f)' /\ Awaits(input')
<1>1. /\ Len(input) \in Nat /\ Len(input') = Len(input) + 1 /\ input'[Len(input) + 1] = x
      /\ \A i \in 1..Len(input) : input'[i] = input[i]
      /\ ElementsOf(input') = ElementsOf(input)
  BY DEF Reads
<1>2. Awaits(input')
  BY <1>1 DEF Awaits
<1>3. PathsRight(input', f)
  BY PathsKept DEF AllRight
<1>4. \A i \in ElementsOf(input) : input'[i] = input[i]
  BY <1>1 DEF ElementsOf
<1>5. /\ \A i \in ElementsOf(input) : f[i] \in Paths /\ Describes(tree[f[i]], input[i])
      /\ \A p \in Paths : \E i \in ElementsOf(input) : p = f[i]
  BY DEF AllRight, TreeRight
<1>6. \A i \in ElementsOf(input) : f[i] \in Paths' /\ Describes(tree'[f[i]], input'[i])
  BY <1>4, <1>5, ElementMade
<1>7. /\ \A i \in ElementsOf(input) : f[i] # type'
      /\ \A p \in Paths' : (\E i \in ElementsOf(input) : p = f[i]) \/ p = type'
  BY <1>5, ElementMade
<1>8. tree'[type'].elements = 0 /\ tree'[type'].size = NoSize
  BY ElementMade
<1> QED  BY <1>1, <1>2, <1>3, <1>6, <1>7, <1>8 DEF TreeRight

(* Which token was the last.                                               *)
LEMMA LastToken ==
  ASSUME NEW x \in Token, Reads(x), Begins(input'), x.type \notin {"Name", "Number"}
  PROVE  /\ Begins(input) /\ ~Awaits(input) /\ Len(input) \in 1..Len(input)
         /\ DepthAt(input, Len(input)) \in Nat
         /\ x.type = "LPar" => input[Len(input)].type = "Name"
         /\ x.type # "LPar" => DepthAt(input, Len(input)) > 0
         /\ Len(input) \in ElementsOf(input) \/ input[Len(input)].type = "RPar"
<1> DEFINE n == Len(input)
<1>1. /\ input # <<>> /\ n \in 1..n /\ x.type \in Followers[input[n].type]
      /\ DepthAt(input, n) + Opening(x) >= 0
      /\ x.type # "RPar" => DepthAt(input, n) + Opening(x) > 0
      /\ input[n] \in Token /\ Begins(input)
  BY PrefixBegins DEF Reads
<1>2. DepthAt(input, n) \in Int
  BY <1>1 DEF Reads
<1>3. input[n].type \in {"Name", "Number", "RPar"} /\ (x.type = "LPar" => input[n].type = "Name")
  BY <1>1 DEF Followers, Token
<1>4. DepthAt(input, n) >= 0
  BY <1>1 DEF Begins
<1>5. x.type # "LPar" => DepthAt(input, n) > 0
  BY <1>1, <1>2, <1>3 DEF Opening, Token
<1> QED  BY <1>1, <1>2, <1>3, <1>4, <1>5 DEF Awaits, ElementsOf

LEMMA ParenthesisOpens ==
  ASSUME ParserInv, StackInv, NEW x \in Token, Reads(x), x.type = "LPar", Begins(input'),
         tree' = EmplaceBack(type), type' = NextElement(type), open' = Append(open, type),
         NEW f, AllRight(f)
  PROVE  AllRight(f)'
<1> DEFINE n == Len(input)
           d == DepthAt(input, n)
           E == ElementsOf(input)
<1>1. /\ n \in 1..n /\ n \in Nat /\ Len(input') = n + 1 /\ input'[n + 1] = x
      /\ \A i \in 1..n : input'[i] = input[i]
      /\ \A i \in 0..n : DepthAt(input', i) = DepthAt(input, i) /\ DepthAt(input, i) \in Int
      /\ DepthAt(input', n + 1) = d + 1 /\ d \in Nat /\ n \in E
      /\ ElementsOf(input') = E /\ ~Awaits(input) /\ input \in Seq(Token)
  BY LastToken DEF Reads, Opening, ElementsOf
<1>2. \A i \in E : i \in 1..n /\ i \in Nat
  BY <1>1 DEF ElementsOf
<1>3. /\ Len(open) = d + 1
      /\ \A k \in 1..d : \E i \in E :
           /\ IsOpen(input, i, k) /\ open[k + 1] = f[i]
           /\ tree[f[i]].elements = Cardinality(Inner(input, i, k)) + 0
      /\ type = f[n] /\ tree[type].elements = 0
  BY <1>1 DEF AllRight, StackRight
<1>4. type \in Paths /\ open \in Seq(Paths)
  BY DEF ParserInv, PointersTyped
<1>5. PathsRight(input', f) /\ TreeRight(f)' /\ Awaits(input')
  BY <1>1, <1>4, AwaitedIsMade
<1>6. /\ \A i \in E : f[i] \in Paths
      /\ \A i, j \in E : f[i] = f[j] => i = j
  BY DEF AllRight, TreeRight, PathsRight
<1>7. /\ type' = Append(type, 1) /\ tree'[type].elements = 1
      /\ \A p \in Paths \ {type} : tree'[p] = tree[p]
  BY <1>3, <1>4, ElementMade
<1>8. /\ Len(open') = d + 2 /\ open'[d + 2] = type
      /\ \A k \in 1..d : open'[k + 1] = open[k + 1]
  BY <1>1, <1>3, <1>4
<1> HIDE DEF n, d, E
<1>9. \A i \in E : i # n => tree'[f[i]] = tree[f[i]]
  BY <1>1, <1>3, <1>6, <1>7
<1>10. ASSUME NEW k \in 1 .. d + 1
       PROVE  \E i \in E :
                /\ IsOpen(input', i, k) /\ open'[k + 1] = f[i]
                /\ tree'[f[i]].elements = Cardinality(Inner(input', i, k)) + (IF k = d + 1 THEN 1 ELSE 0)
  <2>1. CASE k = d + 1
    <3>1. IsOpen(input', n, k)
      <4>1. n \in 0..n /\ k - 1 = d  BY <1>1, <2>1
      <4>2. DepthAt(input', n) = k - 1  BY <1>1, <4>1 DEF d
      <4>3. ASSUME NEW m \in n + 1 .. Len(input') PROVE DepthAt(input', m) >= k
        <5>1. m = n + 1 /\ d + 1 >= k  BY <1>1, <2>1
        <5> QED  BY <1>1, <5>1
      <4> QED  BY <4>2, <4>3 DEF IsOpen
    <3>2. Inner(input', n, k) = {}
      <4>1. \A i \in E : ~(n < i)  BY <1>1, <1>2
      <4> QED  BY <1>1, <4>1 DEF Inner
    <3>3. Cardinality(Inner(input', n, k)) = 0
      BY <3>2, FS_EmptySet
    <3> QED  BY <1>1, <1>3, <1>7, <1>8, <2>1, <3>1, <3>3
  <2>2. CASE k # d + 1
    <3>1. k \in 1..d  BY <1>1, <2>2
    <3>2. PICK i \in E :
            /\ IsOpen(input, i, k) /\ open[k + 1] = f[i]
            /\ tree[f[i]].elements = Cardinality(Inner(input, i, k)) + 0
      BY <1>3, <3>1
    <3>3. i # n
      BY <1>1, <3>1, <3>2 DEF IsOpen, d
    <3>4. IsOpen(input', i, k) /\ Inner(input', i, k) = Inner(input, i, k)
      BY <1>1, <3>2, OpenKept DEF E
    <3> QED  BY <1>8, <1>9, <2>2, <3>1, <3>2, <3>3, <3>4
  <2> HIDE DEF IsOpen, Inner
  <2> QED  BY <2>1, <2>2
<1>11. StackRight(f)'
  <2>1. n + 1 \notin E  BY <1>1, <1>2
  <2>2. Len(input') \notin ElementsOf(input')  BY <1>1, <2>1
  <2>3. type' = Append(open'[d + 1 + 1], tree'[open'[d + 1 + 1]].elements)
    BY <1>1, <1>7, <1>8
  <2>4. Len(open') = d + 1 + 1  BY <1>1, <1>8
  <2>5. DepthAt(input', Len(input')) = d + 1  BY <1>1
  <2> HIDE DEF IsOpen, Inner
  <2>6. \A k \in 1 .. d + 1 : \E i \in ElementsOf(input') :
          /\ IsOpen(input', i, k) /\ open'[k + 1] = f[i]
          /\ tree'[f[i]].elements = Cardinality(Inner(input', i, k))
                                    + (IF k = d + 1 /\ Awaits(input') THEN 1 ELSE 0)
    BY <1>1, <1>5, <1>10
  <2> QED  BY <2>2, <2>3, <2>4, <2>5, <2>6 DEF StackRight
<1>12. SizesRight(f)'
  <2> SUFFICES ASSUME NEW i \in E
               PROVE  /\ ~HasParentheses(input', i) => tree'[f[i]].elements = 0
                      /\ HasNumber(input', i) /\ input'[i + 3].type = "RPar" => tree'[f[i]].elements = 1
                      /\ HasNumber(input', i) /\ input'[i + 3].type = "Comma" => tree'[f[i]].elements >= 2
    BY <1>1 DEF SizesRight
  <2>1. CASE i = n
    <3>1. HasParentheses(input', i) /\ ~HasNumber(input', i)
      BY <1>1, <2>1 DEF HasParentheses, HasNumber
    <3> QED  BY <3>1
  <2>2. CASE i # n
    BY <1>1, <1>9, <2>2, OldSizes DEF AllRight, SizesRight, E, n
  <2> QED  BY <2>1, <2>2
<1> QED  BY <1>5, <1>11, <1>12 DEF AllRight

(* What stands in a parenthesis that has just opened before a number.      *)
LEMMA NumberAlone ==
  ASSUME input \in Seq(Token), NEW i \in ElementsOf(input), i + 2 = Len(input),
         input[i + 1].type = "LPar", input[i + 2].type = "Number"
  PROVE  /\ Cardinality(Inner(input, i, DepthAt(input, Len(input)))) = 1
         /\ \A j \in ElementsOf(input) : IsOpen(input, j, DepthAt(input, Len(input))) => j = i
<1> DEFINE d == DepthAt(input, Len(input))
<1>1. i \in Nat /\ i + 1 \in 1..Len(input) /\ i + 2 \in 1..Len(input) /\ i \in 1..Len(input)
  BY DEF ElementsOf
<1>2. /\ DepthAt(input, i + 1) = d /\ DepthAt(input, i) = d - 1 /\ d \in Int
  <2>1. DepthAt(input, i + 2) = DepthAt(input, i + 1) + 0
    <3>1. DepthAt(input, i + 2) = DepthAt(input, (i + 2) - 1) + Opening(input[i + 2])
      BY <1>1, DepthNext
    <3>2. (i + 2) - 1 = i + 1 /\ Opening(input[i + 2]) = 0  BY <1>1 DEF Opening
    <3> QED  BY <3>1, <3>2
  <2>2. DepthAt(input, i + 1) = DepthAt(input, i) + 1
    <3>1. DepthAt(input, i + 1) = DepthAt(input, (i + 1) - 1) + Opening(input[i + 1])
      BY <1>1, DepthNext
    <3>2. (i + 1) - 1 = i /\ Opening(input[i + 1]) = 1  BY <1>1 DEF Opening
    <3> QED  BY <3>1, <3>2
  <2>3. DepthAt(input, i) \in Int /\ DepthAt(input, i + 1) \in Int /\ i + 2 = Len(input)
    BY <1>1, DepthNext
  <2> HIDE DEF DepthAt
  <2> QED  BY <2>1, <2>2, <2>3
<1>3. i + 2 \in ElementsOf(input) /\ i + 1 \notin ElementsOf(input)
  BY <1>1 DEF ElementsOf
<1>4. \A j \in ElementsOf(input) : j \in 1 .. i + 2
  BY DEF ElementsOf
<1> HIDE DEF d
<1>5. Inner(input, i, d) = {i + 2}
  <2>1. ASSUME NEW j \in Inner(input, i, d) PROVE j = i + 2
    <3>1. j \in ElementsOf(input) /\ i < j  BY DEF Inner
    <3>2. j # i + 1 /\ j \in 1 .. i + 2  BY <1>3, <1>4, <3>1
    <3> QED  BY <1>1, <3>1, <3>2
  <2>2. DepthAt(input, i + 2) = d /\ i < i + 2  BY <1>1 DEF d
  <2>3. i + 2 \in Inner(input, i, d)  BY <1>3, <2>2 DEF Inner
  <2> QED  BY <2>1, <2>3
<1>6. ASSUME NEW j \in ElementsOf(input), IsOpen(input, j, d) PROVE j = i
  <2>1. DepthAt(input, j) = d - 1 /\ \A m \in j + 1 .. i + 2 : DepthAt(input, m) >= d
    BY <1>6 DEF IsOpen
  <2>2. j # i + 1 /\ j # i + 2  BY <1>2, <2>1 DEF d
  <2>3. ~(j < i)
    <3> SUFFICES ASSUME j < i PROVE FALSE
      OBVIOUS
    <3>1. i \in j + 1 .. i + 2  BY <1>1, <1>4
    <3> QED  BY <1>2, <2>1, <3>1
  <2> QED  BY <1>1, <1>4, <2>2, <2>3
<1>7. Cardinality({i + 2}) = 1
  BY FS_Singleton
<1> QED  BY <1>5, <1>6, <1>7 DEF d

LEMMA ParenthesisCloses ==
  ASSUME ParserInv, NEW x \in Token, Reads(x), x.type = "RPar", Begins(input'),
         tree' = tree, open' = Popped,
         NEW f, AllRight(f)
  PROVE  AllRight(f)'
<1> DEFINE n == Len(input)
           d == DepthAt(input, n)
           E == ElementsOf(input)
<1>1. /\ n \in 1..n /\ n \in Nat /\ Len(input') = n + 1 /\ input'[n + 1] = x
      /\ \A i \in 1..n : input'[i] = input[i]
      /\ DepthAt(input', n + 1) = d - 1 /\ d \in Nat /\ d > 0
      /\ ElementsOf(input') = E /\ ~Awaits(input) /\ input \in Seq(Token)
  BY LastToken DEF Reads, Opening
<1>2. \A i \in E : i \in 1..n /\ i \in Nat
  BY <1>1 DEF ElementsOf
<1>3. /\ Len(open) = d + 1
      /\ \A k \in 1..d : \E i \in E :
           /\ IsOpen(input, i, k) /\ open[k + 1] = f[i]
           /\ tree[f[i]].elements = Cardinality(Inner(input, i, k)) + 0
  BY <1>1 DEF AllRight, StackRight
<1>4. open \in Seq(Paths)
  BY DEF ParserInv, PointersTyped
<1>5. PathsRight(input', f)
  BY <1>1, PathsKept DEF AllRight
<1>6. ~Awaits(input')
  BY <1>1 DEF Awaits
<1>7. TreeRight(f)'
  BY <1>1, <1>2, <1>6 DEF AllRight, TreeRight, Paths
<1>8. Len(open') = d /\ \A k \in 1 .. d - 1 : open'[k + 1] = open[k + 1]
  BY <1>1, <1>3, <1>4 DEF Popped
<1> HIDE DEF n, d, E
<1>9. StackRight(f)'
  <2>1. ASSUME NEW k \in 1 .. d - 1
        PROVE  \E i \in E :
                 /\ IsOpen(input', i, k) /\ open'[k + 1] = f[i]
                 /\ tree[f[i]].elements = Cardinality(Inner(input', i, k)) + 0
    <3>1. k \in 1..d  BY <1>1
    <3>2. PICK i \in E :
            /\ IsOpen(input, i, k) /\ open[k + 1] = f[i]
            /\ tree[f[i]].elements = Cardinality(Inner(input, i, k)) + 0
      BY <1>3, <3>1
    <3>3. IsOpen(input', i, k) /\ Inner(input', i, k) = Inner(input, i, k)
      BY <1>1, <3>2, OpenKept DEF E
    <3> QED  BY <1>8, <3>2, <3>3
  <2>2. n + 1 \notin E /\ d = (d - 1) + 1  BY <1>1, <1>2
  <2> QED  BY <1>1, <1>6, <1>8, <2>1, <2>2 DEF StackRight
<1>10. SizesRight(f)'
  <2> SUFFICES ASSUME NEW i \in E
               PROVE  /\ ~HasParentheses(input', i) => tree[f[i]].elements = 0
                      /\ HasNumber(input', i) /\ input'[i + 3].type = "RPar" => tree[f[i]].elements = 1
                      /\ HasNumber(input', i) /\ input'[i + 3].type = "Comma" => tree[f[i]].elements >= 2
    BY <1>1 DEF SizesRight
  <2>1. /\ ~HasParentheses(input, i) => tree[f[i]].elements = 0
        /\ HasNumber(input, i) /\ input[i + 3].type = "RPar" => tree[f[i]].elements = 1
        /\ HasNumber(input, i) /\ input[i + 3].type = "Comma" => tree[f[i]].elements >= 2
    BY DEF AllRight, SizesRight, E
  <2>2. ~HasParentheses(input', i) => tree[f[i]].elements = 0
    BY <2>1, OldSizes DEF E, n
  <2>3. ASSUME i + 2 = n, input[i + 1].type = "LPar", input[i + 2].type = "Number"
        PROVE  tree[f[i]].elements = 1
    <3>1. d \in 1..d  BY <1>1
    <3>2. PICK j \in E :
            /\ IsOpen(input, j, d) /\ open[d + 1] = f[j]
            /\ tree[f[j]].elements = Cardinality(Inner(input, j, d)) + 0
      BY <1>3, <3>1
    <3>3. j = i /\ Cardinality(Inner(input, i, d)) = 1
      BY <1>1, <2>3, <3>2, NumberAlone DEF E, d, n
    <3> QED  BY <3>2, <3>3
  <2> QED  BY <2>1, <2>2, <2>3, OldSizes DEF E, n
<1> QED  BY <1>5, <1>7, <1>9, <1>10 DEF AllRight

LEMMA CommaAppends ==
  ASSUME ParserInv, NEW x \in Token, Reads(x), x.type = "Comma", Begins(input'),
         tree' = EmplaceBack(Top), type' = NextElement(Top), open' = open,
         NEW f, AllRight(f)
  PROVE  AllRight(f)'
<1> DEFINE n == Len(input)
           d == DepthAt(input, n)
           E == ElementsOf(input)
<1>1. /\ n \in 1..n /\ n \in Nat /\ Len(input') = n + 1 /\ input'[n + 1] = x
      /\ \A i \in 1..n : input'[i] = input[i]
      /\ DepthAt(input', n + 1) = d /\ d \in Nat /\ d > 0 /\ d \in 1..d
      /\ ElementsOf(input') = E /\ ~Awaits(input) /\ input \in Seq(Token)
  BY LastToken DEF Reads, Opening
<1>2. \A i \in E : i \in 1..n /\ i \in Nat
  BY <1>1 DEF ElementsOf
<1>3. /\ Len(open) = d + 1
      /\ \A k \in 1..d : \E i \in E :
           /\ IsOpen(input, i, k) /\ open[k + 1] = f[i]
           /\ tree[f[i]].elements = Cardinality(Inner(input, i, k)) + 0
  BY <1>1 DEF AllRight, StackRight
<1>4. PICK o \in E : /\ IsOpen(input, o, d) /\ open[d + 1] = f[o]
                     /\ tree[f[o]].elements = Cardinality(Inner(input, o, d)) + 0
  BY <1>1, <1>3
<1>5. Top = f[o]
  BY <1>3, <1>4 DEF Top
<1>6. /\ \A i \in E : f[i] \in Paths
      /\ \A i, j \in E : f[i] = f[j] => i = j
  BY DEF AllRight, TreeRight, PathsRight
<1>7. PathsRight(input', f) /\ TreeRight(f)' /\ Awaits(input')
  BY <1>1, <1>4, <1>5, <1>6, AwaitedIsMade
<1>8. /\ type' = Append(f[o], tree[f[o]].elements + 1) /\ tree[f[o]].elements \in Nat
      /\ tree'[f[o]].elements = tree[f[o]].elements + 1
      /\ \A p \in Paths \ {f[o]} : tree'[p] = tree[p]
  BY <1>4, <1>5, <1>6, ElementMade
<1>9. \A i \in E : i # o => tree'[f[i]] = tree[f[i]]
  BY <1>4, <1>6, <1>8
<1>10. DepthAt(input, o) = d - 1 /\ \A m \in o + 1 .. n : DepthAt(input, m) >= d
  BY <1>4 DEF IsOpen
<1>11. o # n /\ o < n
  BY <1>1, <1>2, <1>4, <1>10
<1> HIDE DEF n, d, E
<1>12. ASSUME NEW k \in 1..d
       PROVE  \E i \in E :
                /\ IsOpen(input', i, k) /\ open[k + 1] = f[i]
                /\ tree'[f[i]].elements = Cardinality(Inner(input', i, k)) + (IF k = d THEN 1 ELSE 0)
  <2>0. ASSUME NEW i \in E, IsOpen(input, i, k)
        PROVE  IsOpen(input', i, k) /\ Inner(input', i, k) = Inner(input, i, k)
    BY <1>1, <2>0, OpenKept DEF E
  <2>1. CASE k = d
    <3>1. Cardinality(Inner(input, o, d)) \in Nat  BY <1>1, <1>2, InnerFinite
    <3>2. tree'[f[o]].elements = Cardinality(Inner(input, o, d)) + 1  BY <1>4, <1>8, <3>1
    <3> HIDE DEF IsOpen, Inner
    <3> QED  BY <1>4, <2>0, <2>1, <3>2
  <2>2. CASE k # d
    <3>1. PICK i \in E :
            /\ IsOpen(input, i, k) /\ open[k + 1] = f[i]
            /\ tree[f[i]].elements = Cardinality(Inner(input, i, k)) + 0
      BY <1>3
    <3>2. i # o  BY <1>1, <1>10, <2>2, <3>1 DEF IsOpen
    <3> HIDE DEF IsOpen, Inner
    <3> QED  BY <1>9, <2>0, <2>2, <3>1, <3>2
  <2> QED  BY <2>1, <2>2
<1>13. StackRight(f)'
  <2>1. n + 1 \notin E  BY <1>1, <1>2
  <2>2. type' = Append(open[d + 1], tree'[open[d + 1]].elements)
    BY <1>4, <1>8
  <2> HIDE DEF IsOpen, Inner
  <2> QED  BY <1>1, <1>3, <1>7, <1>12, <2>1, <2>2 DEF StackRight
<1>14. SizesRight(f)'
  <2> SUFFICES ASSUME NEW i \in E
               PROVE  /\ ~HasParentheses(input', i) => tree'[f[i]].elements = 0
                      /\ HasNumber(input', i) /\ input'[i + 3].type = "RPar" => tree'[f[i]].elements = 1
                      /\ HasNumber(input', i) /\ input'[i + 3].type = "Comma" => tree'[f[i]].elements >= 2
    BY <1>1 DEF SizesRight
  <2>1. /\ ~HasParentheses(input, i) => tree[f[i]].elements = 0
        /\ HasNumber(input, i) /\ input[i + 3].type = "RPar" => tree[f[i]].elements = 1
        /\ HasNumber(input, i) /\ input[i + 3].type = "Comma" => tree[f[i]].elements >= 2
    BY DEF AllRight, SizesRight, E
  <2>2. i + 2 = n /\ input[i + 1].type = "LPar" /\ input[i + 2].type = "Number"
          => i = o /\ Cardinality(Inner(input, o, d)) = 1
    BY <1>1, <1>4, NumberAlone DEF E, d, n
  <2>3. CASE i # o
    BY <1>9, <2>1, <2>2, <2>3, OldSizes DEF E, n
  <2>4. CASE i = o
    <3>1. o \in 1..n /\ o + 1 \in 1..n /\ DepthAt(input, o + 1) = DepthAt(input, o) + Opening(input[o + 1])
      <4>1. o + 1 \in 1..n /\ (o + 1) - 1 = o  BY <1>1, <1>2, <1>11
      <4> QED  BY <1>1, <1>2, <4>1, DepthNext DEF n
    <3>2. HasParentheses(input, o) /\ DepthAt(input, o + 1) = d
      <4>1. DepthAt(input, o + 1) >= d  BY <1>1, <1>2, <1>10, <3>1
      <4>2. Opening(input[o + 1]) = 1 /\ input[o + 1].type = "LPar"
        BY <1>1, <1>10, <3>1, <4>1 DEF Opening
      <4> QED  BY <1>1, <1>10, <1>11, <3>1, <4>2 DEF HasParentheses, n
    <3>3. ~(HasNumber(input, o) /\ input[o + 3].type = "RPar")
      <4> SUFFICES ASSUME HasNumber(input, o), input[o + 3].type = "RPar" PROVE FALSE
        OBVIOUS
      <4>1. o + 2 \in 1..n /\ o + 3 \in 1..n /\ (o + 2) - 1 = o + 1 /\ (o + 3) - 1 = o + 2
        BY <1>1, <1>2 DEF HasNumber, n
      <4>2. DepthAt(input, o + 2) = DepthAt(input, o + 1) + Opening(input[o + 2])
        BY <1>1, <4>1, DepthNext DEF n
      <4>3. DepthAt(input, o + 3) = DepthAt(input, o + 2) + Opening(input[o + 3])
        BY <1>1, <4>1, DepthNext DEF n
      <4>4. Opening(input[o + 2]) = 0 /\ Opening(input[o + 3]) = -1
        BY DEF HasNumber, Opening
      <4>5. DepthAt(input, o + 3) >= d
        BY <1>1, <1>2, <1>10, <4>1
      <4> QED  BY <1>1, <3>2, <4>2, <4>3, <4>4, <4>5
    <3>4. HasNumber(input', o) =>
            \/ HasNumber(input, o) /\ input'[o + 3] = input[o + 3]
            \/ /\ o + 2 = n /\ input'[o + 3] = x
               /\ input[o + 1].type = "LPar" /\ input[o + 2].type = "Number"
      BY <1>4, OldSizes DEF E, n
    <3>5. HasParentheses(input', o)
      BY <1>11, <1>4, <3>2, OldSizes DEF E, n
    <3>6. ~(HasNumber(input', o) /\ input'[o + 3].type = "RPar")
      BY <3>3, <3>4
    <3>7. ASSUME HasNumber(input', o), input'[o + 3].type = "Comma"
          PROVE  tree'[f[o]].elements >= 2
      <4>1. tree[f[o]].elements >= 1
        BY <1>4, <1>8, <2>1, <2>2, <2>4, <3>4, <3>7
      <4> QED  BY <1>8, <4>1
    <3> QED  BY <2>4, <3>5, <3>6, <3>7
  <2> QED  BY <2>3, <2>4
<1> QED  BY <1>7, <1>13, <1>14 DEF AllRight

-----------------------------------------------------------------------------
(* The invariant, one case per token.                                      *)
LEMMA InitTreeInv == Init => TreeInv
<1> SUFFICES ASSUME Init PROVE \E f : AllRight(f)
  BY DEF TreeInv
<1>1. /\ Paths = {Root} /\ tree[Root].elements = 0 /\ tree[Root].size = NoSize
      /\ input = <<>> /\ type = Root /\ open = <<Root>>
  BY DEF Init, Paths, NewElement
<1>2. Len(input) = 0 /\ ElementsOf(input) = {} /\ Awaits(input) /\ input \in Seq(Token)
  BY <1>1 DEF ElementsOf, Awaits
<1>3. DepthAt(input, 0) = 0
  BY <1>2, DepthNext
<1> DEFINE f == [i \in {} |-> Root]
<1>4. PathsRight(input, f)
  <2>1. f \in [{} -> Path]  OBVIOUS
  <2> HIDE DEF f
  <2> QED  BY <1>2, <2>1 DEF PathsRight
<1> HIDE DEF f
<1>5. TreeRight(f)
  BY <1>1, <1>2 DEF TreeRight
<1>6. Len(open) = 1
  BY <1>1
<1>7. StackRight(f)
  BY <1>2, <1>3, <1>6 DEF StackRight
<1>8. SizesRight(f)
  BY <1>2 DEF SizesRight
<1> QED  BY <1>4, <1>5, <1>7, <1>8 DEF AllRight

LEMMA StepTreeInv ==
  ParserInv /\ StackInv /\ MeaningInv /\ TreeInv /\ [Next]_vars => TreeInv'
<1> SUFFICES ASSUME ParserInv, StackInv, MeaningInv, TreeInv, [Next]_vars, Begins(input')
             PROVE  \E f : AllRight(f)'
  BY DEF TreeInv
<1>1. type \in Paths /\ tree \in [Paths -> Element] /\ input \in Seq(Token)
  BY DEF ParserInv, TreeTyped, PointersTyped, StackInv
<1>2. ASSUME NEW x \in Token, input' = Append(input, x)
      PROVE  Reads(x) /\ Begins(input) /\ \E f : AllRight(f)
  <2>1. Reads(x)  BY <1>1, <1>2, TokenReads
  <2> QED  BY <2>1, PrefixBegins DEF TreeInv
<1>3. ASSUME NEW m \in Names, Name(m) PROVE \E f : AllRight(f)'
  <2> DEFINE x == [type |-> "Name", value |-> m]
  <2>1. x \in Token /\ x.type = "Name" /\ x.value = m  BY TokensTyped
  <2>2. input' = Append(input, x) /\ UNCHANGED <<type, open>>
        /\ tree' = [tree EXCEPT ![type].meta = getTypeMeta(m), ![type].name = m]
    BY <1>3 DEF Name, Consume
  <2>3. Paths' = Paths  BY <1>1, <2>2 DEF Paths
  <2>4. \A p \in Paths : tree'[p] =
          IF p = type THEN [tree[type] EXCEPT !.meta = getTypeMeta(m), !.name = m] ELSE tree[p]
    BY <1>1, <2>2
  <2>5. tree[type] \in Element  BY <1>1
  <2>6. /\ tree'[type].elements = tree[type].elements /\ tree'[type].meta = getTypeMeta(m)
        /\ tree'[type].name = m /\ tree'[type].size = tree[type].size
    BY <1>1, <2>4, <2>5 DEF Element
  <2> HIDE DEF x
  <2>7. tree[type].size = NoSize => Describes(tree'[type], x)
    BY <2>1, <2>6 DEF Describes
  <2>8. Reads(x) /\ \E f : AllRight(f)
    BY <1>2, <2>1, <2>2
  <2>9. \A p \in Paths : tree'[p].elements = tree[p].elements
    BY <2>4, <2>6
  <2> QED  BY <2>1, <2>2, <2>3, <2>4, <2>7, <2>8, <2>9, ElementIsRead
<1>4. ASSUME NEW m \in Sizes, Number(m) PROVE \E f : AllRight(f)'
  <2> DEFINE x == [type |-> "Number", value |-> m]
  <2>1. x \in Token /\ x.type = "Number" /\ x.value = m  BY TokensTyped
  <2>2. input' = Append(input, x) /\ UNCHANGED <<type, open>>
        /\ tree' = [tree EXCEPT ![type].meta = "Number", ![type].size = m]
    BY <1>4 DEF Number, Consume
  <2>3. Paths' = Paths  BY <1>1, <2>2 DEF Paths
  <2>4. \A p \in Paths : tree'[p] =
          IF p = type THEN [tree[type] EXCEPT !.meta = "Number", !.size = m] ELSE tree[p]
    BY <1>1, <2>2
  <2>5. tree[type] \in Element  BY <1>1
  <2>6. /\ tree'[type].elements = tree[type].elements /\ tree'[type].meta = "Number"
        /\ tree'[type].size = m
    BY <1>1, <2>4, <2>5 DEF Element
  <2> HIDE DEF x
  <2>7. Describes(tree'[type], x)
    BY <2>1, <2>6 DEF Describes
  <2>8. Reads(x) /\ \E f : AllRight(f)
    BY <1>2, <2>1, <2>2
  <2>9. \A p \in Paths : tree'[p].elements = tree[p].elements
    BY <2>4, <2>6
  <2> QED  BY <2>1, <2>2, <2>3, <2>4, <2>7, <2>8, <2>9, ElementIsRead
<1>5. CASE LPar
  <2> DEFINE x == Punctuation("LPar")
  <2>1. x \in Token /\ x.type = "LPar"  BY TokensTyped
  <2>2. /\ input' = Append(input, x) /\ tree' = EmplaceBack(type)
        /\ type' = NextElement(type) /\ open' = Append(open, type)
    BY <1>5 DEF LPar, Consume
  <2> HIDE DEF x
  <2>3. Reads(x) /\ \E f : AllRight(f)
    BY <1>2, <2>1, <2>2
  <2> QED  BY <2>1, <2>2, <2>3, ParenthesisOpens
<1>6. CASE RPar
  <2> DEFINE x == Punctuation("RPar")
  <2>1. x \in Token /\ x.type = "RPar"  BY TokensTyped
  <2>2. input' = Append(input, x) /\ tree' = tree /\ open' = Popped
    BY <1>6 DEF RPar, Consume
  <2> HIDE DEF x
  <2>3. Reads(x) /\ \E f : AllRight(f)
    BY <1>2, <2>1, <2>2
  <2> QED  BY <2>1, <2>2, <2>3, ParenthesisCloses
<1>7. CASE Comma
  <2> DEFINE x == Punctuation("Comma")
  <2>1. x \in Token /\ x.type = "Comma"  BY TokensTyped
  <2>2. /\ input' = Append(input, x) /\ tree' = EmplaceBack(Top)
        /\ type' = NextElement(Top) /\ open' = open
    BY <1>7 DEF Comma, Consume
  <2> HIDE DEF x
  <2>3. Reads(x) /\ \E f : AllRight(f)
    BY <1>2, <2>1, <2>2
  <2> QED  BY <2>1, <2>2, <2>3, CommaAppends
<1>8. CASE Underflow
  <2>1. PICK t \in {"RPar", "Comma"} : input' = Append(input, Punctuation(t)) /\ open = <<>>
    BY <1>8 DEF Underflow, Consume
  <2>2. Reads(Punctuation(t)) /\ Begins(input) /\ \E f : AllRight(f)
    BY <1>2, <2>1, TokensTyped
  <2>3. DepthAt(input, Len(input)) \in Nat
    <3>1. DepthAt(input, Len(input)) \in Int /\ DepthAt(input, 0) = 0 /\ Len(input) \in Nat
      BY <1>1, DepthNext
    <3>2. Len(input) # 0 => DepthAt(input, Len(input)) >= 0
      BY <2>2, <3>1 DEF Begins
    <3> QED  BY <3>1, <3>2
  <2>4. Len(open) = DepthAt(input, Len(input)) + 1
    BY <2>2 DEF AllRight, StackRight
  <2>5. Len(open) = 0
    BY <2>1
  <2> QED  BY <2>3, <2>4, <2>5
<1>9. CASE UNCHANGED <<input, tree, type, open>>
  <2>1. PICK f : AllRight(f)
    BY <1>9 DEF TreeInv
  <2>2. AllRight(f)'
    BY <1>9, <2>1 DEF AllRight, PathsRight, TreeRight, StackRight, SizesRight, Paths
  <2> QED  BY <2>2
<1> QED
  BY <1>3, <1>4, <1>5, <1>6, <1>7, <1>8, <1>9
  DEF Next, Accept, Reject, AssignTypeInfo, vars

(* A well-formed type has begun like one, and awaits nothing.              *)
LEMMA WellFormedBegins ==
  ASSUME StackInv, WellFormed
  PROVE  /\ Begins(input) /\ ~Awaits(input) /\ Elements = ElementsOf(input)
         /\ Len(input) \in Nat /\ 1 \in 1..Len(input) /\ input[1].type = "Name"
         /\ \A i \in 1 .. Len(input) - 1 : input[i + 1].type \in Followers[input[i].type]
         /\ Len(input) > 1 => input[Len(input)].type = "RPar"
<1> DEFINE n == Len(input)
<1>1. input \in Seq(Token) /\ n \in Nat
  BY DEF StackInv
<1>2. /\ n > 0 /\ input[1].type = "Name" /\ Balanced
      /\ \A i \in 1 .. n - 1 : input[i + 1].type \in Followers[input[i].type]
      /\ n > 1 => input[n].type = "RPar"
      /\ \A i \in 2 .. n - 1 : Depth(i) > 0
  BY DEF WellFormed, Followers
<1>3. \A i : Depth(i) = DepthAt(input, i)
  BY DEF Depth, DepthAt, Count, CountIn
<1>4. \A i \in 1..n : DepthAt(input, i) >= 0
  <2> SUFFICES ASSUME NEW i \in 1..n PROVE DepthAt(input, i) >= 0
    OBVIOUS
  <2>1. \A t : CountIn(input, t, i - 1) \in Nat
               /\ CountIn(input, t, i) = CountIn(input, t, i - 1) + (IF input[i].type = t THEN 1 ELSE 0)
    BY <1>1, CountNext
  <2>2. CountIn(input, "RPar", i) \in Nat /\ CountIn(input, "LPar", i) \in Nat
    <3>1. \A t : CountIn(input, t, i) \in Nat  BY <2>1
    <3> QED  BY <3>1
  <2>3. CountIn(input, "RPar", i) <= CountIn(input, "LPar", i)
    BY <1>2 DEF Balanced, Count, CountIn
  <2> QED  BY <2>2, <2>3 DEF DepthAt
<1> HIDE DEF n
<1>5. \A i \in 2..n : DepthAt(input, i) > 0 \/ (i = n /\ input[i].type = "RPar")
  <2> SUFFICES ASSUME NEW i \in 2..n, i # n PROVE DepthAt(input, i) > 0
    BY <1>1, <1>2
  <2>1. i \in 2 .. n - 1  BY <1>1
  <2> QED  BY <1>2, <1>3, <2>1
<1>6. Begins(input)
  BY <1>2, <1>4, <1>5 DEF Begins, n
<1>7. ~Awaits(input)
  <2>1. n = 1 \/ n > 1  BY <1>1, <1>2
  <2>2. input[n].type \in {"Name", "RPar"}  BY <1>2, <2>1
  <2>3. input # <<>>  BY <1>1, <1>2, EmptySeq DEF n
  <2> QED  BY <2>2, <2>3 DEF Awaits, n
<1> QED  BY <1>1, <1>2, <1>6, <1>7 DEF n, Elements, ElementsOf

(* The tree of a well-formed type has an element for each name and number, *)
(* at its place and with what stands there, and no other; for texts of any *)
(* length. TypeParser::parse.                                              *)
THEOREM TreesAreReference == Spec => []TreeIsReference
<1> DEFINE AllParts == ParserInv /\ StackInv /\ MeaningInv /\ TreeInv
<1>1. Init => AllParts
  BY InitParserInv, InitStackInv, InitMeaningInv, InitTreeInv
<1>2. AllParts /\ [Next]_vars => AllParts'
  BY StepParserInv, StepStackInv, StepMeaningInv, StepTreeInv
<1>3. AllParts => TreeIsReference
  <2> SUFFICES ASSUME AllParts, WellFormed
               PROVE  /\ DOMAIN tree = {PathOf[i] : i \in Elements}
                      /\ \A i \in Elements :
                           LET e == tree[PathOf[i]]
                           IN  IF input[i].type = "Name"
                               THEN e.name = input[i].value /\ e.meta = getTypeMeta(input[i].value)
                               ELSE e.size = input[i].value /\ e.meta = "Number"
    BY DEF TreeIsReference
  <2>1. PICK f : AllRight(f)
    BY WellFormedBegins DEF TreeInv
  <2>2. PathOf = f
    BY <2>1, PathOfIsRight DEF AllRight, StackInv
  <2>3. /\ \A i \in Elements : f[i] \in Paths /\ Describes(tree[f[i]], input[i])
        /\ \A p \in Paths : \E i \in Elements : p = f[i]
    BY <2>1, WellFormedBegins DEF AllRight, TreeRight
  <2>4. DOMAIN tree = {PathOf[i] : i \in Elements}
    BY <2>2, <2>3 DEF Paths
  <2> QED  BY <2>2, <2>3, <2>4 DEF Describes
<1> HIDE DEF AllParts
<1> QED  BY <1>1, <1>2, <1>3, PTL DEF Spec

-----------------------------------------------------------------------------
(* The element that stands directly behind a parenthesis is the first of   *)
(* the one before it.                                                      *)
LEMMA FirstChild ==
  ASSUME input \in Seq(Token), NEW f, PathsRight(input, f), NEW i \in ElementsOf(input),
         input[i + 1].type = "LPar", i + 2 \in ElementsOf(input)
  PROVE  f[i + 2] = Append(f[i], 1)
<1> DEFINE E == ElementsOf(input)
<1>1. i \in Nat /\ i + 1 \in 1..Len(input) /\ i + 2 \in 1..Len(input) /\ i \in 1..Len(input)
      /\ input[i + 2].type \in {"Name", "Number"} /\ \A k \in E : k \in Nat
  BY DEF ElementsOf
<1>2. DepthAt(input, i + 1) = DepthAt(input, i) + 1 /\ DepthAt(input, i) \in Int
  <2>1. DepthAt(input, i + 1) = DepthAt(input, (i + 1) - 1) + Opening(input[i + 1])
    BY <1>1, DepthNext
  <2>2. (i + 1) - 1 = i /\ Opening(input[i + 1]) = 1  BY <1>1 DEF Opening
  <2> QED  BY <1>1, <2>1, <2>2, DepthNext
<1>3. DepthAt(input, i + 2) = DepthAt(input, i + 1)
  <2>1. DepthAt(input, i + 2) = DepthAt(input, (i + 2) - 1) + Opening(input[i + 2])
    BY <1>1, DepthNext
  <2>2. (i + 2) - 1 = i + 1 /\ Opening(input[i + 2]) = 0  BY <1>1 DEF Opening
  <2>3. DepthAt(input, i + 1) \in Int  BY <1>1, DepthNext
  <2> QED  BY <2>1, <2>2, <2>3
<1>4. PICK j \in E :
        IsParent(input, j, i + 2) /\ f[i + 2] = Append(f[j], Cardinality(Siblings(input, j, i + 2)))
  <2>1. i + 2 \in E \ {1}  BY <1>1
  <2> QED  BY <2>1 DEF PathsRight
<1>5. i + 1 \notin E
  BY DEF ElementsOf
<1>6. j = i
  <2>1. i <= j /\ j < i + 2
    BY <1>1, <1>2, <1>3, <1>4 DEF IsParent
  <2>2. j # i + 1  BY <1>5
  <2> QED  BY <1>1, <2>1, <2>2
<1>7. Siblings(input, i, i + 2) = {i + 2}
  <2>1. ASSUME NEW k \in Siblings(input, i, i + 2) PROVE k = i + 2
    <3>1. k \in E /\ i < k /\ k <= i + 2  BY DEF Siblings
    <3>2. k # i + 1 /\ k \in Nat  BY <1>1, <1>5, <3>1
    <3> QED  BY <1>1, <3>1, <3>2
  <2>2. i < i + 2 /\ i + 2 <= i + 2  BY <1>1
  <2>3. i + 2 \in Siblings(input, i, i + 2)  BY <2>2 DEF Siblings
  <2> QED  BY <2>1, <2>3
<1>8. Cardinality({i + 2}) = 1
  BY FS_Singleton
<1> QED  BY <1>4, <1>6, <1>7, <1>8

(* Behind the k-th Nullable of a well-formed type stands its first         *)
(* element, two tokens on: the way of assignTypeInfo.                      *)
OnTheWay(f, k) ==
  /\ 2 * k + 1 \in ElementsOf(input) /\ f[2 * k + 1] = First(k)
  /\ \A j \in ElementsOf(input) : j < 2 * k + 1 => input[j].value = "Nullable"

LEMMA WayGoesOn ==
  ASSUME StackInv, WellFormed, NullablesHaveArguments, NEW f, AllRight(f), NEW k \in Nat,
         OnTheWay(f, k), tree[First(k)].meta = "Nullable"
  PROVE  OnTheWay(f, k + 1)
<1> DEFINE n == Len(input)
           E == ElementsOf(input)
           i == 2 * k + 1
<1>1. /\ n \in Nat /\ Elements = E /\ i \in E /\ f[i] = First(k) /\ i \in 1..n
      /\ \A m \in 1 .. n - 1 : input[m + 1].type \in Followers[input[m].type]
      /\ n > 1 => input[n].type = "RPar"
      /\ \A j \in E : j < i => input[j].value = "Nullable"
  BY WellFormedBegins DEF OnTheWay, ElementsOf
<1>2. PathsRight(input, f) /\ Describes(tree[f[i]], input[i]) /\ input \in Seq(Token)
  BY <1>1 DEF AllRight, TreeRight, StackInv
<1>3. i + 2 = 2 * (k + 1) + 1 /\ i \in Nat
  OBVIOUS
<1> HIDE DEF i
<1>4. input[i].type = "Name" /\ input[i].value = "Nullable"
  BY <1>1, <1>2 DEF Describes, getTypeMeta
<1>5. i < n /\ input[i + 1].type = "LPar"
  BY <1>1, <1>4 DEF NullablesHaveArguments
<1>6. i + 2 \in 1..n /\ i + 1 \in 1 .. n - 1
  <2>1. i + 1 # n  BY <1>1, <1>3, <1>5
  <2> QED  BY <1>1, <1>3, <1>5, <2>1
<1>7. i + 2 \in E
  <2>1. (i + 1) + 1 = i + 2  BY <1>3
  <2>2. input[i + 2].type \in {"Name", "Number"}
    BY <1>1, <1>5, <1>6, <2>1 DEF Followers
  <2> QED  BY <1>6, <2>2 DEF ElementsOf
<1>8. f[i + 2] = First(k + 1)
  <2>1. f[i + 2] = Append(First(k), 1)
    BY <1>1, <1>2, <1>5, <1>7, FirstChild
  <2>2. Append(First(k), 1) = First(k + 1)
    BY DEF First
  <2> QED  BY <2>1, <2>2
<1>9. ASSUME NEW j \in E, j < i + 2 PROVE input[j].value = "Nullable"
  <2>1. j # i + 1  BY <1>5 DEF ElementsOf
  <2>2. j \in Nat  BY DEF ElementsOf
  <2>3. j < i \/ j = i  BY <1>3, <1>9, <2>1, <2>2
  <2> QED  BY <1>1, <1>4, <2>3
<1> QED  BY <1>3, <1>7, <1>8, <1>9 DEF OnTheWay

LEMMA WayIsReached ==
  ASSUME StackInv, WellFormed, NullablesHaveArguments, NEW f, AllRight(f), NEW K \in Nat,
         \A k \in 0 .. K - 1 : tree[First(k)].meta = "Nullable"
  PROVE  OnTheWay(f, K)
<1> DEFINE T == {k \in 0..K : ~OnTheWay(f, k)}
<1>1. OnTheWay(f, 0)
  <2>1. 1 \in ElementsOf(input) /\ f[1] = Root
    BY WellFormedBegins DEF ElementsOf, AllRight, PathsRight
  <2>2. First(0) = Root  BY DEF First, Root
  <2>3. 2 * 0 + 1 = 1 /\ \A j \in ElementsOf(input) : ~(j < 1)
    BY DEF ElementsOf
  <2> QED  BY <2>1, <2>2, <2>3 DEF OnTheWay
<1>2. SUFFICES ASSUME T # {} PROVE FALSE
  BY <1>2
<1>3. PICK u \in T : \A v \in T : u <= v
  <2>1. T \in SUBSET Nat  OBVIOUS
  <2> HIDE DEF T
  <2> QED  BY <1>2, <2>1, LeastNumber
<1>4. u \in 1..K /\ ~OnTheWay(f, u)
  BY <1>1
<1> DEFINE k == u - 1
<1>5. k \in Nat /\ k \in 0 .. K - 1 /\ u = k + 1 /\ ~(u <= k) /\ k \in 0..K
  BY <1>4
<1>6. OnTheWay(f, k)
  <2> HIDE DEF k
  <2>1. k \notin T
    <3> HIDE DEF T
    <3> QED  BY <1>3, <1>5
  <2> QED  BY <1>5, <2>1
<1> HIDE DEF k, T
<1> QED  BY <1>4, <1>5, <1>6, WayGoesOn

(* The size that assignTypeInfo takes.                                     *)
HasSize(i) ==
  /\ i + 3 <= Len(input) /\ input[i + 1].type = "LPar"
  /\ input[i + 2].type = "Number" /\ input[i + 3].type = "RPar"

LEMMA SizeIsFound ==
  ASSUME StackInv, WellFormed, NEW f, AllRight(f), NEW i \in ElementsOf(input)
  PROVE  (IF tree[f[i]].elements = 1 THEN tree[Append(f[i], 1)].size ELSE NoSize)
           = IF HasSize(i) THEN input[i + 2].value ELSE NoSize
<1> DEFINE n == Len(input)
           E == ElementsOf(input)
<1>1. /\ n \in Nat /\ i \in 1..n /\ i \in Nat /\ input \in Seq(Token)
      /\ \A m \in 1 .. n - 1 : input[m + 1].type \in Followers[input[m].type]
      /\ n > 1 => input[n].type = "RPar"
  BY WellFormedBegins DEF ElementsOf, StackInv
<1>2. /\ ~HasParentheses(input, i) => tree[f[i]].elements = 0
      /\ HasNumber(input, i) /\ input[i + 3].type = "RPar" => tree[f[i]].elements = 1
      /\ HasNumber(input, i) /\ input[i + 3].type = "Comma" => tree[f[i]].elements >= 2
      /\ PathsRight(input, f)
      /\ \A j \in E : Describes(tree[f[j]], input[j])
  BY DEF AllRight, SizesRight, TreeRight
<1>3. CASE ~HasParentheses(input, i)
  <2>1. ~HasSize(i)
    BY <1>1, <1>3 DEF HasParentheses, HasSize
  <2> QED  BY <1>2, <1>3, <2>1
<1>4. CASE HasParentheses(input, i)
  <2>1. i < n /\ input[i + 1].type = "LPar"
    BY <1>4 DEF HasParentheses
  <2>2. i + 1 \in 1 .. n - 1 /\ i + 2 \in 1..n
    <3>1. i + 1 # n  BY <1>1, <2>1
    <3> QED  BY <1>1, <2>1, <3>1
  <2>3. input[i + 2].type \in {"Name", "Number"}
    <3>1. (i + 1) + 1 = i + 2  BY <1>1
    <3> QED  BY <1>1, <2>1, <2>2, <3>1 DEF Followers
  <2>4. i + 2 \in E
    BY <2>2, <2>3 DEF ElementsOf
  <2>5. f[i + 2] = Append(f[i], 1)
    BY <1>1, <1>2, <2>1, <2>4, FirstChild
  <2>6. i + 3 \in 1..n /\ i + 2 \in 1 .. n - 1
    <3>1. i + 2 # n  BY <1>1, <2>2, <2>3
    <3> QED  BY <1>1, <2>2, <3>1
  <2>7. CASE input[i + 2].type = "Name"
    <3>1. tree[f[i + 2]].size = NoSize
      BY <1>2, <2>4, <2>7 DEF Describes
    <3> QED  BY <2>5, <2>7, <3>1 DEF HasSize
  <2>8. CASE input[i + 2].type = "Number"
    <3>1. input[i + 3].type \in {"RPar", "Comma"}
      <4>1. (i + 2) + 1 = i + 3  BY <1>1
      <4> QED  BY <1>1, <2>6, <2>8, <4>1 DEF Followers
    <3>2. HasNumber(input, i)
      BY <1>4, <2>6, <2>8 DEF HasNumber
    <3>3. tree[f[i + 2]].size = input[i + 2].value
      BY <1>2, <2>4, <2>8 DEF Describes
    <3>4. HasSize(i) <=> input[i + 3].type = "RPar"
      BY <2>1, <2>6, <2>8 DEF HasSize
    <3>5. CASE input[i + 3].type = "RPar"
      BY <1>2, <2>5, <3>2, <3>3, <3>4, <3>5
    <3>6. CASE input[i + 3].type = "Comma"
      <4>1. tree[f[i]].elements # 1  BY <1>2, <3>2, <3>6
      <4> QED  BY <3>4, <3>6, <4>1
    <3> QED  BY <3>1, <3>5, <3>6
  <2> QED  BY <2>3, <2>7, <2>8
<1> QED  BY <1>3, <1>4

(* What the property says of the column, for the element i.                *)
ColumnOf(i) ==
  LET terminal == input[i].type = "Name" /\ input[i].value \notin Known
  IN  [name     |-> IF terminal THEN input[i].value ELSE "String",
       nullable |-> i > 1,
       size     |-> IF terminal /\ HasSize(i) THEN input[i + 2].value ELSE NoSize]
IsBase(k) ==
  /\ input[k].value # "Nullable"
  /\ \A j \in Elements : j < k => input[j].value = "Nullable"

LEMMA AssignsReference ==
  ASSUME ParserInv, StackInv, MeaningInv, TreeInv, AssignTypeInfo, phase' = "assigned",
         WellFormed, NullablesHaveArguments
  PROVE  info' = ColumnOf(CHOOSE k \in Elements : IsBase(k))
<1> USE TypeParserAssumption
<1>1. input \in Seq(Token) /\ Len(input) \in Nat /\ input # <<>> /\ input[1].type = "Name"
      /\ Elements = ElementsOf(input)
  BY WellFormedBegins DEF StackInv, WellFormed
<1>2. tree[Root].meta # "unset"
  BY <1>1 DEF MeaningInv, RootInv
<1>3. First(0) = Root
  BY DEF First, Root
<1>4. PICK f : AllRight(f)
  BY WellFormedBegins DEF TreeInv
<1> DEFINE MetaOf(k) == IF k = 0 THEN tree[Root].meta ELSE tree[First(k)].meta
           Ends(k) == MetaOf(k) # "Nullable" \/ tree[First(k)].elements = 0
           Found(k) == First(k) \in DOMAIN tree /\ Ends(k) /\ \A j \in 0 .. k - 1 : ~Ends(j)
           deepest == CHOOSE k \in 0..MaxTokens : Found(k)
<1>5. \E k \in 0..MaxTokens : Found(k)
  <2> DEFINE Stops == {k \in Nat : Ends(k)}
  <2>1. Stops \in SUBSET Nat /\ \A k \in Nat : k \notin Stops => tree[First(k)].elements # 0
    OBVIOUS
  <2> HIDE DEF Stops
  <2>2. PICK k \in 0..MaxTokens :
          First(k) \in Paths /\ k \in Stops /\ \A j \in 0 .. k - 1 : j \notin Stops
    BY <2>1, DescentEnds
  <2> USE DEF Stops
  <2>3. Ends(k) /\ \A j \in 0 .. k - 1 : ~Ends(j)
    BY <2>2
  <2> QED  BY <2>2, <2>3 DEF Paths
<1>6. deepest \in 0..MaxTokens /\ Found(deepest)
  <2> HIDE DEF Found
  <2> QED  BY <1>5
<1>7. MetaOf(deepest) # "Nullable" /\ info' = Assigned(First(deepest), MetaOf(deepest), deepest > 0)
  <2> DEFINE Meta(m, k) == IF k = 0 THEN m ELSE tree[First(k)].meta
             Stop(m, k) == \/ Meta(m, k) # "Nullable"
                           \/ tree[First(k)].elements = 0
             Last(m) == CHOOSE k \in 0..MaxTokens :
                          /\ First(k) \in DOMAIN tree /\ Stop(m, k)
                          /\ \A j \in 0 .. k - 1 : ~Stop(m, j)
             Column(m) == IF Meta(m, Last(m)) = "Nullable"
                          THEN phase' = "undefined" /\ info' = info
                          ELSE /\ phase' = "assigned"
                               /\ info' = Assigned(First(Last(m)), Meta(m, Last(m)), Last(m) > 0)
  <2>1. \E m \in IF tree[Root].meta = "unset" THEN Metas ELSE {tree[Root].meta} : Column(m)
    BY DEF AssignTypeInfo
  <2>2. Column(tree[Root].meta)
    <3> HIDE DEF Column
    <3> QED  BY <1>2, <2>1
  <2>3. deepest = Last(tree[Root].meta)
    OBVIOUS
  <2> HIDE DEF deepest, Last
  <2> QED  BY <2>2, <2>3
<1> HIDE DEF deepest
<1> DEFINE i == 2 * deepest + 1
<1>8. deepest \in Nat /\ MetaOf(deepest) = tree[First(deepest)].meta
      /\ \A k \in 0 .. deepest - 1 : tree[First(k)].meta = "Nullable"
  BY <1>3, <1>6
<1>9. OnTheWay(f, deepest)
  BY <1>4, <1>8, WayIsReached
<1>10. i \in Elements /\ f[i] = First(deepest) /\ (\A j \in Elements : j < i => input[j].value = "Nullable")
       /\ Describes(tree[f[i]], input[i])
  BY <1>1, <1>4, <1>9 DEF OnTheWay, AllRight, TreeRight
<1>11. /\ (deepest > 0) = (i > 1)
       /\ i \in Nat
  BY <1>8
<1> HIDE DEF i
<1>12. \A k \in Elements : k \in Nat /\ k \in 1..Len(input) /\ input[k].type \in {"Name", "Number"}
  BY <1>1 DEF ElementsOf
<1>13. input[i].value # "Nullable"
  <2> SUFFICES ASSUME input[i].value = "Nullable" PROVE FALSE
    OBVIOUS
  <2>1. i < Len(input) /\ input[i + 1].type = "LPar"
    BY <1>10 DEF NullablesHaveArguments
  <2>2. i \in 1 .. Len(input) - 1
    BY <1>1, <1>10, <1>12, <2>1
  <2>3. input[i + 1].type \in Followers[input[i].type]
    BY <2>2, WellFormedBegins
  <2>4. input[i].type = "Name"
    BY <1>10, <1>12, <2>1, <2>3 DEF Followers
  <2>5. tree[f[i]].meta = "Nullable"
    BY <1>10, <2>4 DEF Describes, getTypeMeta, Known
  <2> QED  BY <1>7, <1>8, <1>10, <2>5
<1>14. (CHOOSE k \in Elements : IsBase(k)) = i
  <2>1. IsBase(i)
    BY <1>10, <1>13 DEF IsBase
  <2>2. \A k \in Elements : IsBase(k) => k = i
    <3> SUFFICES ASSUME NEW k \in Elements, IsBase(k) PROVE k = i
      OBVIOUS
    <3>1. ~(k < i)  BY <1>10 DEF IsBase
    <3>2. ~(i < k)  BY <1>10, <1>13 DEF IsBase
    <3> QED  BY <1>11, <1>12, <3>1, <3>2
  <2> QED  BY <1>10, <2>1, <2>2
<1>15. (IF tree[f[i]].elements = 1 THEN tree[Append(f[i], 1)].size ELSE NoSize)
         = IF HasSize(i) THEN input[i + 2].value ELSE NoSize
  BY <1>1, <1>4, <1>10, SizeIsFound
<1>16. CASE input[i].type = "Name" /\ input[i].value \notin Known
  <2>1. tree[f[i]].meta = "Terminal" /\ tree[f[i]].name = input[i].value
    BY <1>10, <1>16 DEF Describes, getTypeMeta
  <2>2. MetaOf(deepest) = "Terminal"  BY <1>8, <1>10, <2>1
  <2>3. info' = [name |-> input[i].value, nullable |-> i > 1,
                 size |-> IF HasSize(i) THEN input[i + 2].value ELSE NoSize]
    <3>1. Assigned(First(deepest), "Terminal", deepest > 0)
            = [name |-> tree[f[i]].name, nullable |-> deepest > 0,
               size |-> IF tree[f[i]].elements = 1 THEN tree[Append(f[i], 1)].size ELSE NoSize]
      BY <1>10 DEF Assigned
    <3>2. info' = Assigned(First(deepest), "Terminal", deepest > 0)
      BY <1>7, <2>2
    <3> QED  BY <1>11, <1>15, <2>1, <3>1, <3>2
  <2>4. info' = ColumnOf(i)
    BY <1>16, <2>3 DEF ColumnOf
  <2> QED  BY <1>14, <2>4
<1>17. CASE ~(input[i].type = "Name" /\ input[i].value \notin Known)
  <2>1. tree[f[i]].meta # "Terminal"
    BY <1>10, <1>17 DEF Describes, getTypeMeta, Known
  <2>2. info' = [name |-> "String", nullable |-> i > 1, size |-> NoSize]
    BY <1>7, <1>8, <1>10, <1>11, <2>1 DEF Assigned
  <2>3. info' = ColumnOf(i)
    BY <1>17, <2>2 DEF ColumnOf
  <2> QED  BY <1>14, <2>3
<1> QED  BY <1>16, <1>17

(* The column of a well-formed type is nullable if the type is, has the    *)
(* name of the first element that is not Nullable, and the size that       *)
(* stands alone in its parentheses; for texts of any length and any depth  *)
(* of Nullables. assignTypeInfo.                                           *)
THEOREM ColumnsAreReference == Spec => []InfoIsReference
<1> DEFINE Meant == phase = "assigned" /\ WellFormed /\ NullablesHaveArguments
                      => info = ColumnOf(CHOOSE k \in Elements : IsBase(k))
           AllParts == ParserInv /\ StackInv /\ MeaningInv /\ TreeInv /\ Meant
<1>1. Init => AllParts
  <2>1. Init => phase # "assigned"  BY DEF Init
  <2> QED  BY <2>1, InitParserInv, InitStackInv, InitMeaningInv, InitTreeInv
<1>2. AllParts /\ [Next]_vars => AllParts'
  <2> SUFFICES ASSUME AllParts, [Next]_vars PROVE AllParts'
    OBVIOUS
  <2>1. ParserInv' /\ StackInv' /\ MeaningInv' /\ TreeInv'
    BY StepParserInv, StepStackInv, StepMeaningInv, StepTreeInv
  <2>2. Meant'
    <3> SUFFICES ASSUME phase' = "assigned", (WellFormed /\ NullablesHaveArguments)'
                 PROVE  info' = ColumnOf(CHOOSE k \in Elements : IsBase(k))'
      OBVIOUS
    <3>1. input' = input /\ (AssignTypeInfo \/ UNCHANGED vars)
      BY DEF Next, Name, Number, LPar, RPar, Comma, Underflow, Accept, Reject, AssignTypeInfo,
             Consume, vars
    <3>2. WellFormed /\ NullablesHaveArguments
      BY <3>1 DEF WellFormed, NullablesHaveArguments, Elements, Balanced, Depth, Count
    <3>3. ColumnOf(CHOOSE k \in Elements : IsBase(k))' = ColumnOf(CHOOSE k \in Elements : IsBase(k))
      BY <3>1 DEF ColumnOf, HasSize, IsBase, Elements
    <3>4. CASE AssignTypeInfo
      BY <3>2, <3>3, <3>4, AssignsReference
    <3>5. CASE UNCHANGED vars
      BY <3>2, <3>3, <3>5 DEF vars
    <3> QED  BY <3>1, <3>4, <3>5
  <2> QED  BY <2>1, <2>2
<1>3. AllParts => InfoIsReference
  <2> SUFFICES ASSUME AllParts PROVE InfoIsReference
    OBVIOUS
  <2>1. ColumnOf(CHOOSE k \in Elements : IsBase(k)) =
          LET i == CHOOSE k \in Elements :
                     /\ input[k].value # "Nullable"
                     /\ \A j \in Elements : j < k => input[j].value = "Nullable"
              terminal == input[i].type = "Name" /\ input[i].value \notin Known
              sized == /\ terminal /\ i + 3 <= Len(input) /\ input[i + 1].type = "LPar"
                       /\ input[i + 2].type = "Number" /\ input[i + 3].type = "RPar"
          IN  [name     |-> IF terminal THEN input[i].value ELSE "String",
               nullable |-> i > 1,
               size     |-> IF sized THEN input[i + 2].value ELSE NoSize]
    BY DEF ColumnOf, IsBase, HasSize
  <2> QED  BY <2>1 DEF InfoIsReference
<1> HIDE DEF AllParts
<1> QED  BY <1>1, <1>2, <1>3, PTL DEF Spec

-----------------------------------------------------------------------------
(* What the conversion of a size to LENGTH yields.                         *)
LEMMA WrapFacts ==
  ASSUME NEW n \in Int, NEW limit \in Nat \ {0}
  PROVE  /\ Wrap(n, limit) \in -limit .. limit - 1
         /\ n >= 0 => Wrap(n, limit) <= n
         /\ n \in 0 .. limit - 1 => Wrap(n, limit) = n
<1> DEFINE d == 2 * limit
           x == n + limit
<1>1. d \in Nat \ {0} /\ x \in Int
  OBVIOUS
<1>2. x % d \in 0 .. d - 1
  BY <1>1
<1>3. x >= 0 => x % d <= x
  BY <1>1
<1>4. x \in 0 .. d - 1 => x % d = x
  BY <1>1
<1> QED
  BY <1>1, <1>2, <1>3, <1>4 DEF Wrap

(* What a call for a string writes, reads and says.                        *)
StringFacts(n, b, given, r, room) ==
  /\ r.ret \in {"success", "info", "error"}
  /\ r.length \in Int /\ r.copied \in Nat /\ r.nul \in Nat \cup {NoNul}
  /\ r.ret # "error" /\ r.copied > 0 => r.copied <= room
  /\ r.ret # "error" /\ r.nul # NoNul => r.nul + Unit <= room
  /\ r.copied <= (n + 1) * Unit
  /\ Holds(n, b) /\ r.ret = "success" /\ r.copied > 0 => r.copied = (n + 1) * Unit
  /\ Holds(n, b) /\ room >= (n + 1) * Unit => r.ret = "success"
  /\ Holds(n, b) /\ given /\ room >= (n + 1) * Unit => r.copied = (n + 1) * Unit
  /\ Holds(n, b) /\ r.ret = "info" /\ room >= Unit =>
       /\ r.nul % Unit = 0 /\ r.nul + Unit <= room /\ r.nul + 2 * Unit > room
       /\ r.nul <= r.copied /\ r.nul < n * Unit
  /\ Holds(n, b) => r.length = IF b THEN n * Unit ELSE n

(* What fillOutputStringImpl returns, in each of its cases.                *)
LEMMA FillStringFacts ==
  ASSUME NEW n \in Nat, NEW b \in BOOLEAN, NEW m \in -1 .. LengthLimit - 1, NEW given \in BOOLEAN,
         NEW r, r = FillString(n, m, given, Unit, LengthLimit, b),
         NEW room, room = IF b THEN m ELSE m * Unit
  PROVE  StringFacts(n, b, given, r, room)
<1> DEFINE symbols == Wrap(n, LengthLimit)
           length  == Wrap(Reported(symbols, Unit, b), LengthLimit)
<1> USE OutputBuffersAssumption DEF OutputBuffersAssumption
<1>1. /\ symbols \in -LengthLimit .. LengthLimit - 1
      /\ symbols <= n
      /\ n < LengthLimit => symbols = n
  BY WrapFacts
<1>2. Reported(symbols, Unit, b) \in Int
  BY <1>1 DEF Reported
<1>3. length \in Int
  BY <1>2, WrapFacts
<1>4. ASSUME Holds(n, b) PROVE /\ symbols = n
                        /\ length = IF b THEN n * Unit ELSE n
  <2>1. n < LengthLimit
    BY <1>4 DEF Holds
  <2>2. symbols = n
    BY <2>1, <1>1
  <2>3. Reported(n, Unit, b) = (IF b THEN n * Unit ELSE n)
    BY DEF Reported
  <2>4. Reported(n, Unit, b) \in 0 .. LengthLimit - 1
    BY <2>3, <1>4 DEF Holds
  <2>5. Wrap(Reported(n, Unit, b), LengthLimit) = Reported(n, Unit, b)
    BY <2>4, WrapFacts
  <2> QED
    BY <2>2, <2>3, <2>5
<1>5. room \in Int /\ (m >= 0 => room \in 0 .. (LengthLimit - 1) * Unit) /\ (m < 0 => room < 0)
  OBVIOUS
<1> DEFINE copy(code, copied, nul) == r = Filled(code, length, copied, nul)
<1>6. CASE m < 0
  <2>1. copy("error", 0, NoNul)
    BY <1>6 DEF FillString, Filled
  <2> HIDE DEF symbols, length
  <2> QED
    BY <2>1, <1>3, <1>4, <1>5, <1>6 DEF StringFacts, Filled, NoNul
<1>7. CASE m >= 0 /\ ~given
  <2>1. copy("success", 0, NoNul)
    BY <1>7 DEF FillString, Filled
  <2> HIDE DEF symbols, length
  <2> QED
    BY <2>1, <1>3, <1>4, <1>5, <1>7 DEF StringFacts, Filled, NoNul
<1>8. CASE m >= 0 /\ given /\ Fits(symbols, room, Unit)
  <2>1. copy("success", (symbols + 1) * Unit, NoNul)
    BY <1>8 DEF FillString, Filled, Whole
  <2>2. symbols + 1 >= 0 /\ room >= (symbols + 1) * Unit
    BY <1>8 DEF Fits
  <2> HIDE DEF symbols, length
  <2>3. /\ (symbols + 1) * Unit \in Nat
        /\ (symbols + 1) * Unit <= (n + 1) * Unit
    BY <2>2, <1>1
  <2> QED
    BY <2>1, <2>2, <2>3, <1>3, <1>4, <1>5 DEF StringFacts, Filled, NoNul
<1>9. CASE m >= 0 /\ given /\ ~Fits(symbols, room, Unit) /\ room >= Unit
  <2> DEFINE nul == (room \div Unit - 1) * Unit
  <2>1. copy("info", room - Unit, nul)
    BY <1>9 DEF FillString, Filled, Cut
  <2>2. symbols + 1 < 0 \/ room < (symbols + 1) * Unit
    BY <1>9, <1>5, <1>1 DEF Fits
  <2> HIDE DEF symbols, length
  <2>3. room < (n + 1) * Unit
    BY <2>2, <1>1, <1>5
  <2>4. /\ nul \in Nat /\ nul % Unit = 0
        /\ nul + Unit <= room /\ nul + 2 * Unit > room
    <3>1. CASE Unit = 1
      BY <3>1, <1>9, <1>5
    <3>2. CASE Unit = 2
      BY <3>2, <1>9, <1>5
    <3>3. CASE Unit = 4
      BY <3>3, <1>9, <1>5
    <3> QED
      BY <3>1, <3>2, <3>3
  <2> HIDE DEF nul
  <2>5. nul < n * Unit
    BY <2>3, <2>4, <1>5
  <2> QED
    BY <2>1, <2>3, <2>4, <2>5, <1>3, <1>4, <1>5, <1>9 DEF StringFacts, Filled, NoNul
<1>10. CASE m >= 0 /\ given /\ ~Fits(symbols, room, Unit) /\ room < Unit
  <2>1. copy("info", 0, NoNul)
    BY <1>10 DEF FillString, Filled, Cut
  <2>2. symbols + 1 < 0 \/ room < (symbols + 1) * Unit
    BY <1>10, <1>5, <1>1 DEF Fits
  <2> HIDE DEF symbols, length
  <2>3. room < (n + 1) * Unit
    BY <2>2, <1>1, <1>5
  <2> QED
    BY <2>1, <2>3, <1>3, <1>4, <1>5, <1>10 DEF StringFacts, Filled, NoNul
<1> QED
  BY <1>5, <1>6, <1>7, <1>8, <1>9, <1>10

(* The same for a number.                                                  *)
LEMMA FillNumberFacts ==
  ASSUME NEW m \in -1 .. LengthLimit - 1, NEW given \in BOOLEAN,
         NEW r, r = FillNumber(NumberSize, m, given)
  PROVE  /\ r.ret \in {"success", "info", "error"}
         /\ r.length \in Int /\ r.copied \in Nat /\ r.nul = NoNul
         /\ r.copied > 0 => r.copied <= IF m = 0 THEN NumberSize ELSE m
         /\ r.copied <= NumberSize
         /\ r.ret = "success" /\ r.copied > 0 => r.copied = NumberSize
<1> USE OutputBuffersAssumption DEF OutputBuffersAssumption, Filled, FillNumber, CutNumber, NoNul
<1>1. CASE m < 0
  BY <1>1
<1>2. CASE m >= 0 /\ ~given
  BY <1>2
<1>3. CASE m >= 0 /\ given /\ (m = 0 \/ m >= NumberSize)
  BY <1>3
<1>4. CASE m > 0 /\ given /\ m < NumberSize
  BY <1>4
<1> QED
  BY <1>1, <1>2, <1>3, <1>4

-----------------------------------------------------------------------------
(* What the steps between a cut and the repeated call rely on: the length  *)
(* reported, and the buffer made from it.                                  *)
Remembers ==
  /\ IsString /\ Representable => last.length = IF inBytes THEN size * Unit ELSE size
  /\ asked = "grown" => last.ret = "info"
  /\ asked = "grown" /\ Representable => max >= 0 /\ Room = (size + 1) * Unit

Copied == NoOverrun /\ NoOverread
Told == SuccessIsWhole /\ CutIsLongestPrefix /\ RepeatSucceeds
Inv == BuffersTypeOK /\ Copied /\ Told /\ Remembers

(* An answer to a call for a string establishes all of it.                 *)
LEMMA StringAnswered ==
  ASSUME NEW n \in Nat, NEW b \in BOOLEAN, NEW m \in -1 .. LengthLimit - 1, NEW given \in BOOLEAN,
         size' = n, inBytes' = b, max' = m,
         last' = FillString(n, m, given, Unit, LengthLimit, b),
         \/ asked' = "string"
         \/ /\ asked' = "again" /\ given
            /\ Holds(n, b) => (IF b THEN m ELSE m * Unit) = (n + 1) * Unit
  PROVE  Inv'
<1> USE OutputBuffersAssumption DEF OutputBuffersAssumption
<1> DEFINE r == FillString(n, m, given, Unit, LengthLimit, b)
           room == IF b THEN m ELSE m * Unit
<1>0. /\ r = FillString(n, m, given, Unit, LengthLimit, b)
      /\ room = IF b THEN m ELSE m * Unit
  OBVIOUS
<1> HIDE DEF r, room
<1>1. StringFacts(n, b, given, r, room)
  BY <1>0, FillStringFacts
<1>2. /\ last' = r /\ Room' = room /\ Source' = (n + 1) * Unit /\ Owned' = room
      /\ Representable' = Holds(n, b) /\ IsString'
  BY <1>0 DEF Room, Source, Owned, Representable, Holds, IsString
<1>3. asked' \in {"string", "again"} /\ room \in Int /\ (n + 1) * Unit \in Int
  BY <1>0
<1>4. BuffersTypeOK'
  BY <1>1, <1>2, <1>3 DEF StringFacts, BuffersTypeOK
<1>5. Copied'
  BY <1>1, <1>2, <1>3 DEF StringFacts, Copied, NoOverrun, NoOverread
<1>6. SuccessIsWhole'
  BY <1>1, <1>2, <1>3 DEF StringFacts, SuccessIsWhole
<1>7. CutIsLongestPrefix'
  BY <1>1, <1>2, <1>3 DEF StringFacts, CutIsLongestPrefix
<1>8. RepeatSucceeds'
  <2> SUFFICES ASSUME asked' = "again", Holds(n, b)
               PROVE  r.ret = "success" /\ r.copied = (n + 1) * Unit
    BY <1>2 DEF RepeatSucceeds
  <2>1. given /\ room >= (n + 1) * Unit
    BY <1>0, <1>3
  <2> QED
    BY <2>1, <1>1 DEF StringFacts
<1>9. Remembers'
  BY <1>1, <1>2, <1>3 DEF StringFacts, Remembers
<1> QED
  BY <1>4, <1>5, <1>6, <1>7, <1>8, <1>9 DEF Inv, Told

(* Nothing was read yet.                                                   *)
LEMMA InvInit == BuffersInit => Inv
BY OutputBuffersAssumption
   DEF OutputBuffersAssumption, BuffersInit, Inv, BuffersTypeOK, Copied, NoOverrun, NoOverread,
       Told, SuccessIsWhole, CutIsLongestPrefix, RepeatSucceeds, Remembers, IsString,
       Source, Owned, Room, FillNull, Filled, NoNul, NullData

(* One case per call.                                                      *)
LEMMA InvNext == Inv /\ [BuffersNext]_buffersVars => Inv'
<1> SUFFICES ASSUME Inv, [BuffersNext]_buffersVars PROVE Inv'
  OBVIOUS
<1> USE OutputBuffersAssumption DEF OutputBuffersAssumption
<1>1. ASSUME NEW n \in 0..MaxSize, NEW b \in BOOLEAN, NEW m \in -1 .. LengthLimit - 1, NEW given \in BOOLEAN,
             ReadString(n, b, m, given)
      PROVE  Inv'
  BY <1>1, StringAnswered DEF ReadString
<1>2. ASSUME NEW m \in -1 .. LengthLimit - 1, NEW given \in BOOLEAN, ReadNumber(m, given)
      PROVE  Inv'
  <2> DEFINE r == FillNumber(NumberSize, m, given)
  <2>1. /\ r.ret \in {"success", "info", "error"}
        /\ r.length \in Int /\ r.copied \in Nat /\ r.nul = NoNul
        /\ r.copied > 0 => r.copied <= IF m = 0 THEN NumberSize ELSE m
        /\ r.copied <= NumberSize
        /\ r.ret = "success" /\ r.copied > 0 => r.copied = NumberSize
    BY FillNumberFacts
  <2>2. last' = r /\ size' = NumberSize /\ inBytes' = inBytes /\ inBytes \in BOOLEAN /\ max' = m /\ asked' = "number"
    BY <1>2 DEF ReadNumber, Inv, BuffersTypeOK
  <2> HIDE DEF r
  <2>3. /\ Source' = NumberSize /\ Owned' = IF m = 0 THEN NumberSize ELSE m
        /\ ~IsString'
    BY <2>2 DEF Source, Owned, IsString
  <2>4. BuffersTypeOK'
    BY <2>1, <2>2 DEF BuffersTypeOK
  <2>5. Copied'
    BY <2>1, <2>2, <2>3 DEF Copied, NoOverrun, NoOverread
  <2>6. Told'
    BY <2>1, <2>2, <2>3 DEF Told, SuccessIsWhole, CutIsLongestPrefix, RepeatSucceeds
  <2>7. Remembers'
    BY <2>2, <2>3 DEF Remembers
  <2> QED
    BY <2>4, <2>5, <2>6, <2>7 DEF Inv
<1>3. ASSUME NEW m \in -1 .. LengthLimit - 1, ReadNull(m)
      PROVE  Inv'
  <2>1. /\ last' = FillNull /\ size' = size /\ inBytes' = inBytes /\ max' = m /\ asked' = "null"
        /\ size \in Nat /\ inBytes \in BOOLEAN
    BY <1>3 DEF ReadNull, Inv, BuffersTypeOK
  <2>2. /\ last'.ret = "success" /\ last'.copied = 0 /\ last'.nul = NoNul
        /\ last'.length \in Int
    BY <2>1 DEF FillNull, Filled, NullData
  <2>3. Source' = (size + 1) * Unit /\ ~IsString'
    BY <2>1 DEF Source, IsString
  <2>4. BuffersTypeOK'
    BY <2>1, <2>2 DEF BuffersTypeOK
  <2>5. Copied'
    BY <2>1, <2>2, <2>3 DEF Copied, NoOverrun, NoOverread
  <2>6. Told' /\ Remembers'
    BY <2>1, <2>2, <2>3
       DEF Told, SuccessIsWhole, CutIsLongestPrefix, RepeatSucceeds, Remembers
  <2> QED
    BY <2>4, <2>5, <2>6 DEF Inv
<1>4. CASE Grow
  <2>1. /\ last' = last /\ size' = size /\ inBytes' = inBytes /\ max' = Enlarged /\ asked' = "grown"
        /\ asked = "string" /\ last.ret = "info" /\ Enlarged > max /\ Enlarged < LengthLimit
        /\ size \in Nat /\ inBytes \in BOOLEAN /\ max \in -1 .. LengthLimit - 1 /\ last.length \in Int
    BY <1>4 DEF Grow, Inv, BuffersTypeOK
  <2>2. Enlarged \in 0 .. LengthLimit - 1
    BY <2>1 DEF Enlarged
  <2>3. BuffersTypeOK'
    BY <1>4, <2>1, <2>2 DEF Inv, BuffersTypeOK
  <2>4. Copied'
    <3>1. NoOverread
      BY DEF Inv, Copied
    <3>2. Source' = Source
      BY <2>1 DEF Source
    <3> QED
      BY <3>1, <3>2, <2>1 DEF Copied, NoOverrun, NoOverread
  <2>5. Told'
    BY <2>1 DEF Told, SuccessIsWhole, CutIsLongestPrefix, RepeatSucceeds, IsString
  <2>6. ASSUME Holds(size, inBytes) PROVE Enlarged >= 0 /\ Room' = (size + 1) * Unit
    <3>1. last.length = IF inBytes THEN size * Unit ELSE size
      BY <2>1, <2>6 DEF Inv, Remembers, IsString, Representable
    <3>2. Enlarged = IF inBytes THEN (size + 1) * Unit ELSE size + 1
      BY <3>1, <2>1 DEF Enlarged
    <3>3. Room' = IF inBytes THEN Enlarged ELSE Enlarged * Unit
      BY <2>1 DEF Room
    <3> QED
      BY <2>2, <3>2, <3>3, <2>1
  <2>7. Representable' = Holds(size, inBytes)
    BY <2>1 DEF Representable, Holds
  <2>8. Remembers'
    BY <2>1, <2>6, <2>7 DEF Remembers, IsString
  <2> QED
    BY <2>3, <2>4, <2>5, <2>8 DEF Inv
<1>5. CASE ReadAgain
  <2>1. /\ last' = FillString(size, max, TRUE, Unit, LengthLimit, inBytes)
        /\ size' = size /\ inBytes' = inBytes /\ max' = max /\ asked' = "again" /\ asked = "grown"
        /\ size \in Nat /\ inBytes \in BOOLEAN /\ max \in -1 .. LengthLimit - 1
    BY <1>5 DEF ReadAgain, Inv, BuffersTypeOK
  <2>2. Holds(size, inBytes) => (IF inBytes THEN max ELSE max * Unit) = (size + 1) * Unit
    BY <2>1 DEF Inv, Remembers, Representable, Room
  <2> QED
    BY <2>1, <2>2, StringAnswered
<1>6. CASE UNCHANGED buffersVars
  BY <1>6 DEF buffersVars, Inv, BuffersTypeOK, Copied, NoOverrun, NoOverread, Told, SuccessIsWhole,
     CutIsLongestPrefix, RepeatSucceeds, Remembers, IsString, Source, Owned, Room,
     Representable, Holds
<1> QED
  BY <1>1, <1>2, <1>3, <1>4, <1>5, <1>6 DEF BuffersNext

(* The invariant in every reachable state.                                 *)
LEMMA InvHolds == BuffersSpec => []Inv
BY InvInit, InvNext, PTL DEF BuffersSpec

(* The type invariant.                                                     *)
THEOREM BuffersTyped == BuffersSpec => []BuffersTypeOK
<1>1. Inv => BuffersTypeOK
  BY DEF Inv
<1> QED
  BY <1>1, InvHolds, PTL

(* Whatever the sizes and lengths and however they wrap, the fillOutput    *)
(* functions write no byte behind the application's buffer.                *)
THEOREM NeverOverrun == BuffersSpec => []NoOverrun
<1>1. Inv => NoOverrun
  BY DEF Inv, Copied
<1> QED
  BY <1>1, InvHolds, PTL

(* Nor do they read a byte behind the NUL of the value.                    *)
THEOREM NeverOverread == BuffersSpec => []NoOverread
<1>1. Inv => NoOverread
  BY DEF Inv, Copied
<1> QED
  BY <1>1, InvHolds, PTL

(* SQL_SUCCESS means all of the value, for sizes that fit the type of the  *)
(* length.                                                                 *)
THEOREM SuccessMeansWhole == BuffersSpec => []SuccessIsWhole
<1>1. Inv => SuccessIsWhole
  BY DEF Inv, Told
<1> QED
  BY <1>1, InvHolds, PTL

(* A string that was cut is the longest terminated prefix.                 *)
THEOREM CutWell == BuffersSpec => []CutIsLongestPrefix
<1>1. Inv => CutIsLongestPrefix
  BY DEF Inv, Told
<1> QED
  BY <1>1, InvHolds, PTL

(* The second call succeeds with a buffer of the length the first reported.*)
THEOREM SecondCallSucceeds == BuffersSpec => []RepeatSucceeds
<1>1. Inv => RepeatSucceeds
  BY DEF Inv, Told
<1> QED
  BY <1>1, InvHolds, PTL

-----------------------------------------------------------------------------
(* DataRetrieval: how a statement hands out a result.                      *)
USE DEF Return, Throw, result, app

(* A row, and what a buffer holds, comes before a row in the order of the  *)
(* requests and, within a reply, of its rows.                              *)
Before(a, b) == a.result < b.result \/ (a.result = b.result /\ a.row < b.row)

AnyRow == [result : Nat, row : Nat, cells : Seq(Cells)]

(* Rows of no request later than n, each before the next.                  *)
Ordered(q, n) ==
  /\ q \in Seq(AnyRow)
  /\ \A i \in 1..Len(q) : q[i].result <= n
  /\ \A i, j \in 1..Len(q) : i < j => Before(q[i], q[j])

(* Every row in q is in p or of a request later than n.                    *)
TakenFrom(q, p, n) ==
  \A i \in 1..Len(q) : (\E j \in 1..Len(p) : q[i] = p[j]) \/ q[i].result > n

QueueInv == opened \in Nat /\ rows \in Nat /\ Ordered(ahead, opened)

(* What buffers hold comes before all that is still to be handed out.      *)
BuffersInv ==
  /\ DOMAIN buffer = Columns
  /\ \A c \in Columns : /\ buffer[c].result \in 0..opened /\ buffer[c].row \in Nat
                        /\ \A i \in 1..Len(ahead) : Before(buffer[c], ahead[i])

(* Columns in the map are those of the application, or fewer.              *)
BoundInv ==
  /\ columns \in Seq(Types)
  /\ DOMAIN bindings \subseteq Columns
  /\ DOMAIN bindings \subseteq wanted

(* While nothing has failed, the rows to be handed out are those of the    *)
(* result opened last that follow the rows handed out already.             *)
PlaceInv ==
  ~failed =>
    /\ cursor = "closed" => ahead = <<>> /\ columns = <<>> /\ rows = 0
    /\ cursor # "closed" =>
         \A i \in 1..Len(ahead) : ahead[i].result = opened /\ ahead[i].row = rows + i

(* Rows left by an earlier request, and those of the reply to this one.    *)
Joined(r) == ahead \o RowsOf(r)

-----------------------------------------------------------------------------
(* The rows of a reply.                                                    *)
LEMMA ReplyRows ==
  ASSUME NEW r \in Results, QueueInv
  PROVE  /\ RowsOf(r) \in Seq(AnyRow) /\ Len(RowsOf(r)) = Len(r.rows)
         /\ Len(r.rows) \in Nat
         /\ \A n \in 1..Len(r.rows) : RowsOf(r)[n].result = opened + 1 /\ RowsOf(r)[n].row = n
<1>1. r.rows \in Seq(Seq(Cells))
  BY DataRetrievalAssumption DEF DataRetrievalAssumption
<1>2. Len(r.rows) \in Nat /\ DOMAIN r.rows = 1..Len(r.rows)
  BY <1>1, LenProperties
<1>3. \A n \in 1..Len(r.rows) : r.rows[n] \in Seq(Cells)
  BY <1>1, ElementOfSeq
<1>4. opened + 1 \in Nat
  BY DEF QueueInv
<1>5. RowsOf(r) = [n \in 1..Len(r.rows) |-> Row(opened + 1, n, r.rows[n])]
  BY <1>2 DEF RowsOf
<1>6. \A n \in 1..Len(r.rows) : Row(opened + 1, n, r.rows[n]) \in AnyRow
  BY <1>3, <1>4 DEF Row, AnyRow
<1>7. RowsOf(r) \in Seq(AnyRow) /\ Len(RowsOf(r)) = Len(r.rows)
  BY <1>2, <1>5, <1>6
<1>8. \A n \in 1..Len(r.rows) : RowsOf(r)[n].result = opened + 1 /\ RowsOf(r)[n].row = n
  BY <1>5 DEF Row
<1> QED
  BY <1>2, <1>7, <1>8

(* They come behind all that an earlier request left.                      *)
LEMMA JoinedRows ==
  ASSUME NEW r \in Results, QueueInv
  PROVE  /\ Ordered(Joined(r), opened + 1)
         /\ TakenFrom(Joined(r), ahead, opened)
         /\ Len(Joined(r)) = Len(ahead) + Len(r.rows) /\ Len(ahead) \in Nat
<1> DEFINE q == Joined(r)
           p == RowsOf(r)
           k == Len(ahead)
<1>1. /\ p \in Seq(AnyRow) /\ Len(p) = Len(r.rows) /\ Len(p) \in Nat
      /\ \A n \in 1..Len(p) : p[n].result = opened + 1 /\ p[n].row = n
  BY ReplyRows
<1>2. /\ ahead \in Seq(AnyRow) /\ opened \in Nat
      /\ \A i \in 1..k : ahead[i].result <= opened
      /\ \A i, j \in 1..k : i < j => Before(ahead[i], ahead[j])
  BY DEF QueueInv, Ordered
<1>3. k \in Nat /\ \A i \in 1..k : ahead[i] \in AnyRow
  BY <1>2, LenProperties, ElementOfSeq
<1>0. q = ahead \o p /\ k = Len(ahead)
  BY DEF Joined
<1> HIDE DEF q, p, k
<1>4. /\ q \in Seq(AnyRow) /\ Len(q) = k + Len(p)
      /\ \A i \in 1..k + Len(p) : q[i] = IF i <= k THEN ahead[i] ELSE p[i - k]
  <2>1. /\ ahead \o p \in Seq(AnyRow) /\ Len(ahead \o p) = Len(ahead) + Len(p)
        /\ \A i \in 1..Len(ahead) + Len(p) :
             (ahead \o p)[i] = IF i <= Len(ahead) THEN ahead[i] ELSE p[i - Len(ahead)]
    <3>1. p \in Seq(AnyRow) /\ ahead \in Seq(AnyRow)
      BY <1>1, <1>2
    <3> QED
      BY <3>1, ConcatProperties, Zenon
  <2> QED
    BY <2>1, <1>0
<1>5. \A i \in 1..Len(q) : i <= k => q[i] = ahead[i] /\ i \in 1..k
  BY <1>1, <1>3, <1>4
<1>6. \A i \in 1..Len(q) : i > k => q[i].result = opened + 1 /\ q[i].row = i - k
  <2> SUFFICES ASSUME NEW i \in 1..Len(q), i > k
               PROVE  q[i].result = opened + 1 /\ q[i].row = i - k
    OBVIOUS
  <2>1. q[i] = p[i - k] /\ i - k \in 1..Len(p)
    BY <1>1, <1>3, <1>4
  <2> QED
    BY <2>1, <1>1
<1>7. \A i \in 1..Len(q) : q[i].result <= opened + 1
  <2> SUFFICES ASSUME NEW i \in 1..Len(q) PROVE q[i].result <= opened + 1
    OBVIOUS
  <2>1. CASE i <= k
    <3>1. q[i] = ahead[i] /\ i \in 1..k
      BY <2>1, <1>5
    <3>2. ahead[i].result <= opened /\ ahead[i].result \in Nat
      BY <3>1, <1>2, <1>3 DEF AnyRow
    <3> QED
      BY <3>1, <3>2, <1>2
  <2>2. CASE i > k
    BY <2>2, <1>2, <1>6
  <2> QED
    BY <2>1, <2>2, <1>1, <1>3, <1>4
<1>8. \A i, j \in 1..Len(q) : i < j => Before(q[i], q[j])
  <2> SUFFICES ASSUME NEW i \in 1..Len(q), NEW j \in 1..Len(q), i < j
               PROVE  Before(q[i], q[j])
    OBVIOUS
  <2>1. CASE j <= k
    <3>1. i \in 1..k /\ j \in 1..k /\ q[i] = ahead[i] /\ q[j] = ahead[j]
      BY <2>1, <1>1, <1>3, <1>4, <1>5
    <3> QED
      BY <3>1, <1>2
  <2>2. CASE i <= k /\ j > k
    <3>1. q[i] = ahead[i] /\ i \in 1..k /\ q[j].result = opened + 1
      BY <2>2, <1>5, <1>6
    <3>2. ahead[i].result <= opened /\ ahead[i].result \in Nat
      BY <3>1, <1>2, <1>3 DEF AnyRow
    <3> QED
      BY <3>1, <3>2, <1>2 DEF Before
  <2>3. CASE i > k /\ j > k
    <3>1. q[i].result = opened + 1 /\ q[j].result = opened + 1 /\ q[i].row = i - k /\ q[j].row = j - k
      BY <2>3, <1>6
    <3> QED
      BY <3>1, <1>3 DEF Before
  <2> QED
    BY <2>1, <2>2, <2>3, <1>1, <1>3, <1>4
<1>9. TakenFrom(q, ahead, opened)
  <2> SUFFICES ASSUME NEW i \in 1..Len(q)
               PROVE  (\E j \in 1..Len(ahead) : q[i] = ahead[j]) \/ q[i].result > opened
    BY DEF TakenFrom
  <2>1. CASE i <= k
    BY <2>1, <1>5 DEF k
  <2>2. CASE i > k
    BY <2>2, <1>2, <1>6
  <2> QED
    BY <2>1, <2>2, <1>1, <1>3, <1>4
<1> QED
  BY <1>1, <1>3, <1>4, <1>7, <1>8, <1>9 DEF Ordered, q, p, k

(* A part of an ordered queue is one.                                      *)
LEMMA PartOfQueue ==
  ASSUME NEW q, NEW p, NEW n, NEW m, Ordered(q, n), TakenFrom(q, p, m),
         NEW a \in Nat \ {0}, NEW b \in Nat, b <= Len(q)
  PROVE  Ordered(SubSeq(q, a, b), n) /\ TakenFrom(SubSeq(q, a, b), p, m)
<1> DEFINE s == SubSeq(q, a, b)
<1>1. q \in Seq(AnyRow)
  BY DEF Ordered
<1>2. Len(q) \in Nat /\ \A i \in 1..Len(q) : q[i] \in AnyRow
  BY <1>1, LenProperties, ElementOfSeq
<1>3. \A i \in a..b : i \in 1..Len(q)
  BY <1>2
<1>4. \A i \in a..b : q[i] \in AnyRow
  BY <1>2, <1>3
<1>5. /\ s \in Seq(AnyRow)
      /\ Len(s) = IF a <= b THEN b - a + 1 ELSE 0
      /\ \A i \in 1..b - a + 1 : s[i] = q[a + i - 1]
  BY <1>4, SubSeqProperties
<1> HIDE DEF s
<1>6. \A i \in 1..Len(s) : s[i] = q[a + i - 1] /\ a + i - 1 \in 1..Len(q)
  BY <1>2, <1>5
<1>7. \A i \in 1..Len(s) : s[i].result <= n
  BY <1>6 DEF Ordered
<1>8. \A i, j \in 1..Len(s) : i < j => Before(s[i], s[j])
  <2> SUFFICES ASSUME NEW i \in 1..Len(s), NEW j \in 1..Len(s), i < j
               PROVE  Before(s[i], s[j])
    OBVIOUS
  <2>1. s[i] = q[a + i - 1] /\ s[j] = q[a + j - 1] /\ a + i - 1 \in 1..Len(q) /\ a + j - 1 \in 1..Len(q)
    BY <1>6
  <2>2. a + i - 1 < a + j - 1
    BY <1>2, <1>5
  <2> QED
    BY <2>1, <2>2 DEF Ordered
<1>9. TakenFrom(s, p, m)
  BY <1>6 DEF TakenFrom
<1> QED
  BY <1>5, <1>7, <1>8, <1>9 DEF Ordered, s

(* A call that fetches no row keeps the rows to be handed out, drops them  *)
(* all, or puts rows of a new reply behind them and drops some.            *)
LEMMA QueueSteps ==
  ASSUME QueueInv, [RetrievalNext]_retrievalVars, ~FetchRow
  PROVE  /\ opened' = opened \/ opened' = opened + 1
         /\ \/ ahead' = ahead
            \/ ahead' = <<>>
            \/ /\ opened' = opened + 1
               /\ \E r \in Results : ahead' = Joined(r)
            \/ /\ opened' = opened + 1
               /\ \E r \in Results, a \in Nat \ {0}, b \in Nat :
                    b <= Len(Joined(r)) /\ ahead' = SubSeq(Joined(r), a, b)
<1>1. CASE ExecuteNoColumns \/ ExecuteRefused \/ \E r \in Results : ExecuteTornHeader(r)
  BY <1>1 DEF ExecuteNoColumns, ExecuteRefused, ExecuteTornHeader, Request
<1>2. ASSUME NEW r \in Results, ExecuteTable(r)
      PROVE  opened' = opened + 1 /\ ahead' = Joined(r)
  BY <1>2 DEF ExecuteTable, Request, Joined
<1>3. ASSUME NEW r \in Results, ExecuteThrows(r)
      PROVE  /\ opened' = opened + 1
             /\ \E a \in Nat \ {0}, b \in Nat :
                  b <= Len(Joined(r)) /\ ahead' = SubSeq(Joined(r), a, b)
  <2>1. opened' = opened + 1
    BY <1>3 DEF ExecuteThrows, Request
  <2>2. PICK n \in 0..Len(r.rows), k \in 0..(Len(ahead) + Len(r.rows)) :
          ahead' = SubSeq(Joined(r), k + 1, Len(ahead) + n)
    BY <1>3 DEF ExecuteThrows, Joined
  <2>3. Len(ahead) \in Nat /\ Len(r.rows) \in Nat /\ Len(Joined(r)) = Len(ahead) + Len(r.rows)
    BY JoinedRows, ReplyRows
  <2>4. k + 1 \in Nat \ {0} /\ Len(ahead) + n \in Nat /\ Len(ahead) + n <= Len(Joined(r))
    BY <2>3
  <2> QED
    BY <2>1, <2>2, <2>4
<1>4. CASE FetchEnd \/ FetchThrows \/ FetchUndefined \/ FetchOther \/ BindRefused \/ UnbindAll
  BY <1>4 DEF FetchEnd, FetchThrows, FetchUndefined, FetchOther, BindRefused, UnbindAll
<1>5. CASE CloseCursor \/ Close
  BY <1>5 DEF CloseCursor, Close, Reset
<1>6. ASSUME NEW c \in Columns, NEW t \in Targets, NEW m \in BufferSizes,
             GetData(c, t, m) \/ Bind(c, t, m)
      PROVE  opened' = opened /\ ahead' = ahead
  BY <1>6 DEF GetData, Bind
<1>7. ASSUME NEW c \in Columns, Unbind(c) \/ Describe(c)
      PROVE  opened' = opened /\ ahead' = ahead
  BY <1>7 DEF Unbind, Describe
<1>8. CASE UNCHANGED retrievalVars
  BY <1>8 DEF retrievalVars
<1> QED
  BY <1>1, <1>2, <1>3, <1>4, <1>5, <1>6, <1>7, <1>8 DEF RetrievalNext, Execute

(* So they stay in order, and no row comes back that was not among them.   *)
LEMMA QueueStays ==
  ASSUME QueueInv, [RetrievalNext]_retrievalVars, ~FetchRow
  PROVE  /\ Ordered(ahead', opened') /\ TakenFrom(ahead', ahead, opened)
         /\ opened' = opened \/ opened' = opened + 1
<1>1. /\ opened \in Nat /\ Ordered(ahead, opened)
      /\ Len(ahead) \in Nat /\ \A i \in 1..Len(ahead) : ahead[i] \in AnyRow
  BY LenProperties, ElementOfSeq DEF QueueInv, Ordered
<1>2. Ordered(ahead, opened + 1)
  <2>1. \A i \in 1..Len(ahead) : ahead[i].result <= opened + 1
    <3> SUFFICES ASSUME NEW i \in 1..Len(ahead) PROVE ahead[i].result <= opened + 1
      OBVIOUS
    <3>1. ahead[i].result <= opened /\ ahead[i].result \in Nat
      BY <1>1 DEF Ordered, AnyRow
    <3> QED
      BY <3>1, <1>1
  <2> QED
    BY <2>1, <1>1 DEF Ordered
<1>3. TakenFrom(ahead, ahead, opened)
  BY DEF TakenFrom
<1>4. \A n : Ordered(<<>>, n) /\ TakenFrom(<<>>, ahead, opened)
  <2>1. <<>> \in Seq(AnyRow) /\ Len(<<>>) = 0
    BY EmptySeq
  <2> QED
    BY <2>1 DEF Ordered, TakenFrom
<1>5. \A r \in Results : Ordered(Joined(r), opened + 1) /\ TakenFrom(Joined(r), ahead, opened)
  BY JoinedRows
<1>6. ASSUME NEW r \in Results, NEW a \in Nat \ {0}, NEW b \in Nat, b <= Len(Joined(r))
      PROVE  /\ Ordered(SubSeq(Joined(r), a, b), opened + 1)
             /\ TakenFrom(SubSeq(Joined(r), a, b), ahead, opened)
  BY <1>5, <1>6, PartOfQueue
<1>7. opened' = opened \/ opened' = opened + 1
  BY QueueSteps
<1>8. CASE ahead' = ahead
  BY <1>8, <1>1, <1>2, <1>3, <1>7
<1>9. CASE ahead' = <<>>
  BY <1>9, <1>4, <1>7
<1>10. CASE opened' = opened + 1 /\ \E r \in Results : ahead' = Joined(r)
  BY <1>10, <1>5
<1>11. CASE /\ opened' = opened + 1
            /\ \E r \in Results, a \in Nat \ {0}, b \in Nat :
                 b <= Len(Joined(r)) /\ ahead' = SubSeq(Joined(r), a, b)
  <2>1. PICK r \in Results, a \in Nat \ {0}, b \in Nat :
          b <= Len(Joined(r)) /\ ahead' = SubSeq(Joined(r), a, b)
    BY <1>11
  <2> QED
    BY <2>1, <1>6, <1>11
<1> QED
  BY <1>8, <1>9, <1>10, <1>11, QueueSteps

-----------------------------------------------------------------------------
(* Columns that are reached are bound and do not fail.                     *)
LEMMA ReachedSucceeds ==
  ASSUME BoundInv, NEW row \in AnyRow, NEW c \in Reached(row)
  PROVE  /\ c \in DOMAIN bindings /\ c \notin Failing(row)
         /\ c <= Len(columns) /\ c <= Len(row.cells)
<1>1. MaxColumns \in Nat
  BY DataRetrievalAssumption DEF DataRetrievalAssumption
<1>2. \A d \in DOMAIN bindings : d \in Int
  BY <1>1 DEF BoundInv, Columns
<1>3. c \in DOMAIN bindings /\ \A f \in Failing(row) : c < f
  BY DEF Reached
<1>4. c \in Int
  BY <1>2, <1>3
<1>5. c \in Failing(row) => c < c
  BY <1>3
<1>6. c \notin Failing(row)
  BY <1>4, <1>5
<1>7. Code(row, c) # "error" /\ Code(row, c) # "undefined"
  BY <1>3, <1>6 DEF Failing
<1>8. ~(c > Len(columns))
  BY <1>7 DEF Code
<1>9. ~(c > Len(row.cells))
  BY <1>7, <1>8 DEF Code
<1>10. Len(columns) \in Nat /\ Len(row.cells) \in Nat
  BY LenProperties DEF BoundInv, AnyRow
<1> QED
  BY <1>3, <1>4, <1>6, <1>8, <1>9, <1>10

(* A fetch that does not fail reaches every bound column.                  *)
LEMMA AllReached ==
  ASSUME NEW row, FetchCode(row) # "error"
  PROVE  Reached(row) = DOMAIN bindings
<1>1. Failing(row) = {}
  BY DEF FetchCode
<1> QED
  BY <1>1 DEF Reached

(* What a row leaves behind.                                               *)
LEMMA FetchEffect ==
  ASSUME FetchRow
  PROVE  /\ ahead # <<>> /\ ahead' = Tail(ahead) /\ rows' = rows + 1
         /\ current' = Head(ahead) /\ ret' = FetchCode(Head(ahead)) /\ call' = "fetch"
         /\ UNCHANGED <<columns, opened, failed, bindings, wanted, undefined>>
         /\ cursor # "closed" /\ cursor' \in {cursor, "positioned"}
         /\ DOMAIN buffer' = Columns
         /\ \A c \in Columns :
              IF c \in Reached(Head(ahead))
              THEN /\ buffer'[c].result = Head(ahead).result
                   /\ buffer'[c].row = Head(ahead).row
                   /\ buffer'[c].ret = Code(Head(ahead), c)
              ELSE buffer'[c] = buffer[c]
<1> DEFINE row == Head(ahead)
           written(c) == [result |-> row.result, row |-> row.row, ret |-> Code(row, c)]
<1>1. /\ ahead # <<>> /\ ahead' = Tail(ahead) /\ rows' = rows + 1
      /\ current' = row /\ ret' = FetchCode(row) /\ call' = "fetch"
      /\ UNCHANGED <<columns, opened, failed, bindings, wanted, undefined>>
      /\ cursor # "closed"
      /\ cursor' = IF FetchCode(row) = "error" THEN cursor ELSE "positioned"
      /\ buffer' = [c \in Columns |-> IF c \in Reached(row) THEN written(c) ELSE buffer[c]]
  BY DEF FetchRow, MayFetch
<1>2. \A c : /\ written(c).result = row.result /\ written(c).row = row.row
             /\ written(c).ret = Code(row, c)
  OBVIOUS
<1> HIDE DEF written, row
<1>3. cursor' \in {cursor, "positioned"}
  BY <1>1
<1>4. DOMAIN buffer' = Columns
  BY <1>1
<1>5. \A c \in Columns :
        IF c \in Reached(row) THEN buffer'[c] = written(c) ELSE buffer'[c] = buffer[c]
  BY <1>1
<1>6. \A c \in Columns :
        IF c \in Reached(row)
        THEN /\ buffer'[c].result = row.result /\ buffer'[c].row = row.row
             /\ buffer'[c].ret = Code(row, c)
        ELSE buffer'[c] = buffer[c]
  BY <1>2, <1>5
<1> QED
  BY <1>1, <1>3, <1>4, <1>6 DEF row

(* The rows behind the first.                                              *)
LEMMA TailOfQueue ==
  ASSUME QueueInv, ahead # <<>>
  PROVE  /\ Head(ahead) = ahead[1] /\ Head(ahead) \in AnyRow
         /\ 1 \in 1..Len(ahead)
         /\ Ordered(Tail(ahead), opened)
         /\ \A i \in 1..Len(Tail(ahead)) :
              Tail(ahead)[i] = ahead[i + 1] /\ i + 1 \in 1..Len(ahead)
<1> DEFINE t == Tail(ahead)
<1>1. ahead \in Seq(AnyRow) /\ Len(ahead) \in Nat \ {0}
  BY EmptySeq DEF QueueInv, Ordered
<1>2. /\ Head(ahead) \in AnyRow /\ t \in Seq(AnyRow) /\ Len(t) = Len(ahead) - 1
      /\ \A i \in 1..Len(t) : t[i] = ahead[i + 1]
  BY <1>1, HeadTailProperties
<1>3. Head(ahead) = ahead[1]
  BY <1>1
<1> HIDE DEF t
<1>4. \A i \in 1..Len(t) : t[i] = ahead[i + 1] /\ i + 1 \in 1..Len(ahead)
  BY <1>1, <1>2
<1>5. \A i \in 1..Len(t) : t[i].result <= opened
  BY <1>4 DEF QueueInv, Ordered
<1>6. \A i, j \in 1..Len(t) : i < j => Before(t[i], t[j])
  <2> SUFFICES ASSUME NEW i \in 1..Len(t), NEW j \in 1..Len(t), i < j PROVE Before(t[i], t[j])
    OBVIOUS
  <2>1. i + 1 < j + 1
    BY <1>1, <1>2
  <2> QED
    BY <2>1, <1>4 DEF QueueInv, Ordered
<1> QED
  BY <1>1, <1>2, <1>3, <1>4, <1>5, <1>6 DEF Ordered, t

(* Calls that fetch no row: rows handed out, buffers and their contents    *)
(* stay.                                                                   *)
LEMMA OtherCalls ==
  ASSUME [RetrievalNext]_retrievalVars, ~FetchRow
  PROVE  buffer' = buffer /\ (rows' = rows \/ rows' = 0)
<1>1. ASSUME NEW r \in Results, ExecuteTable(r) \/ ExecuteTornHeader(r) \/ ExecuteThrows(r)
      PROVE  buffer' = buffer /\ rows' = rows
  BY <1>1 DEF ExecuteTable, ExecuteTornHeader, ExecuteThrows, Request
<1>2. CASE ExecuteNoColumns \/ ExecuteRefused
  BY <1>2 DEF ExecuteNoColumns, ExecuteRefused, Request
<1>3. CASE FetchEnd \/ FetchThrows \/ FetchUndefined \/ FetchOther \/ BindRefused \/ UnbindAll
  BY <1>3 DEF FetchEnd, FetchThrows, FetchUndefined, FetchOther, BindRefused, UnbindAll
<1>4. CASE CloseCursor \/ Close
  BY <1>4 DEF CloseCursor, Close, Reset
<1>5. ASSUME NEW c \in Columns, NEW t \in Targets, NEW m \in BufferSizes,
             GetData(c, t, m) \/ Bind(c, t, m)
      PROVE  buffer' = buffer /\ rows' = rows
  BY <1>5 DEF GetData, Bind
<1>6. ASSUME NEW c \in Columns, Unbind(c) \/ Describe(c)
      PROVE  buffer' = buffer /\ rows' = rows
  BY <1>6 DEF Unbind, Describe
<1>7. CASE UNCHANGED retrievalVars
  BY <1>7 DEF retrievalVars
<1> QED
  BY <1>1, <1>2, <1>3, <1>4, <1>5, <1>6, <1>7 DEF RetrievalNext, Execute

(* Columns that a call binds are columns, and the application's.           *)
LEMMA BindingsStay ==
  ASSUME BoundInv, [RetrievalNext]_retrievalVars
  PROVE  BoundInv'
<1> USE DEF BoundInv
<1>1. ASSUME NEW r \in Results, ExecuteTable(r) \/ ExecuteTornHeader(r) \/ ExecuteThrows(r)
      PROVE  BoundInv'
  <2>1. r.types \in Seq(Types)
    BY DataRetrievalAssumption DEF DataRetrievalAssumption
  <2> QED
    BY <1>1, <2>1 DEF ExecuteTable, ExecuteTornHeader, ExecuteThrows, Request, Columns
<1>2. CASE ExecuteNoColumns \/ ExecuteRefused
  BY <1>2 DEF ExecuteNoColumns, ExecuteRefused, Request
<1>3. CASE FetchRow \/ FetchEnd \/ FetchThrows \/ FetchUndefined \/ FetchOther \/ BindRefused
  BY <1>3 DEF FetchRow, FetchEnd, FetchThrows, FetchUndefined, FetchOther, BindRefused
<1>4. CASE CloseCursor \/ Close
  <2>1. <<>> \in Seq(Types) /\ columns' = <<>>
    BY <1>4, EmptySeq DEF CloseCursor, Close, Reset
  <2>2. bindings' = bindings \/ bindings' = <<>>
    BY <1>4 DEF CloseCursor, Close
  <2>3. wanted' = wanted
    BY <1>4 DEF CloseCursor, Close
  <2> QED
    BY <2>1, <2>2, <2>3
<1>5. CASE UnbindAll
  BY <1>5 DEF UnbindAll
<1>6. ASSUME NEW c \in Columns, NEW t \in Targets, NEW m \in BufferSizes,
             GetData(c, t, m) \/ Bind(c, t, m)
      PROVE  BoundInv'
  BY <1>6 DEF GetData, Bind
<1>7. ASSUME NEW c \in Columns, Unbind(c) \/ Describe(c) PROVE BoundInv'
  BY <1>7 DEF Unbind, Describe, WithoutColumn
<1>8. CASE UNCHANGED retrievalVars
  BY <1>8 DEF retrievalVars
<1> QED
  BY <1>1, <1>2, <1>3, <1>4, <1>5, <1>6, <1>7, <1>8 DEF RetrievalNext, Execute

(* The rows to be handed out stay in order.                                *)
LEMMA QueueInvariant == RetrievalSpec => []QueueInv
<1>1. RetrievalInit => QueueInv
  <2> SUFFICES ASSUME RetrievalInit PROVE QueueInv
    OBVIOUS
  <2>1. opened = 0 /\ rows = 0 /\ ahead = <<>>
    BY DEF RetrievalInit
  <2>2. <<>> \in Seq(AnyRow) /\ Len(<<>>) = 0
    BY EmptySeq
  <2> QED
    BY <2>1, <2>2 DEF QueueInv, Ordered
<1>2. QueueInv /\ [RetrievalNext]_retrievalVars => QueueInv'
  <2> SUFFICES ASSUME QueueInv, [RetrievalNext]_retrievalVars PROVE QueueInv'
    OBVIOUS
  <2>1. CASE FetchRow
    <3>1. ahead # <<>> /\ ahead' = Tail(ahead) /\ rows' = rows + 1 /\ opened' = opened
      BY <2>1, FetchEffect
    <3>2. Ordered(Tail(ahead), opened)
      BY <3>1, TailOfQueue
    <3> QED
      BY <3>1, <3>2 DEF QueueInv
  <2>2. CASE ~FetchRow
    <3>1. Ordered(ahead', opened') /\ (opened' = opened \/ opened' = opened + 1)
      BY <2>2, QueueStays
    <3>2. rows' = rows \/ rows' = 0
      BY <2>2, OtherCalls
    <3> QED
      BY <3>1, <3>2 DEF QueueInv
  <2> QED
    BY <2>1, <2>2
<1> QED
  BY <1>1, <1>2, PTL DEF RetrievalSpec

LEMMA BindingsInvariant == RetrievalSpec => []BoundInv
<1>1. RetrievalInit => BoundInv
  <2>1. <<>> \in Seq(Types)
    BY EmptySeq
  <2> QED
    BY <2>1 DEF RetrievalInit, BoundInv
<1>2. BoundInv /\ [RetrievalNext]_retrievalVars => BoundInv'
  BY BindingsStay
<1> QED
  BY <1>1, <1>2, PTL DEF RetrievalSpec

(* Buffers stay behind the rows to be handed out.                          *)
LEMMA BuffersInvariant == RetrievalSpec => []BuffersInv
<1>1. RetrievalInit => BuffersInv
  <2> SUFFICES ASSUME RetrievalInit PROVE BuffersInv
    OBVIOUS
  <2>1. opened = 0 /\ ahead = <<>> /\ buffer = [c \in Columns |-> Empty]
    BY DEF RetrievalInit
  <2>2. Empty.result = 0 /\ Empty.row = 0
    BY DEF Empty
  <2>3. Len(ahead) = 0
    BY <2>1
  <2> QED
    BY <2>1, <2>2, <2>3 DEF BuffersInv
<1>2. QueueInv /\ BuffersInv /\ [RetrievalNext]_retrievalVars => BuffersInv'
  <2> SUFFICES ASSUME QueueInv, BuffersInv, [RetrievalNext]_retrievalVars PROVE BuffersInv'
    OBVIOUS
  <2>2. opened \in Nat /\ DOMAIN buffer = Columns
    BY DEF QueueInv, BuffersInv
  <2>3. Columns' = Columns
    BY DEF Columns
  <2>4. CASE FetchRow
    <3>1. ahead # <<>> /\ ahead' = Tail(ahead) /\ opened' = opened /\ DOMAIN buffer' = Columns
      BY <2>4, FetchEffect
    <3>2. /\ Head(ahead) = ahead[1] /\ Head(ahead) \in AnyRow /\ 1 \in 1..Len(ahead)
          /\ \A i \in 1..Len(ahead') : ahead'[i] = ahead[i + 1] /\ i + 1 \in 1..Len(ahead)
      BY <3>1, TailOfQueue
    <3>3. \A i \in 1..Len(ahead') : Before(Head(ahead), ahead'[i])
      <4> SUFFICES ASSUME NEW i \in 1..Len(ahead') PROVE Before(Head(ahead), ahead'[i])
        OBVIOUS
      <4>1. ahead'[i] = ahead[i + 1] /\ i + 1 \in 1..Len(ahead) /\ 1 < i + 1
        BY <3>2
      <4> QED
        BY <4>1, <3>2 DEF QueueInv, Ordered
    <3>4. Head(ahead).result \in 0..opened /\ Head(ahead).row \in Nat
      BY <3>2 DEF QueueInv, Ordered, AnyRow
    <3>5. ASSUME NEW c \in Columns
          PROVE  /\ buffer'[c].result \in 0..opened /\ buffer'[c].row \in Nat
                 /\ \A i \in 1..Len(ahead') : Before(buffer'[c], ahead'[i])
      <4>1. CASE c \in Reached(Head(ahead))
        <5>1. buffer'[c].result = Head(ahead).result /\ buffer'[c].row = Head(ahead).row
          BY <4>1, <2>4, FetchEffect
        <5> QED
          BY <5>1, <3>3, <3>4 DEF Before
      <4>2. CASE c \notin Reached(Head(ahead))
        <5>1. buffer'[c] = buffer[c]
          BY <4>2, <2>4, FetchEffect
        <5> QED
          BY <5>1, <3>2 DEF BuffersInv
      <4> QED
        BY <4>1, <4>2
    <3> QED
      BY <2>3, <3>1, <3>5 DEF BuffersInv
  <2>5. CASE ~FetchRow
    <3>1. buffer' = buffer
      BY <2>5, OtherCalls
    <3>2. TakenFrom(ahead', ahead, opened) /\ Ordered(ahead', opened')
          /\ (opened' = opened \/ opened' = opened + 1)
      BY <2>5, QueueStays
    <3>3. ASSUME NEW c \in Columns, NEW i \in 1..Len(ahead') PROVE Before(buffer[c], ahead'[i])
      <4>1. CASE \E j \in 1..Len(ahead) : ahead'[i] = ahead[j]
        BY <4>1 DEF BuffersInv
      <4>2. CASE ahead'[i].result > opened
        <5>1. buffer[c].result \in 0..opened
          BY DEF BuffersInv
        <5>2. ahead' \in Seq(AnyRow)
          BY <3>2 DEF Ordered
        <5>3. ahead'[i] \in AnyRow
          BY <5>2, ElementOfSeq
        <5>4. ahead'[i].result \in Nat
          BY <5>3 DEF AnyRow
        <5> QED
          BY <4>2, <5>1, <5>4, <2>2 DEF Before
      <4> QED
        BY <3>2, <4>1, <4>2 DEF TakenFrom
    <3>4. \A c \in Columns : buffer[c].result \in 0..opened' /\ buffer[c].row \in Nat
      BY <2>2, <3>2 DEF BuffersInv
    <3> QED
      BY <2>2, <2>3, <3>1, <3>3, <3>4 DEF BuffersInv
  <2> QED
    BY <2>4, <2>5
<1> QED
  BY <1>1, <1>2, QueueInvariant, PTL DEF RetrievalSpec

-----------------------------------------------------------------------------
(* The driver writes only into buffers that the application has bound and  *)
(* not taken back, and only cells that the row has: a bound column beyond  *)
(* the row ends the loop, and what unbinds a column takes it out of the    *)
(* map.                                                                    *)
THEOREM WritesAreWanted == RetrievalSpec => OnlyWantedWritten
<1>1. QueueInv /\ BuffersInv /\ BoundInv /\ [RetrievalNext]_retrievalVars =>
        [\A c \in Columns : buffer'[c] # buffer[c] =>
           /\ c \in wanted /\ c <= Len(columns) /\ c <= Len(current'.cells)
           /\ buffer'[c].result = current'.result /\ buffer'[c].row = current'.row]_retrievalVars
  <2> SUFFICES ASSUME QueueInv, BuffersInv, BoundInv, [RetrievalNext]_retrievalVars,
                      NEW c \in Columns, buffer'[c] # buffer[c]
               PROVE  /\ c \in wanted /\ c <= Len(columns) /\ c <= Len(current'.cells)
                      /\ buffer'[c].result = current'.result /\ buffer'[c].row = current'.row
    OBVIOUS
  <2>1. FetchRow
    BY OtherCalls
  <2>2. /\ ahead # <<>> /\ current' = Head(ahead) /\ c \in Reached(Head(ahead))
        /\ buffer'[c].result = Head(ahead).result /\ buffer'[c].row = Head(ahead).row
    BY <2>1, FetchEffect
  <2>3. Head(ahead) \in AnyRow
    BY <2>2, TailOfQueue
  <2>4. c \in DOMAIN bindings /\ c <= Len(columns) /\ c <= Len(Head(ahead).cells)
    BY <2>2, <2>3, ReachedSucceeds
  <2> QED
    BY <2>2, <2>4 DEF BoundInv
<1> QED
  BY <1>1, QueueInvariant, BuffersInvariant, BindingsInvariant, PTL
     DEF RetrievalSpec, OnlyWantedWritten

(* What a bound buffer holds is only ever replaced by a later row or by a  *)
(* row of a later result: whatever failed, the rows to be handed out are   *)
(* in order, and buffers are behind them.                                  *)
THEOREM BuffersOnlyAdvance == RetrievalSpec => BuffersAdvance
<1>1. QueueInv /\ BuffersInv /\ [RetrievalNext]_retrievalVars =>
        [\A c \in Columns :
           buffer'[c] # buffer[c] =>
             \/ buffer'[c].result > buffer[c].result
             \/ buffer'[c].result = buffer[c].result /\ buffer'[c].row > buffer[c].row]_retrievalVars
  <2> SUFFICES ASSUME QueueInv, BuffersInv, [RetrievalNext]_retrievalVars,
                      NEW c \in Columns, buffer'[c] # buffer[c]
               PROVE  \/ buffer'[c].result > buffer[c].result
                      \/ buffer'[c].result = buffer[c].result /\ buffer'[c].row > buffer[c].row
    OBVIOUS
  <2>1. FetchRow
    BY OtherCalls
  <2>2. /\ ahead # <<>>
        /\ buffer'[c].result = Head(ahead).result /\ buffer'[c].row = Head(ahead).row
    BY <2>1, FetchEffect
  <2>3. Head(ahead) \in AnyRow /\ Head(ahead) = ahead[1] /\ 1 \in 1..Len(ahead)
    BY <2>2, TailOfQueue
  <2>4. Before(buffer[c], Head(ahead))
    BY <2>3 DEF BuffersInv
  <2>5. /\ buffer[c].result \in Int /\ buffer[c].row \in Int
        /\ Head(ahead).result \in Int /\ Head(ahead).row \in Int
    BY <2>3 DEF BuffersInv, QueueInv, AnyRow
  <2> QED
    BY <2>2, <2>4, <2>5 DEF Before
<1> QED
  BY <1>1, QueueInvariant, BuffersInvariant, PTL DEF RetrievalSpec, BuffersAdvance

-----------------------------------------------------------------------------
(* No other call looks like a fetch that got a row.                        *)
LEMMA OnlyRowsAreFetched ==
  ASSUME [RetrievalNext]_retrievalVars, ~FetchRow, Fetched'
  PROVE  UNCHANGED retrievalVars
<1> USE DEF Fetched
<1>1. ASSUME NEW r \in Results, ExecuteTable(r) \/ ExecuteTornHeader(r) \/ ExecuteThrows(r)
      PROVE  FALSE
  BY <1>1 DEF ExecuteTable, ExecuteTornHeader, ExecuteThrows
<1>2. CASE ExecuteNoColumns \/ ExecuteRefused
  BY <1>2 DEF ExecuteNoColumns, ExecuteRefused
<1>3. CASE FetchEnd \/ FetchThrows \/ FetchUndefined \/ FetchOther \/ BindRefused
  BY <1>3 DEF FetchEnd, FetchThrows, FetchUndefined, FetchOther, BindRefused
<1>4. CASE CloseCursor \/ Close \/ UnbindAll
  BY <1>4 DEF CloseCursor, Close, UnbindAll
<1>5. ASSUME NEW c \in Columns, NEW t \in Targets, NEW m \in BufferSizes,
             GetData(c, t, m) \/ Bind(c, t, m)
      PROVE  FALSE
  BY <1>5 DEF GetData, Bind
<1>6. ASSUME NEW c \in Columns, Unbind(c) \/ Describe(c) PROVE FALSE
  BY <1>6 DEF Unbind, Describe
<1> QED
  BY <1>1, <1>2, <1>3, <1>4, <1>5, <1>6 DEF RetrievalNext, Execute

(* A fetch that gets a row writes each bound column, with its code.        *)
LEMMA FetchedColumns ==
  ASSUME QueueInv, BoundInv, FetchRow, Fetched'
  PROVE  /\ bindings' = bindings /\ columns' = columns /\ current' = Head(ahead)
         /\ Head(ahead) \in AnyRow
         /\ Failing(Head(ahead)) = {} /\ Reached(Head(ahead)) = DOMAIN bindings
         /\ ret' = FetchCode(Head(ahead))
         /\ \A c \in DOMAIN bindings :
              /\ buffer'[c].result = Head(ahead).result /\ buffer'[c].row = Head(ahead).row
              /\ buffer'[c].ret = Code(Head(ahead), c)
<1> DEFINE row == Head(ahead)
<1>1. /\ bindings' = bindings /\ columns' = columns /\ current' = row /\ ret' = FetchCode(row)
      /\ ahead # <<>>
      /\ \A c \in Columns : c \in Reached(row) =>
           /\ buffer'[c].result = row.result /\ buffer'[c].row = row.row
           /\ buffer'[c].ret = Code(row, c)
  BY FetchEffect
<1>2. row \in AnyRow
  BY <1>1, TailOfQueue
<1> HIDE DEF row
<1>3. FetchCode(row) # "error"
  BY <1>1 DEF Fetched
<1>4. Failing(row) = {} /\ Reached(row) = DOMAIN bindings
  BY <1>3, AllReached DEF FetchCode
<1>5. DOMAIN bindings \subseteq Columns
  BY DEF BoundInv
<1>6. \A c \in DOMAIN bindings :
        /\ buffer'[c].result = row.result /\ buffer'[c].row = row.row
        /\ buffer'[c].ret = Code(row, c)
  BY <1>1, <1>4, <1>5
<1> QED
  BY <1>1, <1>2, <1>4, <1>6, Zenon DEF row

(* A fetch that succeeds has filled every bound column from the row that   *)
(* becomes current, since it stops at no column that does not fail; none   *)
(* is beyond the result or the row.                                        *)
THEOREM FetchIsWhole == RetrievalSpec => []FetchFillsRow
<1>1. RetrievalInit => FetchFillsRow
  BY DEF RetrievalInit, FetchFillsRow, Fetched
<1>2. QueueInv /\ BoundInv /\ FetchFillsRow /\ [RetrievalNext]_retrievalVars => FetchFillsRow'
  <2> SUFFICES ASSUME QueueInv, BoundInv, FetchFillsRow, [RetrievalNext]_retrievalVars, Fetched',
                      NEW c \in DOMAIN bindings'
               PROVE  /\ c <= Len(columns') /\ c <= Len(current'.cells)
                      /\ buffer'[c].result = current'.result /\ buffer'[c].row = current'.row
    BY DEF FetchFillsRow
  <2>1. CASE FetchRow
    <3>1. /\ columns' = columns /\ current' = Head(ahead) /\ Head(ahead) \in AnyRow
          /\ c \in Reached(Head(ahead))
          /\ buffer'[c].result = Head(ahead).result /\ buffer'[c].row = Head(ahead).row
      BY <2>1, FetchedColumns
    <3>2. c <= Len(columns) /\ c <= Len(Head(ahead).cells)
      BY <3>1, ReachedSucceeds
    <3> QED
      BY <3>1, <3>2
  <2>2. CASE ~FetchRow
    <3>1. UNCHANGED retrievalVars
      BY <2>2, OnlyRowsAreFetched
    <3> QED
      BY <3>1 DEF FetchFillsRow, Fetched, retrievalVars
  <2> QED
    BY <2>1, <2>2
<1> QED
  BY <1>1, <1>2, QueueInvariant, BindingsInvariant, PTL DEF RetrievalSpec

(* SQL_SUCCESS_WITH_INFO comes out of a fetch if and only if a bound       *)
(* column was cut, wherever it stands among the others.                    *)
THEOREM CutsAreTold == RetrievalSpec => []InfoTold
<1>1. RetrievalInit => InfoTold
  BY DEF RetrievalInit, InfoTold, Fetched
<1>2. QueueInv /\ BoundInv /\ InfoTold /\ [RetrievalNext]_retrievalVars => InfoTold'
  <2> SUFFICES ASSUME QueueInv, BoundInv, InfoTold, [RetrievalNext]_retrievalVars, Fetched'
               PROVE  ret' = "info" <=> \E c \in DOMAIN bindings' : buffer'[c].ret = "info"
    BY DEF InfoTold
  <2>1. CASE FetchRow
    <3>1. ret' = "info" <=> \E c \in DOMAIN bindings : Code(Head(ahead), c) = "info"
      BY <2>1, FetchedColumns DEF FetchCode
    <3> QED
      BY <2>1, <3>1, FetchedColumns
  <2>2. CASE ~FetchRow
    <3>1. UNCHANGED retrievalVars
      BY <2>2, OnlyRowsAreFetched
    <3> QED
      BY <3>1 DEF InfoTold, Fetched, retrievalVars
  <2> QED
    BY <2>1, <2>2
<1> QED
  BY <1>1, <1>2, QueueInvariant, BindingsInvariant, PTL DEF RetrievalSpec

-----------------------------------------------------------------------------
(* Before a failure, the rows to be handed out are in their place.         *)
LEMMA PlaceInvariant == RetrievalSpec => []PlaceInv
<1>1. RetrievalInit => PlaceInv
  BY DEF RetrievalInit, PlaceInv
<1>2. QueueInv /\ PlaceInv /\ [RetrievalNext]_retrievalVars => PlaceInv'
  <2> SUFFICES ASSUME QueueInv, PlaceInv, [RetrievalNext]_retrievalVars, ~failed'
               PROVE  /\ cursor' = "closed" => ahead' = <<>> /\ columns' = <<>> /\ rows' = 0
                      /\ cursor' # "closed" =>
                           \A i \in 1..Len(ahead') :
                             ahead'[i].result = opened' /\ ahead'[i].row = rows' + i
    BY DEF PlaceInv
  <2>1. ASSUME NEW r \in Results, ExecuteTable(r)
        PROVE  /\ cursor' = "open"
               /\ \A i \in 1..Len(ahead') :
                    ahead'[i].result = opened' /\ ahead'[i].row = rows' + i
    <3>1. /\ cursor = "closed" /\ cursor' = "open" /\ failed' = failed
          /\ ahead' = ahead \o RowsOf(r) /\ opened' = opened + 1 /\ rows' = rows
      BY <2>1 DEF ExecuteTable, Request
    <3>2. ahead = <<>> /\ rows = 0
      BY <3>1 DEF PlaceInv
    <3>3. ahead' = RowsOf(r)
      BY <3>1, <3>2, ReplyRows, ConcatEmptySeq
    <3>4. \A i \in 1..Len(RowsOf(r)) : RowsOf(r)[i].result = opened + 1 /\ RowsOf(r)[i].row = i
      BY ReplyRows
    <3> QED
      BY <3>1, <3>2, <3>3, <3>4
  <2>2. CASE ExecuteNoColumns
    BY <2>2 DEF ExecuteNoColumns, Request, PlaceInv
  <2>3. CASE ExecuteRefused \/ \E r \in Results : ExecuteTornHeader(r) \/ ExecuteThrows(r)
    BY <2>3 DEF ExecuteRefused, ExecuteTornHeader, ExecuteThrows
  <2>4. CASE FetchRow
    <3>1. /\ ahead # <<>> /\ ahead' = Tail(ahead) /\ rows' = rows + 1 /\ opened' = opened
          /\ failed' = failed /\ cursor # "closed" /\ cursor' # "closed"
      BY <2>4, FetchEffect
    <3>2. \A i \in 1..Len(ahead') : ahead'[i] = ahead[i + 1] /\ i + 1 \in 1..Len(ahead)
      BY <3>1, TailOfQueue
    <3>3. \A i \in 1..Len(ahead) : ahead[i].result = opened /\ ahead[i].row = rows + i
      BY <3>1 DEF PlaceInv
    <3>4. rows \in Nat /\ Len(ahead') \in Nat
      BY <3>1, TailOfQueue, LenProperties DEF QueueInv, Ordered
    <3> QED
      BY <3>1, <3>2, <3>3, <3>4
  <2>5. CASE FetchThrows
    BY <2>5 DEF FetchThrows
  <2>6. CASE FetchEnd
    BY <2>6 DEF FetchEnd, MayFetch, PlaceInv
  <2>7. CASE FetchUndefined \/ FetchOther \/ BindRefused \/ UnbindAll
    BY <2>7 DEF FetchUndefined, FetchOther, BindRefused, UnbindAll, PlaceInv
  <2>8. CASE CloseCursor \/ Close
    BY <2>8 DEF CloseCursor, Close, Reset
  <2>9. ASSUME NEW c \in Columns, NEW t \in Targets, NEW m \in BufferSizes,
               GetData(c, t, m) \/ Bind(c, t, m)
        PROVE  UNCHANGED <<cursor, ahead, columns, rows, opened, failed>>
    BY <2>9 DEF GetData, Bind
  <2>10. ASSUME NEW c \in Columns, Unbind(c) \/ Describe(c)
         PROVE  UNCHANGED <<cursor, ahead, columns, rows, opened, failed>>
    BY <2>10 DEF Unbind, Describe
  <2>11. CASE UNCHANGED <<cursor, ahead, columns, rows, opened, failed>>
    BY <2>11 DEF PlaceInv
  <2>12. CASE UNCHANGED retrievalVars
    BY <2>12 DEF retrievalVars, PlaceInv
  <2> QED
    BY <2>1, <2>2, <2>3, <2>4, <2>5, <2>6, <2>7, <2>8, <2>9, <2>10, <2>11, <2>12
       DEF RetrievalNext, Execute
<1> QED
  BY <1>1, <1>2, QueueInvariant, PTL DEF RetrievalSpec

(* A cursor on a row is on the row that was handed out last, unless a      *)
(* request or fetch threw and the statement was not closed since.          *)
THEOREM PositionIsFetched == RetrievalSpec => []PositionedOnFetched
<1>1. RetrievalInit => PositionedOnFetched
  BY DEF RetrievalInit, PositionedOnFetched
<1>2. QueueInv /\ PlaceInv /\ PositionedOnFetched /\ [RetrievalNext]_retrievalVars
        => PositionedOnFetched'
  <2> SUFFICES ASSUME QueueInv, PlaceInv, PositionedOnFetched, [RetrievalNext]_retrievalVars,
                      cursor' = "positioned", ~failed'
               PROVE  current'.result = opened' /\ current'.row = rows' /\ rows' > 0
    BY DEF PositionedOnFetched
  <2> DEFINE Same == UNCHANGED <<cursor, current, opened, rows, failed>>
  <2>1. ASSUME NEW r \in Results, ExecuteTable(r) \/ ExecuteTornHeader(r) \/ ExecuteThrows(r)
        PROVE  FALSE
    BY <2>1 DEF ExecuteTable, ExecuteTornHeader, ExecuteThrows
  <2>2. CASE ExecuteNoColumns \/ ExecuteRefused
    BY <2>2 DEF ExecuteNoColumns, ExecuteRefused
  <2>3. CASE FetchRow
    <3>1. /\ ahead # <<>> /\ current' = Head(ahead) /\ rows' = rows + 1 /\ opened' = opened
          /\ failed' = failed /\ cursor # "closed"
      BY <2>3, FetchEffect
    <3>2. Head(ahead) = ahead[1] /\ 1 \in 1..Len(ahead) /\ rows \in Nat
      BY <3>1, TailOfQueue DEF QueueInv
    <3>3. ahead[1].result = opened /\ ahead[1].row = rows + 1
      BY <3>1, <3>2 DEF PlaceInv
    <3> QED
      BY <3>1, <3>2, <3>3
  <2>4. CASE FetchEnd \/ FetchThrows \/ CloseCursor \/ Close
    BY <2>4 DEF FetchEnd, FetchThrows, CloseCursor, Close
  <2>5. CASE FetchUndefined \/ FetchOther \/ BindRefused \/ UnbindAll
    BY <2>5 DEF FetchUndefined, FetchOther, BindRefused, UnbindAll, PositionedOnFetched
  <2>6. ASSUME NEW c \in Columns, NEW t \in Targets, NEW m \in BufferSizes,
               GetData(c, t, m) \/ Bind(c, t, m)
        PROVE  Same
    BY <2>6 DEF GetData, Bind
  <2>7. ASSUME NEW c \in Columns, Unbind(c) \/ Describe(c) PROVE Same
    BY <2>7 DEF Unbind, Describe
  <2>8. CASE Same
    BY <2>8 DEF PositionedOnFetched
  <2>9. CASE UNCHANGED retrievalVars
    BY <2>9 DEF retrievalVars, PositionedOnFetched
  <2> QED
    BY <2>1, <2>2, <2>3, <2>4, <2>5, <2>6, <2>7, <2>8, <2>9 DEF RetrievalNext, Execute
<1> QED
  BY <1>1, <1>2, QueueInvariant, PlaceInvariant, PTL DEF RetrievalSpec
=============================================================================

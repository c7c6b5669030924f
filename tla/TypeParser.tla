----------------------------- MODULE TypeParser -----------------------------
(***************************************************************************)
(* The parser of column types (driver/type_parser.cpp) and what the result *)
(* set makes of its tree (assignTypeInfo in driver/result_set.cpp).        *)
(*                                                                         *)
(* The text of a type is its tokens; nextToken, which only groups the      *)
(* characters, is left out but for the token Invalid.  An element of the   *)
(* tree is known by its path: the root is <<>>, its second element <<2>>,  *)
(* and the pointers type_ and open_elements_ are paths.                    *)
(***************************************************************************)
EXTENDS Naturals, Sequences, FiniteSets

CONSTANTS
  Names,      (* names that occur, "Nullable" and the like among them      *)
  Sizes,      (* numbers that occur; no arithmetic is done on them         *)
  NoSize,     (* the size 0 of an element that is not a number             *)
  MaxTokens   (* length of a type; a bound                                 *)

ASSUME TypeParserAssumption ==
  /\ Names \subseteq STRING
  /\ NoSize \notin Sizes
  /\ MaxTokens \in Nat

Known == {"Array", "Null", "Nullable", "Tuple"}
Metas == Known \cup {"Number", "Terminal"}

(* Tokens of a type but EOS and Invalid, which end it.                     *)
Token ==
  [type : {"Name"}, value : Names] \cup [type : {"Number"}, value : Sizes]
    \cup [type : {"LPar", "RPar", "Comma"}, value : {NoSize}]
Punctuation(t) == [type |-> t, value |-> NoSize]

VARIABLES
  input,   (* the tokens consumed                                          *)
  tree,    (* the TypeAst: a function from paths to elements               *)
  type,    (* type_                                                        *)
  open,    (* open_elements_, its top at the end                           *)
  phase,   (* "parsing", "accepted", "rejected", "assigned", "underflow",  *)
           (* "undefined"                                                  *)
  info     (* ColumnInfo after assignTypeInfo                              *)

vars == <<input, tree, type, open, phase, info>>

Root == <<>>

(* TypeAst(): value-initialised, so that meta is 0, which is Array.  The   *)
(* root is an automatic variable and its meta is not set at all.           *)
NewElement == [meta |-> "Array", name |-> "", size |-> NoSize, elements |-> 0]
NoInfo == [name |-> "", size |-> NoSize, nullable |-> FALSE]

Init ==
  /\ input = <<>>
  /\ tree = [p \in {Root} |-> [NewElement EXCEPT !.meta = "unset"]]
  /\ type = Root
  /\ open = <<Root>>
  /\ phase = "parsing"
  /\ info = NoInfo

getTypeMeta(name) == IF name \in Known THEN name ELSE "Terminal"

Top == open[Len(open)]
Popped == SubSeq(open, 1, Len(open) - 1)

(* elements.emplace_back(TypeAst()) on the element p.                      *)
NextElement(p) == Append(p, tree[p].elements + 1)
EmplaceBack(p) ==
  [q \in DOMAIN tree \cup {NextElement(p)} |->
     IF q = p THEN [tree[p] EXCEPT !.elements = @ + 1]
     ELSE IF q = NextElement(p) THEN NewElement
     ELSE tree[q]]

Consume(t) ==
  /\ phase = "parsing"
  /\ Len(input) < MaxTokens
  /\ input' = Append(input, t)

Name(n) ==
  /\ Consume([type |-> "Name", value |-> n])
  /\ tree' = [tree EXCEPT ![type].meta = getTypeMeta(n), ![type].name = n]
  /\ UNCHANGED <<type, open, phase, info>>

Number(n) ==
  /\ Consume([type |-> "Number", value |-> n])
  /\ tree' = [tree EXCEPT ![type].meta = "Number", ![type].size = n]
  /\ UNCHANGED <<type, open, phase, info>>

LPar ==
  /\ Consume(Punctuation("LPar"))
  /\ tree' = EmplaceBack(type)
  /\ open' = Append(open, type)
  /\ type' = NextElement(type)
  /\ UNCHANGED <<phase, info>>

(* Mutant: the element is closed, its parent stays open.                   *)
RParKeepsOpen ==
  /\ open # <<>>
  /\ Consume(Punctuation("RPar"))
  /\ type' = Top
  /\ UNCHANGED <<tree, open, phase, info>>

RPar ==
  /\ open # <<>>
  /\ Consume(Punctuation("RPar"))
  /\ type' = Top
  /\ open' = Popped
  /\ UNCHANGED <<tree, phase, info>>

(* Mutant: the next element hangs below the last.                          *)
CommaOnElement ==
  /\ open # <<>>
  /\ Consume(Punctuation("Comma"))
  /\ tree' = EmplaceBack(type)
  /\ type' = NextElement(type)
  /\ UNCHANGED <<open, phase, info>>

(* Mutant: the parent is popped and not pushed back.                       *)
CommaPops ==
  /\ open # <<>>
  /\ Consume(Punctuation("Comma"))
  /\ tree' = EmplaceBack(Top)
  /\ type' = NextElement(Top)
  /\ open' = Popped
  /\ UNCHANGED <<phase, info>>

Comma ==
  /\ open # <<>>
  /\ Consume(Punctuation("Comma"))
  /\ tree' = EmplaceBack(Top)
  /\ type' = NextElement(Top)
  /\ UNCHANGED <<open, phase, info>>

(* top() and pop() of an empty stack.                                      *)
Underflow ==
  /\ open = <<>>
  /\ \E t \in {"RPar", "Comma"} : Consume(Punctuation(t))
  /\ phase' = "underflow"
  /\ UNCHANGED <<tree, type, open, info>>

(* EOS, which accepts whatever is still open, and Invalid.                 *)
Accept ==
  /\ phase = "parsing" /\ phase' = "accepted"
  /\ UNCHANGED <<input, tree, type, open, info>>
Reject ==
  /\ phase = "parsing" /\ phase' = "rejected"
  /\ info' = [NoInfo EXCEPT !.name = "String"]
  /\ UNCHANGED <<input, tree, type, open>>

-----------------------------------------------------------------------------
(* The first element of the root, its first element and so on:             *)
(* assignTypeInfo goes down them while they are Nullable.                  *)
First(k) == [i \in 1..k |-> 1]

(* Mutant: any first number is the size, however many elements there are.  *)
AssignedFirst(p, m, nullable) ==
  IF m = "Terminal"
  THEN [name |-> tree[p].name, nullable |-> nullable,
        size |-> IF tree[p].elements > 0 THEN tree[Append(p, 1)].size ELSE NoSize]
  ELSE [name |-> "String", nullable |-> nullable, size |-> NoSize]

(* The column assignTypeInfo makes of the element p of the meta m.         *)
Assigned(p, m, nullable) ==
  IF m = "Terminal"
  THEN [name |-> tree[p].name, nullable |-> nullable,
        size |-> IF tree[p].elements = 1 THEN tree[Append(p, 1)].size ELSE NoSize]
  ELSE [name |-> "String", nullable |-> nullable, size |-> NoSize]

(* assignTypeInfo; a meta that was never set is any.                       *)
AssignTypeInfo ==
  /\ phase = "accepted"
  /\ \E meta \in IF tree[Root].meta = "unset" THEN Metas ELSE {tree[Root].meta} :
       LET MetaOf(k) == IF k = 0 THEN meta ELSE tree[First(k)].meta
           Ends(k)   == \/ MetaOf(k) # "Nullable"
                        \/ tree[First(k)].elements = 0
           last      == CHOOSE k \in 0..MaxTokens :
                          /\ First(k) \in DOMAIN tree /\ Ends(k)
                          /\ \A j \in 0 .. k - 1 : ~Ends(j)
       IN  IF MetaOf(last) = "Nullable"
           THEN phase' = "undefined" /\ info' = info
           ELSE /\ phase' = "assigned"
                /\ info' = Assigned(First(last), MetaOf(last), last > 0)
  /\ UNCHANGED <<input, tree, type, open>>

Next ==
  \/ \E n \in Names : Name(n)
  \/ \E n \in Sizes : Number(n)
  \/ LPar
  \/ RPar
  \/ Comma
  \/ Underflow
  \/ Accept
  \/ Reject
  \/ AssignTypeInfo

Spec == Init /\ [][Next]_vars

-----------------------------------------------------------------------------
(* Reference: what the tokens of a type mean, read off their positions.    *)
Count(t, n) == Cardinality({i \in 1..n : input[i].type = t})

(* No parenthesis is closed before it is opened.                           *)
Balanced == \A n \in 1..Len(input) : Count("RPar", n) <= Count("LPar", n)

Elements == {i \in 1..Len(input) : input[i].type \in {"Name", "Number"}}
Depth(i) == Count("LPar", i) - Count("RPar", i)

(* A name, or a name with a list of types and numbers in parentheses.      *)
WellFormed ==
  LET Follows == [Name   |-> {"LPar", "RPar", "Comma"}, Number |-> {"RPar", "Comma"},
                  LPar   |-> {"Name", "Number"},        Comma  |-> {"Name", "Number"},
                  RPar   |-> {"RPar", "Comma"}]
      n == Len(input)
  IN  /\ n > 0 /\ input[1].type = "Name"
      /\ \A i \in 1 .. n - 1 : input[i + 1].type \in Follows[input[i].type]
      /\ n > 1 => input[n].type = "RPar"
      /\ Balanced /\ Depth(n) = 0
      /\ \A i \in 2 .. n - 1 : Depth(i) > 0

(* The element an element stands in, and its path.                         *)
ParentOf(i) ==
  CHOOSE j \in Elements :
    /\ j < i /\ Depth(j) = Depth(i) - 1
    /\ \A k \in Elements : k < i /\ Depth(k) = Depth(i) - 1 => k <= j
IndexOf(i) ==
  Cardinality({k \in Elements : ParentOf(i) < k /\ k <= i /\ Depth(k) = Depth(i)})
PathOf ==
  LET path[i \in Elements] ==
        IF i = 1 THEN Root ELSE Append(path[ParentOf(i)], IndexOf(i))
  IN  path

(* Every Nullable has its parentheses.                                     *)
NullablesHaveArguments ==
  \A i \in Elements : input[i].value = "Nullable" =>
    i < Len(input) /\ input[i + 1].type = "LPar"

-----------------------------------------------------------------------------
(* p is one of the elements of q.                                          *)
IsElementOf(p, q) == \E k \in 1..tree[q].elements : p = Append(q, k)

(* The open elements and the one that is parsed are a way down from the    *)
(* root, from each element to one of its own, except that the root may     *)
(* stand twice: the pointers into the tree never go astray, even for types *)
(* that are not well-formed (TypeParser::parse).                           *)
StackIsPath ==
  LET way == Append(open, type)
  IN  /\ way[1] = Root
      /\ \A i \in DOMAIN way : way[i] \in DOMAIN tree
      /\ \A i \in 1..Len(open) :
           \/ IsElementOf(way[i + 1], way[i])
           \/ i = 1 /\ way[i + 1] = Root

(* Only a type that closes more than it opened makes the parser take from  *)
(* its empty stack, and no well-formed type leads to a read of an element  *)
(* that is not there.                                                      *)
BalancedIsDefined ==
  /\ phase = "underflow" => ~Balanced
  /\ phase = "undefined" => ~(WellFormed /\ NullablesHaveArguments)

(* The tree of a well-formed type has an element for each name and number, *)
(* at its place.                                                           *)
TreeIsReference ==
  phase = "accepted" /\ WellFormed =>
    /\ DOMAIN tree = {PathOf[i] : i \in Elements}
    /\ \A i \in Elements :
         LET e == tree[PathOf[i]]
         IN  IF input[i].type = "Name"
             THEN e.name = input[i].value /\ e.meta = getTypeMeta(input[i].value)
             ELSE e.size = input[i].value /\ e.meta = "Number"

(* The column of a well-formed type: it is nullable if the type is, its    *)
(* name is the first that is not Nullable unless that is a composed type,  *)
(* its size the number that stands alone after it.                         *)
InfoIsReference ==
  phase = "assigned" /\ WellFormed /\ NullablesHaveArguments =>
    LET i == CHOOSE k \in Elements :
               /\ input[k].value # "Nullable"
               /\ \A j \in Elements : j < k => input[j].value = "Nullable"
        terminal == input[i].type = "Name" /\ input[i].value \notin Known
        sized == /\ terminal /\ i + 3 <= Len(input) /\ input[i + 1].type = "LPar"
                 /\ input[i + 2].type = "Number" /\ input[i + 3].type = "RPar"
    IN  info = [name     |-> IF terminal THEN input[i].value ELSE "String",
                nullable |-> i > 1,
                size     |-> IF sized THEN input[i + 2].value ELSE NoSize]
=============================================================================

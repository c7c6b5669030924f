--------------------------- MODULE ColumnsProofs ---------------------------
(* What the machines of Columns keep of a query, for queries of any length  *)
(* and any nesting. TypeOK is inductive. InOrder needs that a machine which *)
(* reads has appended nothing from the current token on, NotYet; the second *)
(* theorem needs to know where a machine stands that is about to return,    *)
(* Returning. What well-formed queries keep, WholeInv, needs to know which  *)
(* SELECT a machine began with and what it remembers of the names it read.  *)
EXTENDS Columns, SequenceTheorems, FiniteSetTheorems, TLAPS

Running == phase = "running" => Len(machines) >= 1
Fresh   == phase = "start" => out = <<>> /\ cur = 1

(* What is appended is a token with text, and not behind the current one.   *)
OutIsText ==
  \A i \in 1..Len(out) : /\ out[i].pos \in 1..Len(tokens)
                         /\ tokens[out[i].pos].raw # NoText
                         /\ out[i].pos <= cur

Reading == phase = "running" /\ cur \in 1..Len(tokens) /\ machines[Len(machines)].level >= 0

NotYet == Reading => \A i \in 1..Len(out) : out[i].pos < cur

(* A machine that ends before the end of the query stands at the closing    *)
(* parenthesis it has appended, or at a token behind one that was lost.     *)
BehindClosing(p) == p > 1 /\ (tokens[p - 1].type = ")" \/ ~Kept(p - 1))

Returning ==
  phase = "running" /\ Has(cur) /\ machines[Len(machines)].level < 0
    => (Kept(cur) /\ tokens[cur].type = ")") \/ (~Kept(cur) /\ BehindClosing(cur))

Lost == \A p \in 1..(cur - 1) : Has(p) /\ ~Kept(p) => BehindClosing(p)

OrderIInv == TypeOK /\ Running /\ Fresh /\ OutIsText /\ NotYet /\ InOrder
LostIInv  == OrderIInv /\ Returning /\ Lost

-----------------------------------------------------------------------------
(* What the successor of a machine is.                                      *)
LEMMA SuccessorType ==
  ASSUME NEW m \in Machine, NEW p \in Nat, TypeOK, Has(p)
  PROVE  Successor(m, p) \in Machine /\ Successor(m, p).level = m.level
<1>1. tokens[p] \in Token
  BY DEF TypeOK, Has
<1>2. SuccessorKind(m, tokens[p]) \in States
  BY DEF SuccessorKind, States, Machine
<1>3. tokens[p].raw \in Names /\ (tokens[p].word = Comma) \in BOOLEAN
  BY <1>1 DEF Token
<1>. DEFINE kind == SuccessorKind(m, tokens[p])
<1>. DEFINE more == IF kind = "Allies" THEN m.allies \cup {tokens[p].raw} ELSE m.allies
<1>. DEFINE new  == (m.state = "Column" /\ tokens[p].word = Comma)
<1>4. more \in SUBSET Names
  BY <1>3 DEF Machine
<1>5. new \in BOOLEAN
  OBVIOUS
<1>6. Successor(m, p) = [m EXCEPT !.state = kind, !.at = p, !.fresh = new, !.allies = more]
  BY DEF Successor
<1>. HIDE DEF more, new, kind
<1>. QED
  BY <1>2, <1>4, <1>5, <1>6 DEF Machine, kind

(* Replacing the innermost machine.                                         *)
LEMMA WithTopType ==
  ASSUME machines \in Seq(Machine), Len(machines) >= 1, NEW m \in Machine
  PROVE  /\ WithTop(m) \in Seq(Machine)
         /\ Len(WithTop(m)) = Len(machines)
         /\ WithTop(m)[Len(machines)] = m
  BY DEF WithTop, Depth

(* The level behind the current token.                                      *)
LEMMA LevelType ==
  ASSUME TypeOK, Len(machines) >= 1, Has(cur)
  PROVE  /\ Top \in Machine
         /\ LevelBehind \in Int
         /\ [Top EXCEPT !.level = LevelBehind] \in Machine
         /\ [Top EXCEPT !.level = LevelBehind].level = LevelBehind
<1>1. Top \in Machine
  BY DEF TypeOK, Top, Depth
<1>2. Top.level \in Int
  BY <1>1 DEF Machine
<1>3. LevelBehind \in Int
  BY <1>2 DEF LevelBehind
<1>. HIDE DEF LevelBehind
<1>. QED
  BY <1>1, <1>3 DEF Machine

(* Every turn leaves the current token where it is or goes to the next.     *)
LEMMA FollowingType ==
  ASSUME TypeOK
  PROVE  /\ Following(cur) \in Nat \ {0}
         /\ Following(cur) = cur \/ Following(cur) = cur + 1
         /\ Has(cur) /\ tokens[cur].raw # NoText => Following(cur) = cur + 1
         /\ ~Has(cur) \/ tokens[cur].raw = NoText => Following(cur) = cur
<1>. DEFINE f == Following(cur)
<1>1. cur \in Nat /\ cur # 0
  BY DEF TypeOK
<1>2. Has(cur) /\ tokens[cur].raw # NoText => f = cur + 1
  BY DEF Following
<1>3. ~(Has(cur) /\ tokens[cur].raw # NoText) => f = cur
  BY DEF Following
<1>. HIDE DEF f
<1>4. f = cur \/ f = cur + 1
  BY <1>2, <1>3
<1>5. f \in Nat \ {0}
  BY <1>1, <1>4
<1>. QED
  BY <1>2, <1>3, <1>4, <1>5 DEF f

(* A turn appends the current token, if it has a text.                      *)
LEMMA AppendType ==
  ASSUME TypeOK, AppendCurrent, Has(cur)
  PROVE  /\ out' \in Seq([pos : Nat \ {0}, split : BOOLEAN])
         /\ \/ /\ tokens[cur].raw = NoText
               /\ out' = out
            \/ /\ tokens[cur].raw # NoText
               /\ Len(out') = Len(out) + 1
               /\ \A i \in 1..Len(out) : out'[i] = out[i]
               /\ out'[Len(out) + 1].pos = cur
<1>. DEFINE x == [pos |-> cur, split |-> Splits(Top, cur)]
<1>1. Splits(Top, cur) \in BOOLEAN
  <2>1. tokens[cur] \in Token
    BY DEF TypeOK, Has
  <2>. QED
    BY <2>1 DEF Splits, TypeOK, Token
<1>2. x \in [pos : Nat \ {0}, split : BOOLEAN]
  BY <1>1 DEF TypeOK
<1>3. x.pos = cur
  OBVIOUS
<1>4. out' = IF tokens[cur].raw = NoText THEN out ELSE Append(out, x)
  BY DEF AppendCurrent
<1>. HIDE DEF x
<1>5. CASE tokens[cur].raw = NoText
  BY <1>4, <1>5 DEF TypeOK
<1>6. CASE tokens[cur].raw # NoText
  <2>1. out' = Append(out, x)
    BY <1>4, <1>6
  <2>2. out \in Seq([pos : Nat \ {0}, split : BOOLEAN])
    BY DEF TypeOK
  <2>. QED
    <3>1. /\ out' \in Seq([pos : Nat \ {0}, split : BOOLEAN])
          /\ Len(out') = Len(out) + 1
          /\ \A i \in 1..Len(out) : out'[i] = out[i]
          /\ out'[Len(out) + 1] = x
      BY <1>2, <2>1, <2>2, AppendProperties
    <3>2. out'[Len(out) + 1].pos = cur
      BY <1>3, <3>1
    <3>. QED
      BY <1>6, <3>1, <3>2
<1>. QED
  BY <1>5, <1>6

-----------------------------------------------------------------------------
(* A machine that takes a turn reads.                                       *)
LEMMA TurnReads ==
  ASSUME TypeOK, Running, Turn
  PROVE  phase = "running" /\ Len(machines) >= 1 /\ Has(cur) /\ Reading
<1>1. phase = "running" /\ Len(machines) >= 1 /\ Has(cur) /\ ~(Top.level < 0)
  BY DEF Running, Turn, AtEnd
<1>2. Top.level \in Int
  BY <1>1, LevelType DEF Machine
<1>. QED
  BY <1>1, <1>2 DEF Reading, Has, Top, Depth

(* The machines that are left when one returns.                              *)
LEMMA ReturnMachines ==
  ASSUME TypeOK, ReturnToOuter
  PROVE  machines' \in Seq(Machine) /\ Len(machines') = Len(machines) - 1 /\ Len(machines) > 1
<1>. DEFINE n == Len(machines)
<1>1. n > 1 /\ n \in Nat /\ machines \in Seq(Machine)
  BY DEF ReturnToOuter, Depth, TypeOK
<1>. DEFINE before == SubSeq(machines, 1, n - 1)
<1>. DEFINE m == [machines[n - 1] EXCEPT !.level = machines[n - 1].level - 1]
<1>2. before \in Seq(Machine) /\ Len(before) = n - 1
  BY <1>1, SubSeqProperties
<1>3. machines[n - 1] \in Machine
  BY <1>1
<1>4. m \in Machine
  BY <1>3 DEF Machine
<1>5. machines' = [before EXCEPT ![n - 1] = m]
  BY DEF ReturnToOuter, Depth
<1>. HIDE DEF before, m
<1>. QED
  BY <1>1, <1>2, <1>4, <1>5

(* Each step keeps the types.                                               *)
LEMMA TypeStep ==
  ASSUME TypeOK, Running, [Next]_vars
  PROVE  TypeOK'
<1>1. CASE UNCHANGED vars
  BY <1>1 DEF TypeOK, vars
<1>2. CASE StartMachine
  BY <1>2 DEF StartMachine, TypeOK, NewMachine, Machine, States
<1>3. CASE ReturnUnchanged
  BY <1>3 DEF ReturnUnchanged, TypeOK
<1>. DEFINE m == [Top EXCEPT !.level = LevelBehind]
<1>4. ASSUME Turn
      PROVE  /\ phase' \in {"start", "running", "done", "unchanged"}
             /\ tokens' \in Seq(Token)
             /\ out' \in Seq([pos : Nat \ {0}, split : BOOLEAN])
             /\ m \in Machine
             /\ WithTop(m) \in Seq(Machine)
             /\ Following(cur) \in Nat \ {0}
             /\ cur \in Nat \ {0} /\ read \in BOOLEAN
  <2>1. phase = "running" /\ Len(machines) >= 1 /\ Has(cur)
    BY <1>4, TurnReads
  <2>2. out' \in Seq([pos : Nat \ {0}, split : BOOLEAN])
    BY <1>4, <2>1, AppendType DEF Turn
  <2>3. m \in Machine
    BY <2>1, LevelType
  <2>4. WithTop(m) \in Seq(Machine)
    BY <2>1, <2>3, WithTopType DEF TypeOK
  <2>. QED
    BY <1>4, <2>2, <2>3, <2>4, FollowingType DEF Turn, TypeOK
<1>. HIDE DEF m
<1>5. CASE CloseMachine
  <2>1. Turn /\ machines' = WithTop(m) /\ cur' = cur /\ read' = read
    BY <1>5 DEF CloseMachine, m
  <2>. QED
    BY <1>4, <2>1 DEF TypeOK
<1>6. CASE EnterSubquery
  <2>1. /\ Turn /\ cur' = Following(cur) /\ read' = TRUE
        /\ machines' = Append(WithTop(m), NewMachine(Following(cur)))
    BY <1>6 DEF EnterSubquery, m
  <2>2. NewMachine(Following(cur)) \in Machine
    BY <1>4, <2>1 DEF NewMachine, Machine, States
  <2>3. machines' \in Seq(Machine)
    BY <1>4, <2>1, <2>2, AppendProperties
  <2>. QED
    BY <1>4, <2>1, <2>3 DEF TypeOK
<1>7. CASE ChangeState
  <2>1. /\ Turn /\ cur' = Following(cur) /\ read' = TRUE
        /\ machines' = WithTop(Successor(m, Following(cur)))
        /\ Has(Following(cur))
    BY <1>7 DEF ChangeState, m, ChangesState, IsType
  <2>2. Successor(m, Following(cur)) \in Machine
    BY <1>4, <2>1, SuccessorType
  <2>3. machines' \in Seq(Machine)
    BY <1>4, <2>1, <2>2, TurnReads, WithTopType DEF TypeOK
  <2>. QED
    BY <1>4, <2>1, <2>3 DEF TypeOK
<1>8. CASE PassOver
  <2>1. Turn /\ cur' = Following(cur) /\ read' = FALSE /\ machines' = WithTop(m)
    BY <1>8 DEF PassOver, m
  <2>. QED
    BY <1>4, <2>1 DEF TypeOK
<1>9. CASE ReturnToOuter
  <2>1. machines' \in Seq(Machine)
    BY <1>9, ReturnMachines
  <2>. QED
    BY <1>9, <2>1, FollowingType DEF ReturnToOuter, TypeOK
<1>10. CASE Finish
  BY <1>10 DEF Finish, TypeOK
<1>. QED
  BY <1>1, <1>2, <1>3, <1>5, <1>6, <1>7, <1>8, <1>9, <1>10 DEF Next

-----------------------------------------------------------------------------
(* What a turn appends stands before the token it goes to.                  *)
LEMMA TurnOut ==
  ASSUME TypeOK, Running, OutIsText, NotYet, InOrder, Turn
  PROVE  /\ InOrder'
         /\ \A i \in 1..Len(out') : /\ out'[i].pos \in 1..Len(tokens)
                                    /\ tokens[out'[i].pos].raw # NoText
                                    /\ out'[i].pos <= cur
                                    /\ out'[i].pos < Following(cur)
<1>. DEFINE f == Following(cur)
<1>1. Reading /\ Has(cur)
  BY TurnReads
<1>2. cur \in Nat /\ cur > 0 /\ (f = cur \/ f = cur + 1) /\ (tokens[cur].raw # NoText => f = cur + 1)
  BY <1>1, FollowingType DEF TypeOK
<1>4. Len(out) \in Nat /\ Len(tokens) \in Nat
  BY DEF TypeOK
<1>3. \A i \in 1..Len(out) : /\ out[i].pos \in 1..Len(tokens) /\ out[i].pos \in Nat
                             /\ tokens[out[i].pos].raw # NoText
                             /\ out[i].pos < cur
  BY <1>1, <1>4 DEF OutIsText, NotYet
<1>. HIDE DEF f
<1>5. CASE tokens[cur].raw = NoText
  <2>1. out' = out
    BY <1>1, <1>5, AppendType DEF Turn
  <2>2. InOrder'
    BY <2>1 DEF InOrder
  <2>3. ASSUME NEW i \in 1..Len(out')
        PROVE  out'[i].pos <= cur /\ out'[i].pos < f
    BY <1>2, <1>3, <2>1
  <2>. QED
    BY <1>3, <2>1, <2>2, <2>3 DEF f
<1>6. CASE tokens[cur].raw # NoText
  <2>1. /\ Len(out') = Len(out) + 1
        /\ \A i \in 1..Len(out) : out'[i] = out[i]
        /\ out'[Len(out) + 1].pos = cur
    BY <1>1, <1>6, AppendType DEF Turn
  <2>2. InOrder'
    <3>1. SUFFICES ASSUME NEW i \in 1..(Len(out') - 1)
                   PROVE  out'[i].pos < out'[i + 1].pos
      BY DEF InOrder
    <3>2. CASE i < Len(out)
      BY <1>4, <2>1, <3>1, <3>2 DEF InOrder
    <3>3. CASE i = Len(out)
      BY <1>3, <1>4, <2>1, <3>1, <3>3
    <3>. QED
      BY <1>4, <2>1, <3>1, <3>2, <3>3
  <2>3. ASSUME NEW i \in 1..Len(out')
        PROVE  /\ out'[i].pos \in 1..Len(tokens)
               /\ tokens[out'[i].pos].raw # NoText
               /\ out'[i].pos <= cur
               /\ out'[i].pos < f
    <3>1. CASE i <= Len(out)
      BY <1>2, <1>3, <1>4, <2>1, <2>3, <3>1
    <3>2. CASE i = Len(out) + 1
      BY <1>1, <1>2, <1>6, <2>1, <3>2 DEF Has
    <3>. QED
      BY <1>4, <2>1, <2>3, <3>1, <3>2
  <2>. QED
    BY <2>2, <2>3 DEF f
<1>. QED
  BY <1>5, <1>6

(* Each step keeps the order of what is appended.                           *)
LEMMA OrderStep ==
  ASSUME OrderIInv, [Next]_vars
  PROVE  OrderIInv'
<1>. USE DEF OrderIInv
<1>1. TypeOK'
  BY TypeStep
<1>2. CASE UNCHANGED vars
  BY <1>1, <1>2 DEF vars, Running, Fresh, OutIsText, NotYet, Reading, InOrder
<1>3. CASE StartMachine
  <2>1. /\ phase = "start" /\ phase' = "running" /\ machines' = <<NewMachine(1)>>
        /\ out' = out /\ cur' = cur /\ tokens' = tokens
    BY <1>3 DEF StartMachine
  <2>2. out' = <<>> /\ Len(machines') = 1
    BY <2>1 DEF Fresh
  <2>. QED
    BY <1>1, <2>1, <2>2 DEF Running, Fresh, OutIsText, NotYet, InOrder
<1>4. CASE ReturnUnchanged
  BY <1>1, <1>4 DEF ReturnUnchanged, Running, Fresh, OutIsText, NotYet, Reading, InOrder
<1>5. ASSUME Turn, cur' \in {cur, Following(cur)}, Len(machines') >= Len(machines),
             cur' = cur => machines'[Len(machines')].level < 0 \/ Following(cur) = cur
      PROVE  OrderIInv'
  <2>1. phase = "running" /\ phase' = "running" /\ tokens' = tokens /\ Len(machines) >= 1
    BY <1>5, TurnReads DEF Turn
  <2>2. /\ InOrder'
        /\ \A i \in 1..Len(out') : /\ out'[i].pos \in 1..Len(tokens)
                                   /\ tokens[out'[i].pos].raw # NoText
                                   /\ out'[i].pos <= cur
                                   /\ out'[i].pos < Following(cur)
    BY <1>5, TurnOut
  <2>3. Running' /\ Fresh'
    BY <1>1, <1>5, <2>1 DEF Running, Fresh, TypeOK
  <2>4. (Following(cur) = cur \/ Following(cur) = cur + 1) /\ cur \in Nat
    BY FollowingType DEF TypeOK
  <2>5. OutIsText'
    BY <1>5, <2>1, <2>2, <2>4 DEF OutIsText
  <2>6. NotYet'
    <3>1. SUFFICES ASSUME Reading', NEW i \in 1..Len(out') PROVE out'[i].pos < cur'
      BY DEF NotYet
    <3>2. cur' = Following(cur)
      <4>1. machines'[Len(machines')].level >= 0
        BY <3>1 DEF Reading
      <4>2. machines'[Len(machines')] \in Machine
        BY <1>1, <1>5, <2>1 DEF TypeOK
      <4>3. machines'[Len(machines')].level \in Int
        BY <4>2 DEF Machine
      <4>. QED
        BY <1>5, <4>1, <4>3
    <3>. QED
      BY <2>2, <3>1, <3>2
  <2>. QED
    BY <1>1, <2>2, <2>3, <2>5, <2>6
<1>. DEFINE m == [Top EXCEPT !.level = LevelBehind]
<1>6. Turn => /\ m \in Machine /\ m.level = LevelBehind
              /\ \A n \in Machine : /\ WithTop(n) \in Seq(Machine)
                                    /\ Len(WithTop(n)) = Len(machines)
                                    /\ WithTop(n)[Len(machines)] = n
  BY TurnReads, LevelType, WithTopType DEF TypeOK
<1>. HIDE DEF m
<1>7. CASE CloseMachine
  <2>1. Turn /\ machines' = WithTop(m) /\ cur' = cur /\ LevelBehind < 0
    BY <1>7 DEF CloseMachine, m
  <2>2. Len(machines') = Len(machines) /\ machines'[Len(machines')].level = LevelBehind
    BY <1>6, <2>1
  <2>3. Len(machines) \in Nat
    BY DEF TypeOK
  <2>. QED
    BY <1>5, <2>1, <2>2, <2>3
<1>8. CASE EnterSubquery
  <2>1. /\ Turn /\ cur' = Following(cur)
        /\ machines' = Append(WithTop(m), NewMachine(Following(cur)))
    BY <1>8 DEF EnterSubquery, m
  <2>2. Len(machines') = Len(machines) + 1
    BY <1>6, <2>1
  <2>3. Len(machines) \in Nat
    BY DEF TypeOK
  <2>. QED
    BY <1>5, <2>1, <2>2, <2>3
<1>9. CASE ChangeState
  <2>1. /\ Turn /\ cur' = Following(cur)
        /\ machines' = WithTop(Successor(m, Following(cur)))
        /\ Has(Following(cur))
    BY <1>9 DEF ChangeState, m, ChangesState, IsType
  <2>2. Successor(m, Following(cur)) \in Machine
    BY <1>6, <2>1, SuccessorType, FollowingType
  <2>3. Len(machines') = Len(machines) /\ Len(machines) \in Nat
    BY <1>6, <2>1, <2>2 DEF TypeOK
  <2>. QED
    BY <1>5, <2>1, <2>3
<1>10. CASE PassOver
  <2>1. Turn /\ cur' = Following(cur) /\ machines' = WithTop(m)
    BY <1>10 DEF PassOver, m
  <2>2. Len(machines') = Len(machines) /\ Len(machines) \in Nat
    BY <1>6, <2>1 DEF TypeOK
  <2>. QED
    BY <1>5, <2>1, <2>2
<1>11. CASE ReturnToOuter
  <2>1. /\ phase = "running" /\ phase' = "running" /\ tokens' = tokens /\ out' = out
        /\ cur' = Following(cur) /\ AtEnd
    BY <1>11 DEF ReturnToOuter
  <2>2. Len(machines') = Len(machines) - 1 /\ Len(machines) > 1 /\ Len(machines) \in Nat
    BY <1>11, ReturnMachines DEF TypeOK
  <2>3. Running' /\ Fresh' /\ InOrder'
    BY <2>1, <2>2 DEF Running, Fresh, InOrder
  <2>4. cur \in Nat /\ Len(tokens) \in Nat /\ (cur' = cur \/ cur' = cur + 1)
        /\ (Has(cur) /\ tokens[cur].raw # NoText => cur' = cur + 1)
    BY <2>1, FollowingType DEF TypeOK
  <2>5. OutIsText'
    <3>1. SUFFICES ASSUME NEW i \in 1..Len(out)
                   PROVE  /\ out[i].pos \in 1..Len(tokens)
                          /\ tokens[out[i].pos].raw # NoText
                          /\ out[i].pos <= cur'
      BY <2>1 DEF OutIsText
    <3>2. out[i].pos \in 1..Len(tokens) /\ tokens[out[i].pos].raw # NoText /\ out[i].pos <= cur
      BY <3>1 DEF OutIsText
    <3>. QED
      BY <2>4, <3>2
  <2>6. ASSUME NEW i \in 1..Len(out), cur' \in 1..Len(tokens)
        PROVE  out[i].pos < cur'
    <3>1. out[i].pos \in 1..Len(tokens) /\ tokens[out[i].pos].raw # NoText /\ out[i].pos <= cur
      BY <2>6 DEF OutIsText
    <3>2. CASE out[i].pos = cur
      BY <2>4, <3>1, <3>2 DEF Has
    <3>3. CASE out[i].pos # cur
      BY <2>4, <3>1, <3>3
    <3>. QED
      BY <3>2, <3>3
  <2>7. NotYet'
    BY <2>1, <2>6 DEF NotYet, Reading
  <2>. QED
    BY <1>1, <2>3, <2>5, <2>7
<1>12. CASE Finish
  BY <1>1, <1>12 DEF Finish, Running, Fresh, OutIsText, NotYet, Reading, InOrder
<1>. QED
  BY <1>2, <1>3, <1>4, <1>7, <1>8, <1>9, <1>10, <1>11, <1>12 DEF Next

-----------------------------------------------------------------------------
(* What a turn keeps: what was kept, and the current token if it has a text.*)
LEMMA TurnKept ==
  ASSUME OrderIInv, Turn
  PROVE  \A p \in Nat : Kept(p)' <=> Kept(p) \/ (p = cur /\ tokens[cur].raw # NoText)
<1>1. TypeOK /\ Has(cur) /\ AppendCurrent /\ Len(out) \in Nat
  BY TurnReads DEF OrderIInv, Turn, TypeOK
<1>2. CASE tokens[cur].raw = NoText
  <2>1. out' = out
    BY <1>1, <1>2, AppendType
  <2>. QED
    BY <1>2, <2>1 DEF Kept
<1>3. CASE tokens[cur].raw # NoText
  <2>1. /\ Len(out') = Len(out) + 1
        /\ \A i \in 1..Len(out) : out'[i] = out[i]
        /\ out'[Len(out) + 1].pos = cur
    BY <1>1, <1>3, AppendType
  <2>2. ASSUME NEW p \in Nat, Kept(p)'
        PROVE  Kept(p) \/ p = cur
    <3>1. PICK i \in 1..Len(out') : out'[i].pos = p
      BY <2>2 DEF Kept
    <3>2. CASE i = Len(out) + 1
      BY <2>1, <3>1, <3>2
    <3>3. CASE i # Len(out) + 1
      BY <1>1, <2>1, <3>1, <3>3 DEF Kept
    <3>. QED
      BY <3>2, <3>3
  <2>3. ASSUME NEW p \in Nat, Kept(p)
        PROVE  Kept(p)'
    <3>1. PICK i \in 1..Len(out) : out[i].pos = p
      BY <2>3 DEF Kept
    <3>. QED
      BY <1>1, <2>1, <3>1 DEF Kept
  <2>4. ASSUME NEW p \in Nat, p = cur
        PROVE  Kept(p)'
    <3>1. Len(out) + 1 \in 1..Len(out')
      BY <1>1, <2>1
    <3>. QED
      BY <2>1, <2>4, <3>1 DEF Kept
  <2>. QED
    BY <1>3, <2>2, <2>3, <2>4
<1>. QED
  BY <1>2, <1>3

(* A turn loses nothing, wherever it goes.                                  *)
LEMMA TurnLosesNothing ==
  ASSUME LostIInv, Turn, cur' = cur \/ cur' = Following(cur)
  PROVE  Lost'
<1>1. /\ cur \in Nat /\ cur > 0 /\ tokens' = tokens /\ Has(cur)
      /\ (cur' = cur \/ (cur' = cur + 1 /\ tokens[cur].raw # NoText))
  BY FollowingType, TurnReads DEF LostIInv, OrderIInv, TypeOK, Turn
<1>2. SUFFICES ASSUME NEW p \in 1..(cur' - 1), Has(p)', ~Kept(p)'
               PROVE  p > 1 /\ (tokens'[p - 1].type = ")" \/ ~Kept(p - 1)')
  BY DEF Lost, BehindClosing, Kept
<1>3. p \in Nat /\ p > 0 /\ p <= cur
  BY <1>1
<1>4. ~Kept(p) /\ p # cur
  BY <1>1, <1>2, <1>3, TurnKept DEF LostIInv
<1>5. BehindClosing(p)
  BY <1>1, <1>2, <1>3, <1>4 DEF LostIInv, Lost, Has
<1>6. p - 1 \in Nat /\ p - 1 # cur
  BY <1>1, <1>3
<1>. QED
  BY <1>1, <1>5, <1>6, TurnKept DEF BehindClosing, LostIInv

(* Each step keeps account of what is lost.                                 *)
LEMMA LostStep ==
  ASSUME LostIInv, [Next]_vars
  PROVE  LostIInv'
<1>1. OrderIInv' /\ OrderIInv
  BY OrderStep DEF LostIInv
<1>2. TypeOK /\ TypeOK' /\ Running
  BY <1>1 DEF OrderIInv
<1>3. CASE UNCHANGED vars
  BY <1>1, <1>3 DEF LostIInv, vars, Returning, Lost, BehindClosing, Has, Kept
<1>4. CASE StartMachine
  <2>1. cur' = 1
    BY <1>1, <1>4 DEF StartMachine, OrderIInv, Fresh
  <2>2. Lost'
    BY <2>1 DEF Lost
  <2>3. machines'[Len(machines')].level = 0
    BY <1>4 DEF StartMachine, NewMachine
  <2>4. Returning'
    BY <2>3 DEF Returning
  <2>. QED
    BY <1>1, <2>2, <2>4 DEF LostIInv
<1>5. CASE ReturnUnchanged \/ Finish
  <2>1. phase' # "running" /\ tokens' = tokens /\ cur' = cur /\ out' = out
    BY <1>5 DEF ReturnUnchanged, Finish
  <2>2. Returning'
    BY <2>1 DEF Returning
  <2>3. Lost'
    BY <2>1 DEF LostIInv, Lost, BehindClosing, Has, Kept
  <2>. QED
    BY <1>1, <2>2, <2>3 DEF LostIInv
<1>. DEFINE m == [Top EXCEPT !.level = LevelBehind]
<1>6. Turn => /\ m \in Machine /\ m.level = LevelBehind /\ LevelBehind \in Int
              /\ Len(machines) \in Nat /\ Len(machines) >= 1
              /\ \A n \in Machine : /\ WithTop(n) \in Seq(Machine)
                                    /\ Len(WithTop(n)) = Len(machines)
                                    /\ WithTop(n)[Len(machines)] = n
  BY <1>2, TurnReads, LevelType, WithTopType DEF TypeOK
<1>. HIDE DEF m
<1>7. ASSUME Turn, cur' = Following(cur), machines'[Len(machines')].level \in Nat
      PROVE  LostIInv'
  <2>1. Lost'
    BY <1>7, TurnLosesNothing
  <2>2. Returning'
    BY <1>7 DEF Returning
  <2>. QED
    BY <1>1, <2>1, <2>2 DEF LostIInv
<1>8. CASE CloseMachine
  <2>1. Turn /\ cur' = cur /\ LevelBehind < 0
    BY <1>8 DEF CloseMachine
  <2>2. Lost'
    BY <2>1, TurnLosesNothing
  <2>3. Has(cur) /\ Top.level \in Int /\ Top.level >= 0 /\ tokens' = tokens
    BY <1>2, <2>1, TurnReads, LevelType DEF Reading, Top, Depth, Machine, Turn
  <2>4. tokens[cur].type = ")"
    BY <2>1, <2>3 DEF LevelBehind
  <2>5. tokens[cur].raw # NoText
    <3>1. tokens[cur] \in Token
      BY <1>2, <2>3 DEF TypeOK, Has
    <3>. QED
      BY <2>4, <3>1 DEF Token
  <2>6. \A p \in Nat : p = cur => Kept(p)'
    BY <1>1, <2>1, <2>5, TurnKept
  <2>7. cur \in Nat
    BY <1>2 DEF TypeOK
  <2>8. \E i \in 1..Len(out') : out'[i].pos = cur'
    BY <2>1, <2>6, <2>7 DEF Kept
  <2>9. Returning'
    BY <2>1, <2>3, <2>4, <2>8 DEF Returning, Kept
  <2>. QED
    BY <1>1, <2>2, <2>9 DEF LostIInv
<1>9. CASE EnterSubquery
  <2>1. /\ Turn /\ cur' = Following(cur)
        /\ machines' = Append(WithTop(m), NewMachine(Following(cur)))
    BY <1>9 DEF EnterSubquery, m
  <2>2. NewMachine(Following(cur)) \in Machine
    BY <1>2, FollowingType DEF NewMachine, Machine, States
  <2>3. machines'[Len(machines')] = NewMachine(Following(cur))
    BY <1>6, <2>1, <2>2, AppendProperties
  <2>4. machines'[Len(machines')].level = 0
    BY <2>3 DEF NewMachine
  <2>. QED
    BY <1>7, <2>1, <2>4
<1>10. CASE ChangeState
  <2>1. /\ Turn /\ cur' = Following(cur) /\ LevelBehind >= 0
        /\ machines' = WithTop(Successor(m, Following(cur)))
        /\ Has(Following(cur))
    BY <1>10 DEF ChangeState, m, ChangesState, IsType
  <2>2. /\ Successor(m, Following(cur)) \in Machine
        /\ Successor(m, Following(cur)).level = LevelBehind
    BY <1>2, <1>6, <2>1, SuccessorType, FollowingType
  <2>3. machines'[Len(machines')].level = LevelBehind
    BY <1>6, <2>1, <2>2
  <2>4. LevelBehind \in Nat
    BY <1>6, <2>1
  <2>. QED
    BY <1>7, <2>1, <2>3, <2>4
<1>11. CASE PassOver
  <2>1. Turn /\ cur' = Following(cur) /\ machines' = WithTop(m) /\ LevelBehind >= 0
    BY <1>11 DEF PassOver, m
  <2>2. machines'[Len(machines')].level = LevelBehind
    BY <1>6, <2>1
  <2>3. LevelBehind \in Nat
    BY <1>6, <2>1
  <2>. QED
    BY <1>7, <2>1, <2>2, <2>3
<1>12. CASE ReturnToOuter
  <2>1. phase = "running" /\ tokens' = tokens /\ out' = out /\ cur' = Following(cur) /\ AtEnd
    BY <1>12 DEF ReturnToOuter
  <2>2. cur \in Nat /\ cur > 0 /\ Len(tokens) \in Nat
    BY <1>2 DEF TypeOK
  <2>3. CASE ~Has(cur) \/ tokens[cur].raw = NoText
    <3>1. cur' = cur
      BY <1>2, <2>1, <2>3, FollowingType
    <3>2. Has(cur) => ~Kept(cur)
      BY <1>1, <2>3 DEF Kept, OrderIInv, OutIsText
    <3>3. Has(cur) => BehindClosing(cur)
      BY <2>1, <3>2 DEF LostIInv, Returning, AtEnd, Top, Depth
    <3>4. Lost' /\ Returning'
      BY <2>1, <3>1, <3>2, <3>3 DEF LostIInv, Lost, Returning, BehindClosing, Has, Kept
    <3>. QED
      BY <1>1, <3>4 DEF LostIInv
  <2>4. CASE Has(cur) /\ tokens[cur].raw # NoText
    <3>1. cur' = cur + 1
      BY <1>2, <2>1, <2>4, FollowingType
    <3>2. (Kept(cur) /\ tokens[cur].type = ")") \/ (~Kept(cur) /\ BehindClosing(cur))
      BY <2>1, <2>4 DEF LostIInv, Returning, AtEnd, Top, Depth
    <3>3. \A p \in 1..cur : Has(p) /\ ~Kept(p) => BehindClosing(p)
      BY <2>2, <3>2 DEF LostIInv, Lost
    <3>4. Lost'
      BY <2>1, <2>2, <3>1, <3>3 DEF Lost, BehindClosing, Has, Kept
    <3>5. ~Kept(cur + 1)
      BY <1>1, <2>2 DEF Kept, OrderIInv, OutIsText
    <3>6. Returning'
      <4>1. BehindClosing(cur + 1)
        BY <2>2, <3>2 DEF BehindClosing
      <4>. QED
        BY <2>1, <3>1, <3>5, <4>1 DEF Returning, BehindClosing, Kept
    <3>. QED
      BY <1>1, <3>4, <3>6 DEF LostIInv
  <2>. QED
    BY <2>3, <2>4
<1>. QED
  BY <1>3, <1>4, <1>5, <1>8, <1>9, <1>10, <1>11, <1>12 DEF Next

-----------------------------------------------------------------------------
(* Before the first step nothing is kept, lost or open.                     *)
LEMMA InitIInv == Init => LostIInv
<1>. SUFFICES ASSUME Init PROVE LostIInv
  OBVIOUS
<1>1. TypeOK
  BY DEF Init, TypeOK
<1>. QED
  BY <1>1 DEF Init, LostIInv, OrderIInv, Running, Fresh, OutIsText, NotYet, Reading,
              InOrder, Returning, Lost

(* The inductive invariant of the machines.                                 *)
THEOREM ColumnsIInv == Spec => []LostIInv
<1>1. LostIInv /\ [Next]_vars => LostIInv'
  BY LostStep
<1>. QED
  BY InitIInv, <1>1, PTL DEF Spec

(* The variables keep their types, for queries of any length.               *)
THEOREM ColumnsTypes == Spec => []TypeOK
<1>1. LostIInv => TypeOK
  BY DEF LostIInv, OrderIInv
<1>. QED
  BY <1>1, ColumnsIInv, PTL

(* What the invariant says of the places that are kept.                    *)
LEMMA LostInOrder == LostIInv => InOrder
BY DEF LostIInv, OrderIInv

(* No token is appended twice or before an earlier one, however deep the    *)
(* subqueries are nested and wherever their parentheses stand.              *)
THEOREM TokensStayInOrder == Spec => []InOrder
BY LostInOrder, ColumnsIInv, PTL

LEMMA LostBehind == LostIInv => LostBehindParenthesis
<1>1. SUFFICES ASSUME LostIInv, NEW p \in 1..(cur - 1), Has(p), ~Kept(p)
               PROVE  p > 1 /\ (tokens[p - 1].type = ")" \/ ~Kept(p - 1))
  BY DEF LostBehindParenthesis
<1>. QED
  BY <1>1 DEF LostIInv, Lost, BehindClosing

(* A token that is not appended stands behind a closing parenthesis, alone  *)
(* or with others that are lost.                                            *)
THEOREM OnlyBehindParentheses == Spec => []LostBehindParenthesis
BY LostBehind, ColumnsIInv, PTL

-----------------------------------------------------------------------------
(* Blanks and commas are no words.                                          *)
LEMMA BlankIsNoName ==
  /\ Blank # "(" /\ Blank # ")" /\ Blank # Comma /\ Blank # "IDENT"
  /\ Blank # "SELECT" /\ Blank # "AS" /\ Blank # "FROM" /\ Blank # "JOIN"
  /\ Comma # "(" /\ Comma # ")" /\ Comma # "IDENT" /\ Comma # "SELECT"
  /\ Comma # "AS" /\ Comma # "FROM" /\ Comma # "JOIN" /\ Comma # "OTHER"
  BY Zenon DEF Blank, Comma

(* What the assumption on the names says of the tokens.                     *)
LEMMA TokenFacts ==
  ASSUME TypeOK, NEW p, Has(p)
  PROVE  /\ tokens[p].type \in Separators =>
              /\ ~IsSelect(p) /\ ~tokens[p].column
              /\ tokens[p].word \notin TableKeywords /\ tokens[p].word # "AS"
         /\ tokens[p].type \in {"(", ")", Blank} \/ tokens[p].raw = NoText => ~ChangesState(p)
         /\ tokens[p].raw = NoText => ~IsSelect(p) /\ tokens[p].type = "OTHER"
         /\ tokens[p].column => tokens[p].word \notin TableKeywords \cup {"SELECT", "AS", Comma}
         /\ tokens[p].dotted => tokens[p].column
         /\ tokens[p].raw \in TableKeywords => tokens[p].word = tokens[p].raw
         /\ IsSelect(p) => tokens[p].word \notin TableKeywords
<1>. DEFINE t == tokens[p]
<1>1. t \in Token
  BY DEF TypeOK, Has
<1>2. /\ t.word = UpperOf(t.raw) /\ t.column = (UpperOf(t.raw) \in ColumnNames)
      /\ t.dotted = (t.raw \in Dotted)
  BY <1>1 DEF Token, TokenOf
<1>3. /\ t.type \in Separators => t.raw = t.type
      /\ t.raw = NoText => t.type = "OTHER"
  BY <1>1 DEF Token
<1>. HIDE DEF t
<1>4. /\ \A k \in {"FROM", "JOIN", "(", ")", Comma, Blank, "SELECT", "AS", NoText} :
           UpperOf(k) = k /\ k \notin ColumnNames
      /\ \A d \in Dotted : UpperOf(d) \in ColumnNames
      /\ \A y \in {"(", ")", Blank, "OTHER"} : y \notin FunctionTypes
  BY ColumnsAssumption DEF TableKeywords, Separators
<1>5. IsSelect(p) <=> t.word = "SELECT"
  BY DEF IsSelect, t
<1>6. ChangesState(p) <=> t.type \in {"IDENT", Comma} \cup FunctionTypes
  BY DEF ChangesState, IsType, t
<1>7. t.type \in Separators =>
        ~IsSelect(p) /\ ~t.column /\ t.word \notin TableKeywords /\ t.word # "AS"
  BY <1>2, <1>3, <1>4, <1>5, BlankIsNoName DEF Separators, TableKeywords
<1>8. t.type \in {"(", ")", Blank} \/ t.raw = NoText => ~ChangesState(p)
  BY <1>3, <1>4, <1>6, BlankIsNoName
<1>9. t.raw = NoText => ~IsSelect(p) /\ t.type = "OTHER"
  BY <1>2, <1>3, <1>4, <1>5 DEF NoText
<1>10. t.column => t.word \notin TableKeywords \cup {"SELECT", "AS", Comma}
  BY <1>2, <1>4 DEF TableKeywords
<1>11. t.dotted => t.column
  BY <1>2, <1>4
<1>12. t.raw \in TableKeywords => t.word = t.raw
  BY <1>2, <1>4 DEF TableKeywords
<1>13. IsSelect(p) => t.word \notin TableKeywords
  BY <1>5 DEF TableKeywords
<1>. QED
  BY <1>7, <1>8, <1>9, <1>10, <1>11, <1>12, <1>13 DEF t

(* A place has as many open parentheses as the one before it, and one more  *)
(* or less if it is a parenthesis.                                          *)
LEMMA OpenStep ==
  ASSUME NEW p \in Nat \ {0}
  PROVE  /\ Open(p) \in Int /\ Open(p - 1) \in Int
         /\ Open(p) = Open(p - 1) + (IF tokens[p].type = "(" THEN 1
                                     ELSE IF tokens[p].type = ")" THEN -1 ELSE 0)
<1>. DEFINE S(c, q) == {i \in 1..q : tokens[i].type = c}
<1>1. ASSUME NEW c, NEW q \in Nat
      PROVE  IsFiniteSet(S(c, q)) /\ Cardinality(S(c, q)) \in Nat
  <2>1. IsFiniteSet(1..q)
    BY <1>1, FS_Interval
  <2>2. S(c, q) \subseteq 1..q
    OBVIOUS
  <2>. QED
    BY <2>1, <2>2, FS_Subset, FS_CardinalityType
<1>2. ASSUME NEW c
      PROVE  Cardinality(S(c, p)) = Cardinality(S(c, p - 1))
                                      + (IF tokens[p].type = c THEN 1 ELSE 0)
  <2>1. p - 1 \in Nat /\ p \notin S(c, p - 1)
    OBVIOUS
  <2>4. IsFiniteSet(S(c, p - 1)) /\ Cardinality(S(c, p - 1)) \in Nat
    BY <1>1, <2>1
  <2>2. CASE tokens[p].type = c
    <3>1. S(c, p) = S(c, p - 1) \cup {p}
      BY <2>2
    <3>. HIDE DEF S
    <3>. QED
      BY <2>1, <2>2, <2>4, <3>1, FS_AddElement
  <2>3. CASE tokens[p].type # c
    <3>1. S(c, p) = S(c, p - 1)
      BY <2>3
    <3>. HIDE DEF S
    <3>. QED
      BY <2>3, <2>4, <3>1
  <2>. QED
    BY <2>2, <2>3
<1>3. \A q \in Nat : Open(q) = Cardinality(S("(", q)) - Cardinality(S(")", q))
  BY DEF Open
<1>. HIDE DEF S
<1>4. p - 1 \in Nat /\ p \in Nat
  OBVIOUS
<1>5. /\ Cardinality(S("(", p)) \in Nat /\ Cardinality(S(")", p)) \in Nat
      /\ Cardinality(S("(", p - 1)) \in Nat /\ Cardinality(S(")", p - 1)) \in Nat
  BY <1>1, <1>4
<1>6. /\ Cardinality(S("(", p)) = Cardinality(S("(", p - 1))
                                   + (IF tokens[p].type = "(" THEN 1 ELSE 0)
      /\ Cardinality(S(")", p)) = Cardinality(S(")", p - 1))
                                   + (IF tokens[p].type = ")" THEN 1 ELSE 0)
  BY <1>2
<1>. QED
  BY <1>3, <1>4, <1>5, <1>6

LEMMA OpenNone == Open(0) = 0
<1>1. /\ {i \in 1..0 : tokens[i].type = "("} = {}
      /\ {i \in 1..0 : tokens[i].type = ")"} = {}
  OBVIOUS
<1>. QED
  BY <1>1, FS_EmptySet DEF Open

LEMMA OpenType ==
  ASSUME NEW p \in Nat
  PROVE  Open(p) \in Int
<1>1. CASE p = 0
  BY <1>1, OpenNone
<1>2. CASE p # 0
  BY <1>2, OpenStep
<1>. QED
  BY <1>1, <1>2

LEMMA OpenOverSpaces ==
  ASSUME NEW b \in Nat, NEW p \in Nat, b <= p,
         \A i \in (b + 1)..p : tokens[i].type = Blank
  PROVE  Open(p) = Open(b)
<1>1. ASSUME NEW i \in 1..p, tokens[i].type \in {"(", ")"}
      PROVE  i \in 1..b
  <2>1. i \in Nat /\ i >= 1 /\ i <= p
    BY <1>1
  <2>2. CASE i > b
    <3>1. i \in (b + 1)..p
      BY <2>1, <2>2
    <3>. QED
      BY <1>1, <3>1, BlankIsNoName
  <2>. QED
    BY <2>1, <2>2
<1>2. \A i \in 1..b : i \in 1..p
  OBVIOUS
<1>3. /\ {i \in 1..p : tokens[i].type = "("} = {i \in 1..b : tokens[i].type = "("}
      /\ {i \in 1..p : tokens[i].type = ")"} = {i \in 1..b : tokens[i].type = ")"}
  BY <1>1, <1>2
<1>. QED
  BY <1>3 DEF Open

(* What is said of places depends on the tokens alone.                      *)
LEMMA PlacesStay ==
  ASSUME tokens' = tokens, NEW p, NEW q
  PROVE  /\ Open(p)' = Open(p) /\ Has(p)' = Has(p)
         /\ IsSelect(p)' = IsSelect(p) /\ ChangesState(p)' = ChangesState(p)
         /\ IsRead(p)' = IsRead(p)
         /\ StandsBehind(p, q)' = StandsBehind(p, q)
         /\ DeclaresAlias(p, q)' = DeclaresAlias(p, q)
         /\ Owns(p, q)' = Owns(p, q)
<1>1. \A i : Open(i)' = Open(i)
  <2>1. TAKE i
  <2>2. /\ {k \in 1..i : tokens'[k].type = "("} = {k \in 1..i : tokens[k].type = "("}
        /\ {k \in 1..i : tokens'[k].type = ")"} = {k \in 1..i : tokens[k].type = ")"}
    OBVIOUS
  <2>. QED
    BY <2>2 DEF Open
<1>2. \A i : Has(i)' = Has(i) /\ IsSelect(i)' = IsSelect(i) /\ ChangesState(i)' = ChangesState(i)
  BY DEF Has, IsSelect, ChangesState, IsType
<1>3. \A i : ClosesSubquery(i)' <=> ClosesSubquery(i)
  BY <1>1, <1>2 DEF ClosesSubquery, IsType
<1>4. IsRead(p)' = IsRead(p)
  BY <1>2, <1>3 DEF IsRead
<1>5. \A i, j : StandsBehind(i, j)' <=> StandsBehind(i, j)
  BY DEF StandsBehind
<1>6. DeclaresAlias(p, q)' <=> DeclaresAlias(p, q)
  BY <1>2, <1>5 DEF DeclaresAlias, IsType, Places
<1>7. Owns(p, q)' <=> Owns(p, q)
  BY <1>1, <1>2 DEF Owns
<1>8. StandsBehind(p, q)' = StandsBehind(p, q)
  BY DEF StandsBehind
<1>9. DeclaresAlias(p, q)' = DeclaresAlias(p, q)
  BY <1>6 DEF DeclaresAlias
<1>10. Owns(p, q)' = Owns(p, q)
  BY <1>7 DEF Owns
<1>. QED
  BY <1>1, <1>2, <1>4, <1>8, <1>9, <1>10

LEMMA WellFormedStays ==
  ASSUME tokens' = tokens
  PROVE  /\ WellFormed' <=> WellFormed
         /\ \A b : AnnouncesTable(b)' <=> AnnouncesTable(b)
         /\ \A p, q : UsesAlias(p, q)' <=> UsesAlias(p, q)
<1>1. Places' = Places
  BY DEF Places
<1>2. /\ \A p : Open(p)' = Open(p) /\ IsSelect(p)' = IsSelect(p) /\ IsRead(p)' = IsRead(p)
      /\ \A p, q : StandsBehind(p, q)' = StandsBehind(p, q) /\ Owns(p, q)' = Owns(p, q)
  BY PlacesStay
<1>3. WellFormed' <=> WellFormed
  BY <1>1, <1>2 DEF WellFormed, Parenthesised, SubqueriesAlone
<1>4. \A b : AnnouncesTable(b)' <=> AnnouncesTable(b)
  BY <1>1, <1>2 DEF AnnouncesTable
<1>5. \A p, q : UsesAlias(p, q)' <=> UsesAlias(p, q)
  BY <1>1, <1>2 DEF UsesAlias
<1>. QED
  BY <1>3, <1>4, <1>5

(* The same of the current token, which moves.                              *)
LEMMA CurrentPlace ==
  ASSUME tokens' = tokens
  PROVE  /\ Open(cur)' = Open(cur') /\ Open(cur - 1)' = Open(cur' - 1)
         /\ Has(cur)' = Has(cur')
         /\ IsSelect(cur)' = IsSelect(cur') /\ ChangesState(cur)' = ChangesState(cur')
         /\ IsRead(cur)' = IsRead(cur')
<1>1. /\ {k \in 1..cur' : tokens'[k].type = "("} = {k \in 1..cur' : tokens[k].type = "("}
      /\ {k \in 1..cur' : tokens'[k].type = ")"} = {k \in 1..cur' : tokens[k].type = ")"}
      /\ {k \in 1..(cur' - 1) : tokens'[k].type = "("}
           = {k \in 1..(cur' - 1) : tokens[k].type = "("}
      /\ {k \in 1..(cur' - 1) : tokens'[k].type = ")"}
           = {k \in 1..(cur' - 1) : tokens[k].type = ")"}
  OBVIOUS
<1>2. Open(cur)' = Open(cur') /\ Open(cur - 1)' = Open(cur' - 1)
  BY <1>1 DEF Open
<1>3. /\ Has(cur)' = Has(cur') /\ IsSelect(cur)' = IsSelect(cur')
      /\ ChangesState(cur)' = ChangesState(cur')
  BY DEF Has, IsSelect, ChangesState, IsType
<1>4. \A i : Open(i)' = Open(i) /\ IsSelect(i)' = IsSelect(i)
  BY PlacesStay
<1>5. ClosesSubquery(cur - 1)' <=> ClosesSubquery(cur' - 1)
  <2>1. Open(cur - 1)' = Open(cur' - 1)
    BY <1>2
  <2>2. IsType(cur - 1, {")"})' <=> IsType(cur' - 1, {")"})
    BY DEF IsType, Has
  <2>. QED
    BY <1>4, <2>1, <2>2 DEF ClosesSubquery
<1>6. IsRead(cur)' = IsRead(cur')
  BY <1>3, <1>5 DEF IsRead
<1>. QED
  BY <1>2, <1>3, <1>6

-----------------------------------------------------------------------------
(* Of well-formed queries the machines keep everything, and split what they *)
(* should. Machine k began with the SELECT at s[k]; the place of the         *)
(* SELECTs is no state of the code, so that some s is asked for.             *)
Nested(s) ==
  /\ s \in Seq(Nat) /\ Len(s) = Len(machines) /\ Open(s[1]) = 0
  /\ \A k \in 1..Len(s) :
       /\ IsSelect(s[k]) /\ s[k] <= cur
       /\ \A p \in s[k]..(cur - 1) : Open(p) >= Open(s[k])
       /\ k < Len(s) => machines[k].level = Open(s[k + 1]) - Open(s[k])
  /\ \A k \in 1..Len(s) : \A j \in 1..(k - 1) :
       s[j] < s[k] /\ (Open(s[j]) < Open(s[k]) \/ (Open(s[j]) = 0 /\ Open(s[k]) = 0))

(* The innermost machine counts the parentheses since its SELECT, or it has *)
(* closed one more.                                                         *)
Counts(s) ==
  LET begin == s[Len(machines)] IN
  Has(cur) =>
    \/ Top.level >= 0 /\ Top.level = Open(cur - 1) - Open(begin)
    \/ /\ Top.level < 0 /\ ~read
       /\ tokens[cur].type = ")" /\ Kept(cur) /\ Open(cur) = Open(begin) - 1

(* What it reads is a SELECT or changes its state, and the other way round. *)
Reads ==
  Has(cur) => /\ read => (IsSelect(cur) \/ ChangesState(cur)) /\ Top.at = cur
              /\ IsRead(cur) => read

AllKept == \A p \in 1..(cur - 1) : Kept(p)

-----------------------------------------------------------------------------
(* Where a turn begins and where it goes.                                   *)
LEMMA TurnFacts ==
  ASSUME OrderIInv, WellFormed, Turn, NEW s, Nested(s), Counts(s), Reads
  PROVE  /\ phase = "running" /\ tokens' = tokens /\ Has(cur) /\ cur \in Nat \ {0}
         /\ Len(machines) \in Nat \ {0} /\ machines \in Seq(Machine) /\ Top \in Machine
         /\ s[Len(machines)] \in Nat \ {0} /\ s[Len(machines)] <= cur
         /\ Open(cur) \in Int /\ Open(cur - 1) \in Int /\ Open(s[Len(machines)]) \in Int
         /\ LevelBehind = Open(cur) - Open(s[Len(machines)])
         /\ Top.level >= 0
         /\ \/ Following(cur) = cur + 1 /\ tokens[cur].raw # NoText
            \/ /\ Following(cur) = cur /\ tokens[cur].raw = NoText
               /\ ~IsSelect(cur) /\ ~ChangesState(cur) /\ Open(cur - 1) = Open(cur)
<1>. DEFINE begin == s[Len(machines)]
<1>1. TypeOK /\ Running
  BY DEF OrderIInv
<1>2. phase = "running" /\ tokens' = tokens /\ Has(cur) /\ Len(machines) >= 1 /\ Reading
  BY <1>1, TurnReads DEF Turn
<1>3. /\ cur \in Nat \ {0} /\ Len(machines) \in Nat \ {0} /\ machines \in Seq(Machine)
      /\ Top \in Machine /\ Top.level >= 0
  BY <1>1, <1>2, LevelType DEF TypeOK, Reading, Top, Depth
<1>4. begin \in Nat \ {0} /\ begin <= cur
  <2>1. begin \in Nat /\ IsSelect(begin) /\ begin <= cur
    BY <1>3 DEF Nested
  <2>. QED
    BY <2>1 DEF IsSelect, Has
<1>5. Open(cur) \in Int /\ Open(cur - 1) \in Int /\ Open(begin) \in Int
  BY <1>3, <1>4, OpenType
<1>6. Open(cur) = Open(cur - 1) + (IF tokens[cur].type = "(" THEN 1
                                   ELSE IF tokens[cur].type = ")" THEN -1 ELSE 0)
  BY <1>3, OpenStep
<1>7. Top.level = Open(cur - 1) - Open(begin)
  BY <1>2, <1>3 DEF Counts, Machine
<1>8. read => tokens[cur].type # "(" /\ tokens[cur].type # ")"
  BY <1>1, <1>2, TokenFacts DEF Reads, Separators
<1>9. LevelBehind = Open(cur) - Open(begin)
  <2>. HIDE DEF begin
  <2>1. CASE read
    BY <1>5, <1>6, <1>7, <1>8, <2>1 DEF LevelBehind
  <2>2. CASE ~read
    BY <1>5, <1>6, <1>7, <2>2 DEF LevelBehind
  <2>. QED
    BY <2>1, <2>2
<1>10. CASE tokens[cur].raw # NoText
  <2>1. Following(cur) = cur + 1
    BY <1>1, <1>2, <1>10, FollowingType
  <2>. QED
    BY <1>2, <1>3, <1>4, <1>5, <1>9, <1>10, <2>1
<1>11. CASE tokens[cur].raw = NoText
  <2>1. Following(cur) = cur
    BY <1>1, <1>2, <1>11, FollowingType
  <2>2. ~IsSelect(cur) /\ ~ChangesState(cur) /\ tokens[cur].type = "OTHER"
    BY <1>1, <1>2, <1>11, TokenFacts
  <2>3. Open(cur - 1) = Open(cur)
    BY <1>5, <1>6, <2>2
  <2>. QED
    BY <1>2, <1>3, <1>4, <1>5, <1>9, <1>11, <2>1, <2>2, <2>3
<1>. QED
  BY <1>10, <1>11

(* What a machine goes to and reads is no parenthesis.                      *)
LEMMA ReadFacts ==
  ASSUME OrderIInv, WellFormed, Turn, NEW s, Nested(s), Counts(s), Reads,
         IsSelect(Following(cur)) \/ ChangesState(Following(cur))
  PROVE  /\ Following(cur) = cur + 1 /\ Has(cur + 1) /\ tokens[cur].raw # NoText
         /\ Open(cur + 1) = Open(cur)
<1>1. TypeOK
  BY DEF OrderIInv
<1>2. Following(cur) = cur + 1 /\ tokens[cur].raw # NoText /\ cur \in Nat
  BY TurnFacts
<1>3. Has(cur + 1)
  BY <1>2 DEF IsSelect, ChangesState, IsType
<1>4. tokens[cur + 1].type # "(" /\ tokens[cur + 1].type # ")"
  BY <1>1, <1>2, <1>3, TokenFacts DEF Separators
<1>5. Open(cur + 1) = Open(cur)
  <2>1. cur + 1 \in Nat \ {0} /\ (cur + 1) - 1 = cur
    BY <1>2
  <2>2. Open(cur + 1) = Open((cur + 1) - 1) + 0 /\ Open(cur) \in Int
    BY <1>4, <2>1, OpenStep
  <2>. QED
    BY <2>1, <2>2
<1>. QED
  BY <1>2, <1>3, <1>5

LEMMA WithTopRest ==
  ASSUME machines \in Seq(Machine), Len(machines) >= 1, NEW m \in Machine
  PROVE  \A k \in 1..(Len(machines) - 1) : WithTop(m)[k] = machines[k]
  BY DEF WithTop, Depth

(* Up to the token a turn leaves, no parenthesis of a machine is closed.    *)
LEMMA TurnCovers ==
  ASSUME OrderIInv, WellFormed, Turn, NEW s, Nested(s), Counts(s), Reads, LevelBehind >= 0,
         NEW k \in 1..Len(s)
  PROVE  /\ s[k] \in Nat \ {0} /\ s[k] <= s[Len(s)] /\ Open(s[k]) <= Open(s[Len(s)])
         /\ Open(s[k]) \in Int
         /\ \A p \in s[k]..cur : Open(p) >= Open(s[k])
<1>. DEFINE n == Len(s)
<1>1. n = Len(machines) /\ n \in Nat \ {0} /\ cur \in Nat \ {0} /\ n \in 1..n
  <2>1. n = Len(machines)
    BY DEF Nested
  <2>. QED
    BY <2>1, TurnFacts
<1>2. s[k] \in Nat \ {0} /\ s[n] \in Nat \ {0}
  BY <1>1 DEF Nested, IsSelect, Has
<1>3. Open(s[k]) \in Int /\ Open(s[n]) \in Int /\ Open(cur) \in Int
  BY <1>1, <1>2, OpenType
<1>4. s[k] <= s[n] /\ Open(s[k]) <= Open(s[n])
  <2>1. CASE k = n
    BY <1>2, <1>3, <2>1
  <2>2. CASE k # n
    <3>1. k \in 1..(n - 1)
      BY <1>1, <2>2
    <3>2. s[k] < s[n] /\ (Open(s[k]) < Open(s[n]) \/ (Open(s[k]) = 0 /\ Open(s[n]) = 0))
      BY <1>1, <3>1 DEF Nested
    <3>. QED
      BY <1>2, <1>3, <3>2
  <2>. QED
    BY <2>1, <2>2
<1>5. Open(cur) >= Open(s[n])
  <2>1. LevelBehind = Open(cur) - Open(s[n])
    BY <1>1, TurnFacts
  <2>. QED
    BY <1>3, <2>1
<1>6. ASSUME NEW p \in s[k]..cur
      PROVE  Open(p) >= Open(s[k])
  <2>1. CASE p = cur
    BY <1>3, <1>4, <1>5, <2>1
  <2>2. CASE p # cur
    <3>1. p \in s[k]..(cur - 1)
      BY <1>1, <1>2, <2>2
    <3>. QED
      BY <1>1, <3>1 DEF Nested
  <2>. QED
    BY <2>1, <2>2
<1>. QED
  BY <1>2, <1>3, <1>4, <1>6

(* A turn that neither begins nor ends a machine.                           *)
LEMMA NestedTurn ==
  ASSUME OrderIInv, WellFormed, Turn, NEW s, Nested(s), Counts(s), Reads, LevelBehind >= 0,
         cur' = Following(cur), NEW m \in Machine, m.level = LevelBehind, machines' = WithTop(m)
  PROVE  Nested(s)' /\ Counts(s)'
<1>. DEFINE n == Len(s)
<1>1. /\ n = Len(machines) /\ n \in Nat \ {0} /\ cur \in Nat \ {0} /\ tokens' = tokens
      /\ machines \in Seq(Machine) /\ s \in Seq(Nat)
      /\ LevelBehind = Open(cur) - Open(s[n])
      /\ cur' = cur + 1 \/ (cur' = cur /\ Open(cur - 1) = Open(cur))
  BY TurnFacts DEF Nested
<1>2. /\ Len(machines') = n /\ machines'[n] = m
      /\ \A k \in 1..(n - 1) : machines'[k] = machines[k]
  <2>1. Len(machines) >= 1
    BY <1>1
  <2>. QED
    BY <1>1, <2>1, WithTopType, WithTopRest
<1>3. \A p : Open(p)' = Open(p) /\ IsSelect(p)' = IsSelect(p)
  BY <1>1, PlacesStay
<1>4. ASSUME NEW k \in 1..n
      PROVE  /\ IsSelect(s[k])' /\ s[k] <= cur'
             /\ \A p \in s[k]..(cur' - 1) : Open(p)' >= Open(s[k])'
             /\ k < n => machines'[k].level = Open(s[k + 1])' - Open(s[k])'
  <2>1. /\ IsSelect(s[k]) /\ s[k] <= cur
        /\ k < n => machines[k].level = Open(s[k + 1]) - Open(s[k])
    BY <1>1 DEF Nested
  <2>2. s[k] \in Nat /\ \A p \in s[k]..cur : Open(p) >= Open(s[k])
    BY TurnCovers
  <2>3. s[k] <= cur' /\ \A p \in s[k]..(cur' - 1) : p \in s[k]..cur
    BY <1>1, <2>1, <2>2
  <2>4. k < n => machines'[k] = machines[k]
    BY <1>1, <1>2
  <2>. QED
    BY <1>3, <2>1, <2>2, <2>3, <2>4
<1>5. Nested(s)'
  <2>1. \A k \in 1..n : \A j \in 1..(k - 1) :
          s[j] < s[k] /\ (Open(s[j])' < Open(s[k])' \/ (Open(s[j])' = 0 /\ Open(s[k])' = 0))
    BY <1>1, <1>3 DEF Nested
  <2>2. Open(s[1])' = 0
    BY <1>3 DEF Nested
  <2>. QED
    BY <1>1, <1>2, <1>4, <2>1, <2>2 DEF Nested
<1>6. Counts(s)'
  <2>1. Top' = m
    BY <1>1, <1>2 DEF Top, Depth
  <2>2. Open(cur - 1)' = Open(cur)
    <3>1. Open(cur - 1)' = Open(cur' - 1)
      BY <1>1, CurrentPlace
    <3>2. cur' = cur + 1 => cur' - 1 = cur
      BY <1>1
    <3>. QED
      BY <1>1, <3>1, <3>2
  <2>3. m.level >= 0 /\ m.level = Open(cur - 1)' - Open(s[n])'
    BY <1>1, <1>3, <2>2
  <2>. QED
    BY <1>2, <2>1, <2>3 DEF Counts
<1>. QED
  BY <1>5, <1>6

(* A parenthesis that ends a machine.                                       *)
LEMMA NestedClose ==
  ASSUME OrderIInv, WellFormed, CloseMachine, NEW s, Nested(s), Counts(s), Reads
  PROVE  Nested(s)' /\ Counts(s)'
<1>. DEFINE n == Len(s)
<1>. DEFINE m == [Top EXCEPT !.level = LevelBehind]
<1>1. /\ Turn /\ LevelBehind < 0 /\ machines' = WithTop(m) /\ cur' = cur /\ read' = read
  BY DEF CloseMachine
<1>2. /\ n = Len(machines) /\ n \in Nat \ {0} /\ cur \in Nat \ {0} /\ tokens' = tokens
      /\ machines \in Seq(Machine) /\ s \in Seq(Nat) /\ Has(cur)
      /\ LevelBehind = Open(cur) - Open(s[n]) /\ Top.level >= 0 /\ Top.level \in Int
      /\ Open(cur) \in Int /\ Open(s[n]) \in Int
  BY <1>1, TurnFacts DEF Nested, Machine
<1>3. m \in Machine /\ m.level = LevelBehind
  BY <1>2, LevelType DEF OrderIInv
<1>. HIDE DEF m
<1>4. /\ Len(machines') = n /\ machines'[n] = m
      /\ \A k \in 1..(n - 1) : machines'[k] = machines[k]
  <2>1. Len(machines) >= 1
    BY <1>2
  <2>2. /\ Len(WithTop(m)) = n /\ WithTop(m)[n] = m
        /\ \A k \in 1..(n - 1) : WithTop(m)[k] = machines[k]
    BY <1>2, <1>3, <2>1, WithTopType, WithTopRest
  <2>. QED
    BY <1>1, <2>2
<1>5. \A p : Open(p)' = Open(p) /\ IsSelect(p)' = IsSelect(p)
  BY <1>2, PlacesStay
<1>6. Nested(s)'
  <2>1. ASSUME NEW k \in 1..n
        PROVE  /\ IsSelect(s[k])' /\ s[k] <= cur'
               /\ \A p \in s[k]..(cur' - 1) : Open(p)' >= Open(s[k])'
               /\ k < n => machines'[k].level = Open(s[k + 1])' - Open(s[k])'
    <3>1. /\ IsSelect(s[k]) /\ s[k] <= cur
          /\ \A p \in s[k]..(cur - 1) : Open(p) >= Open(s[k])
          /\ k < n => machines[k].level = Open(s[k + 1]) - Open(s[k])
      BY <1>2 DEF Nested
    <3>2. k < n => machines'[k] = machines[k]
      <4>1. k < n => k \in 1..(n - 1)
        BY <1>2
      <4>. QED
        BY <1>4, <4>1
    <3>. QED
      BY <1>1, <1>5, <3>1, <3>2
  <2>2. \A k \in 1..n : \A j \in 1..(k - 1) :
          s[j] < s[k] /\ (Open(s[j])' < Open(s[k])' \/ (Open(s[j])' = 0 /\ Open(s[k])' = 0))
    BY <1>2, <1>5 DEF Nested
  <2>3. Open(s[1])' = 0
    BY <1>5 DEF Nested
  <2>. QED
    BY <1>2, <1>4, <2>1, <2>2, <2>3 DEF Nested
<1>7. tokens[cur].type = ")" /\ ~read /\ LevelBehind = -1
  BY <1>1, <1>2 DEF LevelBehind
<1>8. Counts(s)'
  <2>1. tokens[cur].raw # NoText
    BY <1>2, <1>7, TokenFacts DEF OrderIInv
  <2>2. Kept(cur)'
    <3>1. \A p \in Nat : p = cur => Kept(p)'
      BY <1>1, <2>1, TurnKept
    <3>2. \E i \in 1..Len(out') : out'[i].pos = cur
      BY <1>2, <3>1 DEF Kept
    <3>. QED
      BY <1>1, <3>2 DEF Kept
  <2>3. Open(cur)' = Open(cur)
    <3>1. Open(cur)' = Open(cur')
      BY <1>2, CurrentPlace
    <3>. QED
      BY <1>1, <3>1
  <2>4. Top' = m
    BY <1>2, <1>4 DEF Top, Depth
  <2>5. tokens'[cur'].type = ")" /\ Open(cur)' = Open(s[n])' - 1
    BY <1>1, <1>2, <1>5, <1>7, <2>3
  <2>. QED
    BY <1>1, <1>3, <1>4, <1>7, <2>2, <2>4, <2>5 DEF Counts
<1>. QED
  BY <1>6, <1>8

(* A SELECT in parentheses is deeper than the one of its machine.           *)
LEMMA SubqueryIsDeeper ==
  ASSUME OrderIInv, WellFormed, EnterSubquery, NEW s, Nested(s), Counts(s), Reads
  PROVE  \/ Open(s[Len(s)]) < Open(cur + 1)
         \/ Open(s[Len(s)]) = 0 /\ Open(cur + 1) = 0
<1>. DEFINE d == s[Len(s)]
<1>. DEFINE f == cur + 1
<1>1. /\ Turn /\ LevelBehind >= 0 /\ IsSelect(Following(cur))
  BY DEF EnterSubquery
<1>2. /\ Following(cur) = f /\ Has(f) /\ Open(f) = Open(cur)
  BY <1>1, ReadFacts
<1>3. Len(s) = Len(machines)
  BY DEF Nested
<1>4. /\ cur \in Nat \ {0} /\ d \in Nat \ {0} /\ d <= cur
      /\ Open(cur) \in Int /\ Open(d) \in Int /\ LevelBehind = Open(cur) - Open(d)
      /\ Len(s) \in Nat \ {0}
  BY <1>1, <1>3, TurnFacts
<1>5. Open(f) >= 0 /\ Open(d) >= 0
  BY <1>2, <1>3, <1>4 DEF WellFormed, Parenthesised, Places, Has
<1>6. CASE Open(f) = 0
  BY <1>1, <1>2, <1>4, <1>5, <1>6
<1>7. CASE Open(f) > 0
  <2>1. PICK b \in Places : StandsBehind(b, f) /\ tokens[b].type = "("
    <3>1. IsSelect(f) /\ f \in Places /\ f > 1
      BY <1>1, <1>2, <1>4 DEF Has, Places
    <3>. QED
      BY <1>7, <3>1 DEF WellFormed, SubqueriesAlone
  <2>2. b \in Nat \ {0} /\ b <= cur /\ \A i \in (b + 1)..cur : tokens[i].type = Blank
    BY <1>4, <2>1 DEF StandsBehind, Places
  <2>3. Open(cur) = Open(b)
    BY <1>4, <2>2, OpenOverSpaces
  <2>4. Open(b) = Open(b - 1) + 1 /\ Open(b - 1) \in Int
    BY <2>1, <2>2, OpenStep
  <2>5. IsSelect(d) /\ Has(d)
    <3>1. IsSelect(d)
      BY <1>4 DEF Nested
    <3>. QED
      BY <3>1 DEF IsSelect
  <2>6. tokens[d].type # "(" /\ tokens[d].type # Blank
    BY <2>5, TokenFacts DEF OrderIInv, Separators
  <2>7. d <= b - 1
    <3>1. d # b
      BY <2>1, <2>6
    <3>2. ~(d > b)
      <4>1. d > b => d \in (b + 1)..cur
        BY <1>4, <2>2
      <4>. QED
        BY <2>2, <2>6, <4>1
    <3>. QED
      BY <1>4, <2>2, <3>1, <3>2
  <2>8. Open(b - 1) >= Open(d)
    <3>1. b - 1 \in d..(cur - 1)
      BY <1>4, <2>2, <2>7
    <3>. QED
      BY <1>4, <3>1 DEF Nested
  <2>. QED
    BY <1>2, <1>4, <2>3, <2>4, <2>8
<1>. QED
  BY <1>2, <1>4, <1>5, <1>6, <1>7

(* A SELECT that begins a machine.                                          *)
LEMMA NestedEnter ==
  ASSUME OrderIInv, WellFormed, EnterSubquery, NEW s, Nested(s), Counts(s), Reads,
         NEW f, f = cur + 1, NEW t, t = Append(s, f)
  PROVE  Nested(t)' /\ Counts(t)'
<1>. DEFINE n == Len(s)
<1>. DEFINE m == [Top EXCEPT !.level = LevelBehind]
<1>1. /\ Turn /\ LevelBehind >= 0 /\ IsSelect(Following(cur))
      /\ cur' = Following(cur) /\ read' = TRUE
      /\ machines' = Append(WithTop(m), NewMachine(Following(cur)))
  BY DEF EnterSubquery
<1>2. Following(cur) = f /\ Has(f) /\ Open(f) = Open(cur) /\ IsSelect(f) /\ cur' = f
  BY <1>1, ReadFacts
<1>3. n = Len(machines) /\ s \in Seq(Nat)
  BY DEF Nested
<1>4. /\ cur \in Nat \ {0} /\ n \in Nat \ {0} /\ machines \in Seq(Machine) /\ tokens' = tokens
      /\ Open(cur) \in Int /\ Open(s[n]) \in Int /\ LevelBehind = Open(cur) - Open(s[n])
      /\ s[n] <= cur /\ s[n] \in Nat
  BY <1>1, <1>3, TurnFacts
<1>5. m \in Machine /\ m.level = LevelBehind
  BY <1>1, <1>3, <1>4, LevelType, TurnFacts DEF OrderIInv
<1>6. NewMachine(f) \in Machine /\ NewMachine(f).level = 0
  BY <1>4 DEF NewMachine, Machine, States
<1>. HIDE DEF m
<1>7. /\ WithTop(m) \in Seq(Machine) /\ Len(WithTop(m)) = n /\ WithTop(m)[n] = m
      /\ \A k \in 1..(n - 1) : WithTop(m)[k] = machines[k]
  <2>1. Len(machines) >= 1
    BY <1>3, <1>4
  <2>. QED
    BY <1>3, <1>4, <1>5, <2>1, WithTopType, WithTopRest
<1>8. /\ Len(machines') = n + 1 /\ machines'[n + 1] = NewMachine(f)
      /\ \A k \in 1..n : machines'[k] = WithTop(m)[k]
  BY <1>1, <1>2, <1>6, <1>7, AppendProperties
<1>9. t \in Seq(Nat) /\ Len(t) = n + 1 /\ t[n + 1] = f /\ \A k \in 1..n : t[k] = s[k]
  BY <1>3, <1>4, AppendProperties
<1>10. \A p : Open(p)' = Open(p) /\ IsSelect(p)' = IsSelect(p)
  BY <1>4, PlacesStay
<1>11. ASSUME NEW k \in 1..(n + 1)
       PROVE  /\ IsSelect(t[k])' /\ t[k] <= cur'
              /\ \A p \in t[k]..(cur' - 1) : Open(p)' >= Open(t[k])'
              /\ k < n + 1 => machines'[k].level = Open(t[k + 1])' - Open(t[k])'
  <2>1. CASE k = n + 1
    <3>1. t[k] = f /\ ~(k < n + 1) /\ f <= cur' /\ f..(cur' - 1) = {}
      BY <1>2, <1>4, <1>9, <2>1
    <3>. QED
      BY <1>2, <1>10, <3>1
  <2>2. CASE k # n + 1
    <3>1. k \in 1..n /\ t[k] = s[k]
      BY <1>4, <1>9, <2>2
    <3>2. /\ IsSelect(s[k]) /\ s[k] <= cur
          /\ k < n => machines[k].level = Open(s[k + 1]) - Open(s[k])
      BY <1>3, <3>1 DEF Nested
    <3>3. s[k] \in Nat /\ \A p \in s[k]..cur : Open(p) >= Open(s[k])
      BY <1>1, <3>1, TurnCovers
    <3>4. t[k] <= cur' /\ cur' - 1 = cur
      BY <1>2, <1>4, <3>1, <3>2, <3>3
    <3>5. machines'[k].level = Open(t[k + 1])' - Open(t[k])'
      <4>1. CASE k = n
        <5>1. machines'[k] = m /\ t[k + 1] = f
          BY <1>4, <1>7, <1>8, <1>9, <3>1, <4>1
        <5>. QED
          BY <1>2, <1>4, <1>5, <1>10, <3>1, <4>1, <5>1
      <4>2. CASE k # n
        <5>1. k \in 1..(n - 1) /\ k + 1 \in 1..n
          BY <1>4, <3>1, <4>2
        <5>2. machines'[k] = machines[k] /\ t[k + 1] = s[k + 1]
          BY <1>7, <1>8, <1>9, <3>1, <5>1
        <5>. QED
          BY <1>4, <1>10, <3>1, <3>2, <5>1, <5>2
      <4>. QED
        BY <4>1, <4>2
    <3>. QED
      BY <1>10, <3>1, <3>2, <3>3, <3>4, <3>5
  <2>. QED
    BY <2>1, <2>2
<1>12. ASSUME NEW k \in 1..(n + 1), NEW j \in 1..(k - 1)
       PROVE  t[j] < t[k] /\ (Open(t[j])' < Open(t[k])' \/ (Open(t[j])' = 0 /\ Open(t[k])' = 0))
  <2>1. j \in 1..n /\ t[j] = s[j]
    BY <1>4, <1>9
  <2>2. CASE k = n + 1
    <3>1. /\ s[j] \in Nat \ {0} /\ s[j] <= s[n] /\ Open(s[j]) <= Open(s[n]) /\ Open(s[j]) \in Int
      BY <1>1, <2>1, TurnCovers
    <3>2. t[k] = f /\ t[j] < t[k]
      BY <1>4, <1>9, <2>1, <2>2, <3>1
    <3>3. Open(s[j]) >= 0
      <4>1. s[j] \in Places
        BY <1>3, <2>1 DEF Nested, IsSelect, Has, Places
      <4>. QED
        BY <4>1 DEF WellFormed, Parenthesised
    <3>4. Open(s[n]) < Open(f) \/ (Open(s[n]) = 0 /\ Open(f) = 0)
      BY SubqueryIsDeeper
    <3>5. Open(s[j]) < Open(f) \/ (Open(s[j]) = 0 /\ Open(f) = 0)
      BY <1>2, <1>4, <3>1, <3>3, <3>4
    <3>. QED
      BY <1>10, <2>1, <3>2, <3>5
  <2>3. CASE k # n + 1
    <3>1. k \in 1..n /\ t[k] = s[k]
      BY <1>4, <1>9, <2>3
    <3>. QED
      BY <1>3, <1>10, <2>1, <3>1 DEF Nested
  <2>. QED
    BY <2>2, <2>3
<1>13. Nested(t)'
  <2>1. 1 \in 1..n
    BY <1>4
  <2>2. Open(t[1])' = 0
    BY <1>9, <1>10, <2>1 DEF Nested
  <2>. QED
    BY <1>8, <1>9, <1>11, <1>12, <2>2 DEF Nested
<1>14. Counts(t)'
  <2>1. Top' = NewMachine(f)
    BY <1>8 DEF Top, Depth
  <2>2. Open(cur - 1)' = Open(f)
    <3>1. Open(cur - 1)' = Open(cur' - 1) /\ cur' - 1 = cur
      BY <1>2, <1>4, CurrentPlace
    <3>. QED
      BY <1>2, <3>1
  <2>3. Open(t[n + 1])' = Open(f) /\ Open(f) \in Int
    BY <1>2, <1>4, <1>9, <1>10
  <2>4. Top'.level = 0
    BY <1>6, <2>1
  <2>5. Open(cur - 1)' - Open(t[n + 1])' = 0
    BY <2>2, <2>3
  <2>6. Top'.level >= 0 /\ Top'.level = Open(cur - 1)' - Open(t[n + 1])'
    BY <2>4, <2>5
  <2>. QED
    BY <1>8, <2>6 DEF Counts
<1>. QED
  BY <1>13, <1>14

(* A machine that returns, at the parenthesis it has closed or at the end.  *)
LEMMA NestedReturn ==
  ASSUME OrderIInv, WellFormed, ReturnToOuter, NEW s, Nested(s), Counts(s),
         NEW t, t = SubSeq(s, 1, Len(s) - 1)
  PROVE  /\ Nested(t)' /\ Counts(t)'
         /\ Has(cur) => /\ cur' = cur + 1 /\ tokens[cur].type = ")" /\ Kept(cur)
                        /\ Open(cur) = Open(s[Len(s)]) - 1 /\ s[Len(s)] < cur
         /\ ~Has(cur) => cur' = cur
<1>. DEFINE n == Len(s)
<1>1. /\ phase = "running" /\ AtEnd /\ n > 1 /\ n = Len(machines) /\ n \in Nat
      /\ tokens' = tokens /\ cur' = Following(cur) /\ read' = FALSE /\ cur \in Nat \ {0}
      /\ machines \in Seq(Machine) /\ s \in Seq(Nat) /\ TypeOK /\ Len(tokens) \in Nat
  BY DEF ReturnToOuter, Nested, Depth, OrderIInv, TypeOK
<1>2. /\ Len(machines') = n - 1
      /\ \A k \in 1..(n - 2) : machines'[k] = machines[k]
      /\ machines'[n - 1].level = machines[n - 1].level - 1
  <2>. DEFINE before == SubSeq(machines, 1, n - 1)
  <2>. DEFINE m == [machines[n - 1] EXCEPT !.level = machines[n - 1].level - 1]
  <2>1. /\ before \in Seq(Machine) /\ Len(before) = n - 1
        /\ \A k \in 1..(n - 1) : before[k] = machines[k]
    BY <1>1, SubSeqProperties
  <2>2. machines' = [before EXCEPT ![n - 1] = m]
    BY <1>1 DEF ReturnToOuter, Depth
  <2>3. m.level = machines[n - 1].level - 1
    <3>1. machines[n - 1] \in Machine
      BY <1>1
    <3>. QED
      BY <3>1 DEF Machine
  <2>. HIDE DEF before, m
  <2>. QED
    BY <1>1, <2>1, <2>2, <2>3
<1>3. t \in Seq(Nat) /\ Len(t) = n - 1 /\ \A k \in 1..(n - 1) : t[k] = s[k]
  BY <1>1, SubSeqProperties
<1>4. \A p : Open(p)' = Open(p) /\ IsSelect(p)' = IsSelect(p)
  BY <1>1, PlacesStay
<1>5. ASSUME Has(cur)
      PROVE  /\ Top.level < 0 /\ tokens[cur].type = ")" /\ Kept(cur)
             /\ Open(cur) = Open(s[n]) - 1 /\ cur' = cur + 1
  <2>1. Top.level < 0 /\ Top.level \in Int
    <3>1. Top \in Machine
      BY <1>1 DEF Top, Depth
    <3>. QED
      BY <1>1, <1>5, <3>1 DEF AtEnd, Machine
  <2>2. tokens[cur].type = ")" /\ Kept(cur) /\ Open(cur) = Open(s[n]) - 1
    BY <1>1, <1>5, <2>1 DEF Counts
  <2>3. tokens[cur].raw # NoText
    BY <1>1, <1>5, <2>2, TokenFacts
  <2>. QED
    BY <1>1, <1>5, <2>1, <2>2, <2>3, FollowingType
<1>6. ~Has(cur) => cur' = cur
  BY <1>1, FollowingType
<1>7. ASSUME NEW k \in 1..n
      PROVE  /\ s[k] \in Nat \ {0} /\ Has(s[k]) /\ IsSelect(s[k]) /\ s[k] <= cur
             /\ Open(s[k]) \in Int
  <2>1. IsSelect(s[k]) /\ s[k] <= cur
    BY <1>1 DEF Nested
  <2>2. s[k] \in Nat \ {0} /\ Has(s[k])
    BY <2>1 DEF IsSelect, Has
  <2>. QED
    BY <2>1, <2>2, OpenType
<1>8. ASSUME Has(cur), NEW k \in 1..(n - 1)
      PROVE  Open(s[k]) <= Open(cur)
  <2>1. Open(cur) >= 0 /\ Open(cur) \in Int
    BY <1>1, <1>8, OpenType DEF WellFormed, Parenthesised, Places, Has
  <2>2. Open(s[k]) < Open(s[n]) \/ (Open(s[k]) = 0 /\ Open(s[n]) = 0)
    <3>1. n \in 1..n
      BY <1>1
    <3>. QED
      BY <1>1, <3>1 DEF Nested
  <2>3. Open(s[k]) \in Int /\ Open(s[n]) \in Int
    <3>1. k \in 1..n /\ n \in 1..n
      BY <1>1
    <3>. QED
      BY <1>7, <3>1
  <2>4. Open(cur) = Open(s[n]) - 1
    BY <1>5, <1>8
  <2>. QED
    BY <2>1, <2>2, <2>3, <2>4
<1>9. ASSUME NEW k \in 1..(n - 1)
      PROVE  /\ IsSelect(t[k])' /\ t[k] <= cur'
             /\ \A p \in t[k]..(cur' - 1) : Open(p)' >= Open(t[k])'
             /\ k < n - 1 => machines'[k].level = Open(t[k + 1])' - Open(t[k])'
  <2>1. k \in 1..n /\ t[k] = s[k]
    BY <1>1, <1>3
  <2>2. /\ IsSelect(s[k]) /\ s[k] <= cur /\ s[k] \in Nat
        /\ \A p \in s[k]..(cur - 1) : Open(p) >= Open(s[k])
        /\ machines[k].level = Open(s[k + 1]) - Open(s[k])
    BY <1>1, <1>7, <2>1 DEF Nested
  <2>3. s[k] <= cur' /\ cur' \in {cur, cur + 1}
    BY <1>1, <1>5, <1>6, <2>2
  <2>4. ASSUME NEW p \in s[k]..(cur' - 1)
        PROVE  Open(p) >= Open(s[k])
    <3>1. CASE p \in s[k]..(cur - 1)
      BY <2>2, <3>1
    <3>2. CASE p \notin s[k]..(cur - 1)
      <4>1. p = cur /\ Has(cur)
        BY <1>1, <1>6, <2>2, <2>3, <3>2
      <4>2. Open(s[k]) <= Open(cur) /\ Open(cur) \in Int /\ Open(s[k]) \in Int
        BY <1>1, <1>7, <1>8, <2>1, <4>1, OpenType
      <4>. QED
        BY <4>1, <4>2
    <3>. QED
      BY <3>1, <3>2
  <2>5. k < n - 1 => machines'[k].level = Open(t[k + 1])' - Open(t[k])'
    <3>1. SUFFICES ASSUME k < n - 1
                   PROVE  machines'[k].level = Open(t[k + 1])' - Open(t[k])'
      OBVIOUS
    <3>2. k \in 1..(n - 2) /\ k + 1 \in 1..(n - 1)
      BY <1>1, <3>1
    <3>3. machines'[k] = machines[k] /\ t[k + 1] = s[k + 1]
      BY <1>2, <1>3, <3>2
    <3>. QED
      BY <1>4, <2>1, <2>2, <3>3
  <2>. QED
    BY <1>4, <2>1, <2>2, <2>3, <2>4, <2>5
<1>10. ASSUME NEW k \in 1..(n - 1), NEW j \in 1..(k - 1)
       PROVE  t[j] < t[k] /\ (Open(t[j])' < Open(t[k])' \/ (Open(t[j])' = 0 /\ Open(t[k])' = 0))
  <2>1. k \in 1..n /\ j \in 1..(n - 1)
    BY <1>1
  <2>2. t[k] = s[k] /\ t[j] = s[j]
    BY <1>3, <2>1
  <2>. QED
    BY <1>1, <1>4, <2>1, <2>2 DEF Nested
<1>11. Nested(t)'
  <2>1. 1 \in 1..(n - 1)
    BY <1>1
  <2>2. Open(t[1])' = 0
    BY <1>3, <1>4, <2>1 DEF Nested
  <2>. QED
    BY <1>2, <1>3, <1>9, <1>10, <2>2 DEF Nested
<1>12. Counts(t)'
  <2>1. SUFFICES ASSUME Has(cur)'
                 PROVE  Top'.level >= 0 /\ Top'.level = Open(cur - 1)' - Open(t[n - 1])'
    BY <1>2 DEF Counts
  <2>2. Has(cur)
    BY <1>1, <1>6, <2>1 DEF Has
  <2>3. cur' = cur + 1 /\ Open(cur) = Open(s[n]) - 1
    BY <1>5, <2>2
  <2>4. Open(cur - 1)' = Open(cur)
    <3>1. Open(cur - 1)' = Open(cur' - 1) /\ cur' - 1 = cur
      BY <1>1, <2>3, CurrentPlace
    <3>. QED
      BY <3>1
  <2>5. n - 1 \in 1..n /\ n - 1 \in 1..(n - 1) /\ n \in 1..n
    BY <1>1
  <2>6. Top'.level = machines[n - 1].level - 1
    BY <1>2 DEF Top, Depth
  <2>7. machines[n - 1].level = Open(s[n]) - Open(s[n - 1])
    <3>1. n - 1 < n /\ (n - 1) + 1 = n
      BY <1>1
    <3>2. machines[n - 1].level = Open(s[(n - 1) + 1]) - Open(s[n - 1])
      BY <1>1, <2>5, <3>1 DEF Nested
    <3>. QED
      BY <3>1, <3>2
  <2>8. Open(t[n - 1])' = Open(s[n - 1]) /\ Open(s[n - 1]) \in Int /\ Open(s[n]) \in Int
    BY <1>3, <1>4, <1>7, <2>5
  <2>9. Open(s[n - 1]) <= Open(cur) /\ Open(cur) \in Int
    BY <1>1, <1>8, <2>2, <2>5, OpenType
  <2>10. machines[n - 1].level - 1 = Open(cur) - Open(s[n - 1])
    BY <2>3, <2>7, <2>8, <2>9
  <2>11. Open(cur) - Open(s[n - 1]) >= 0
    BY <2>8, <2>9
  <2>. QED
    BY <2>4, <2>6, <2>8, <2>10, <2>11
<1>13. Has(cur) => s[n] < cur
  <2>1. SUFFICES ASSUME Has(cur) PROVE s[n] # cur
    BY <1>1, <1>7
  <2>2. n \in 1..n
    BY <1>1
  <2>3. IsSelect(s[n])
    BY <1>7, <2>2
  <2>4. ~IsSelect(cur)
    BY <1>1, <1>5, <2>1, TokenFacts DEF Separators
  <2>. QED
    BY <2>3, <2>4
<1>. QED
  BY <1>5, <1>6, <1>11, <1>12, <1>13

-----------------------------------------------------------------------------
(* What the successor of a machine knows and where it splits.               *)
LEMMA SuccessorFacts ==
  ASSUME NEW m \in Machine, NEW p \in Nat, TypeOK, Has(p)
  PROVE  /\ Successor(m, p).state # "Select" /\ Successor(m, p).at = p
         /\ m.allies \subseteq Successor(m, p).allies
         /\ Successor(m, p).fresh => tokens[p].word = Comma
         /\ m.allies \cap TableKeywords = {} => Successor(m, p).allies \cap TableKeywords = {}
         /\ m.state # "Select" /\ m.allies \cap TableKeywords = {}
              => (tokens[p].word \in TableKeywords => Successor(m, p).state = "Table")
         /\ m.state = "Table" /\ tokens[m.at].word \in TableKeywords
              => Successor(m, p).state = "Table"
         /\ m.state = "Column" /\ ~m.fresh /\ tokens[p].word = "AS"
              => Successor(m, p).state = "Column" /\ ~Successor(m, p).fresh
         /\ m.state = "Column" /\ ~m.fresh /\ tokens[p].column
              => Successor(m, p).state = "Allies" /\ tokens[p].raw \in Successor(m, p).allies
         /\ m.state # "Select" /\ tokens[p].column /\ tokens[p].word \in m.allies
              => Successor(m, p).state # "Column"
<1>. DEFINE t == tokens[p]
<1>. DEFINE n == Successor(m, p)
<1>. DEFINE kind == SuccessorKind(m, t)
<1>1. /\ n.state = kind /\ n.at = p /\ n.fresh = (m.state = "Column" /\ t.word = Comma)
      /\ n.allies = IF kind = "Allies" THEN m.allies \cup {t.raw} ELSE m.allies
  BY DEF Successor, Machine
<1>. HIDE DEF n
<1>2. /\ t.column => t.word \notin TableKeywords \cup {"SELECT", "AS", Comma}
      /\ t.raw \in TableKeywords => t.word = t.raw
  BY TokenFacts
<1>3. m.state \in States
  BY DEF Machine
<1>. DEFINE known == t.word \in m.allies
<1>. DEFINE table == t.word \in TableKeywords
<1>. DEFINE Other == IF t.column THEN "Column" ELSE "FunctionOrClause"
<1>4. /\ m.state = "Select" => kind = Other
      /\ m.state = "Column" =>
           kind = IF table THEN "Table"
                  ELSE IF t.word \in {"AS", Comma} THEN "Column"
                  ELSE IF t.column /\ (~m.fresh \/ known) THEN "Allies" ELSE Other
      /\ m.state = "Allies" =>
           kind = IF t.word = Comma \/ known THEN "Allies" ELSE IF table THEN "Table" ELSE Other
      /\ m.state = "FunctionOrClause" =>
           kind = IF t.word = Comma THEN "FunctionOrClause"
                  ELSE IF known THEN "Allies" ELSE IF table THEN "Table" ELSE Other
      /\ m.state = "Table" =>
           kind = IF t.word = "AS" \/ t.column \/ table \/ tokens[m.at].word \in TableKeywords
                  THEN "Table" ELSE "FunctionOrClause"
  BY DEF SuccessorKind
<1>5. /\ table => t.word # "AS" /\ t.word # Comma
      /\ t.word = "AS" => t.word # Comma
  BY BlankIsNoName DEF TableKeywords
<1>. HIDE DEF kind, t, table, known
<1>6. n.state # "Select" /\ m.allies \subseteq n.allies /\ (n.fresh => t.word = Comma)
  BY <1>1, <1>3, <1>4 DEF States
<1>7. ASSUME m.allies \cap TableKeywords = {}
      PROVE  n.allies \cap TableKeywords = {}
  <2>1. kind = "Allies" => t.column \/ t.word = Comma \/ known
    BY <1>3, <1>4 DEF States
  <2>2. t.column \/ t.word = Comma \/ known => ~table
    BY <1>2, <1>5, <1>7 DEF known, table
  <2>3. ~table => t.raw \notin TableKeywords
    BY <1>2 DEF table
  <2>. QED
    BY <1>1, <1>7, <2>1, <2>2, <2>3
<1>8. ASSUME m.state # "Select", m.allies \cap TableKeywords = {}, table
      PROVE  n.state = "Table"
  <2>1. ~known
    BY <1>8 DEF known, table
  <2>. QED
    BY <1>1, <1>3, <1>4, <1>5, <1>8, <2>1 DEF States
<1>9. m.state = "Table" /\ tokens[m.at].word \in TableKeywords => n.state = "Table"
  BY <1>1, <1>4
<1>10. m.state = "Column" /\ ~m.fresh /\ t.word = "AS" => n.state = "Column" /\ ~n.fresh
  BY <1>1, <1>4, <1>5
<1>11. ASSUME m.state = "Column", ~m.fresh, t.column
       PROVE  n.state = "Allies" /\ t.raw \in n.allies
  <2>1. ~table /\ t.word \notin {"AS", Comma}
    BY <1>2, <1>11 DEF table
  <2>. QED
    BY <1>1, <1>4, <1>11, <2>1
<1>12. ASSUME m.state # "Select", t.column, known
       PROVE  n.state # "Column"
  <2>1. ~table /\ t.word \notin {"AS", Comma}
    BY <1>2, <1>12 DEF table
  <2>. QED
    BY <1>1, <1>3, <1>4, <1>12, <2>1 DEF States
<1>. QED
  BY <1>1, <1>6, <1>7, <1>8, <1>9, <1>10, <1>11, <1>12 DEF n, t, table, known

(* What is split: what was, and the current token if its machine splits it. *)
LEMMA TurnSplits ==
  ASSUME OrderIInv, Turn
  PROVE  \A p \in Nat :
           /\ IsSplit(p)' <=> \/ IsSplit(p)
                              \/ p = cur /\ tokens[cur].raw # NoText /\ Splits(Top, cur)
           /\ IsSplit(p) => p < cur /\ p \in Places
<1>1. /\ TypeOK /\ Has(cur) /\ AppendCurrent /\ Len(out) \in Nat /\ Reading
      /\ out \in Seq([pos : Nat \ {0}, split : BOOLEAN])
  BY TurnReads DEF OrderIInv, Turn, TypeOK
<1>2. \A p \in Nat : IsSplit(p) => p < cur /\ p \in Places
  BY <1>1 DEF IsSplit, OrderIInv, NotYet, OutIsText, Places
<1>3. CASE tokens[cur].raw = NoText
  <2>1. out' = out
    BY <1>1, <1>3 DEF AppendCurrent
  <2>. QED
    BY <1>2, <1>3, <2>1 DEF IsSplit
<1>4. CASE tokens[cur].raw # NoText
  <2>. DEFINE x == [pos |-> cur, split |-> Splits(Top, cur)]
  <2>1. x.pos = cur /\ x.split = Splits(Top, cur) /\ out' = Append(out, x)
    BY <1>1, <1>4 DEF AppendCurrent
  <2>. HIDE DEF x
  <2>2. /\ Len(out') = Len(out) + 1 /\ out'[Len(out) + 1] = x
        /\ \A i \in 1..Len(out) : out'[i] = out[i]
    BY <1>1, <2>1
  <2>3. ASSUME NEW p \in Nat, IsSplit(p)'
        PROVE  IsSplit(p) \/ (p = cur /\ Splits(Top, cur))
    <3>1. PICK i \in 1..Len(out') : out'[i].pos = p /\ out'[i].split
      BY <2>3 DEF IsSplit
    <3>2. CASE i = Len(out) + 1
      BY <2>1, <2>2, <3>1, <3>2
    <3>3. CASE i # Len(out) + 1
      BY <1>1, <2>2, <3>1, <3>3 DEF IsSplit
    <3>. QED
      BY <3>2, <3>3
  <2>4. ASSUME NEW p \in Nat, IsSplit(p)
        PROVE  IsSplit(p)'
    <3>1. PICK i \in 1..Len(out) : out[i].pos = p /\ out[i].split
      BY <2>4 DEF IsSplit
    <3>2. i \in 1..Len(out') /\ out'[i] = out[i]
      BY <1>1, <2>2
    <3>. QED
      BY <3>1, <3>2 DEF IsSplit
  <2>5. ASSUME NEW p \in Nat, p = cur, Splits(Top, cur)
        PROVE  IsSplit(p)'
    <3>1. Len(out) + 1 \in 1..Len(out')
      BY <1>1, <2>2
    <3>. QED
      BY <2>1, <2>2, <2>5, <3>1 DEF IsSplit
  <2>. QED
    BY <1>2, <1>4, <2>3, <2>4, <2>5
<1>. QED
  BY <1>3, <1>4

-----------------------------------------------------------------------------
(* What the machines know of the names they have read.                      *)
AliasOfSplit(q) == \E c \in Places : IsSplit(c) /\ DeclaresAlias(c, q)

Knows(m, q) == m.state # "Select" /\ (AliasOfSplit(q) => tokens[q].raw \in m.allies)

(* What was read in the same SELECT is known to its machine.                *)
Remembers(s) ==
  LET n == Len(machines) IN
  Has(cur) => \A q \in 1..cur : IsRead(q) =>
    \/ \E k \in 1..n : Open(s[k]) <= Open(q) /\ (k < n => q < s[k + 1]) /\ Knows(machines[k], q)
    \/ \E c \in (q + 1)..(cur - 1) : Open(c) < Open(q)

MachinesSound ==
  \A k \in 1..Len(machines) :
    /\ machines[k].allies \cap TableKeywords = {}
    /\ machines[k].fresh => tokens[machines[k].at].word = Comma

LastRead == IF read THEN cur ELSE cur - 1

(* Behind FROM or JOIN the innermost machine knows where it is, and behind  *)
(* a column that it has split.                                              *)
TablesKnown ==
  Has(cur) => \A b \in 1..LastRead :
    AnnouncesTable(b) /\ (\A i \in (b + 1)..LastRead : tokens[i].type = Blank)
      => Top.state = "Table" /\ Top.at = b

ColumnsKnown ==
  Has(cur) => \A c \in 1..(cur - 1) :
    IsSplit(c) /\ (\A i \in (c + 1)..LastRead : tokens[i].type = Blank \/ tokens[i].word = "AS")
      => Top.state = "Column" /\ ~Top.fresh

(* What should not be split: the name of a table and an alias of a column   *)
(* that was split, where it is declared and where it is used.               *)
Barred(x) ==
  \/ \E b \in Places : AnnouncesTable(b) /\ StandsBehind(b, x)
  \/ AliasOfSplit(x)
  \/ \E p \in Places : AliasOfSplit(p) /\ UsesAlias(p, x)

CurrentAllowed == \A x \in Places : x = cur /\ Splits(Top, x) => ~Barred(x)
SplitsAllowed  == \A x \in Places : IsSplit(x) => tokens[x].dotted /\ ~Barred(x)

Traced(s) == Nested(s) /\ Counts(s) /\ Remembers(s)
Informed  == MachinesSound /\ TablesKnown /\ ColumnsKnown /\ CurrentAllowed

WholeInv ==
  /\ phase = "running" => (\E s : Traced(s)) /\ Reads /\ AllKept /\ Informed
  /\ phase = "done" => \A p \in Places : Kept(p)
  /\ SplitsAllowed

WholeIInv == LostIInv /\ (WellFormed => WholeInv)

-----------------------------------------------------------------------------
(* Whether a place is an alias depends on what was split before it.         *)
LEMMA AliasesStay ==
  ASSUME tokens' = tokens, NEW q \in Nat, \A c \in Nat : c < q - 1 => (IsSplit(c)' <=> IsSplit(c))
  PROVE  /\ AliasOfSplit(q)' <=> AliasOfSplit(q)
         /\ Barred(q)' <=> Barred(q)
<1>1. Places' = Places /\ \A p \in Places : p \in Nat
  BY DEF Places
<1>2. \A c, p : /\ DeclaresAlias(c, p)' = DeclaresAlias(c, p)
                /\ StandsBehind(c, p)' = StandsBehind(c, p)
  BY PlacesStay
<1>3. ASSUME NEW p \in Nat, p <= q, NEW c \in Places, DeclaresAlias(c, p)
      PROVE  c \in Nat /\ c < q - 1
  <2>1. PICK a \in Places : StandsBehind(a, p) /\ StandsBehind(c, a)
    BY <1>3 DEF DeclaresAlias
  <2>2. a \in Nat /\ c \in Nat /\ a < p /\ c < a
    BY <1>1, <1>3, <2>1 DEF StandsBehind
  <2>. QED
    BY <1>3, <2>2
<1>4. ASSUME NEW p \in Nat, p <= q
      PROVE  AliasOfSplit(p)' <=> AliasOfSplit(p)
  <2>1. \A c \in Places : DeclaresAlias(c, p) => (IsSplit(c)' <=> IsSplit(c))
    BY <1>3, <1>4
  <2>. QED
    BY <1>1, <1>2, <2>1 DEF AliasOfSplit
<1>5. \A b : AnnouncesTable(b)' <=> AnnouncesTable(b)
  BY WellFormedStays
<1>6. \A p : UsesAlias(p, q)' <=> UsesAlias(p, q)
  BY WellFormedStays
<1>7. \A p \in Places : UsesAlias(p, q) => p <= q
  BY <1>1 DEF UsesAlias
<1>8. AliasOfSplit(q)' <=> AliasOfSplit(q)
  BY <1>4
<1>9. (\E p \in Places : AliasOfSplit(p) /\ UsesAlias(p, q))'
        <=> \E p \in Places : AliasOfSplit(p) /\ UsesAlias(p, q)
  <2>1. \A p \in Places : UsesAlias(p, q) => (AliasOfSplit(p)' <=> AliasOfSplit(p))
    BY <1>1, <1>4, <1>7
  <2>. QED
    BY <1>1, <1>6, <2>1
<1>10. (\E b \in Places : AnnouncesTable(b) /\ StandsBehind(b, q))'
         <=> \E b \in Places : AnnouncesTable(b) /\ StandsBehind(b, q)
  BY <1>1, <1>2, <1>5
<1>. QED
  BY <1>8, <1>9, <1>10 DEF Barred

(* An alias is read.                                                        *)
LEMMA AliasIsRead ==
  ASSUME TypeOK, NEW c, NEW p, p \in Nat, DeclaresAlias(c, p)
  PROVE  IsRead(p)
<1>1. /\ Has(p) /\ tokens[p].type = "IDENT" /\ tokens[p].column
  BY DEF DeclaresAlias, IsType
<1>2. ChangesState(p)
  BY <1>1 DEF ChangesState, IsType
<1>3. ~IsSelect(p)
  BY <1>1, TokenFacts DEF IsSelect
<1>4. PICK a \in Places : StandsBehind(a, p) /\ tokens[a].word = "AS"
  BY DEF DeclaresAlias
<1>5. ~ClosesSubquery(p - 1)
  <2>1. SUFFICES ASSUME Has(p - 1), tokens[p - 1].type = ")" PROVE FALSE
    BY DEF ClosesSubquery, IsType
  <2>2. a \in Nat /\ a <= p - 1 /\ \A i \in (a + 1)..(p - 1) : tokens[i].type = Blank
    BY <1>4 DEF StandsBehind, Places
  <2>3. CASE a = p - 1
    BY <1>4, <2>1, <2>3, TokenFacts DEF Separators
  <2>4. CASE a # p - 1
    <3>1. p - 1 \in (a + 1)..(p - 1)
      BY <2>2, <2>4
    <3>. QED
      BY <2>1, <2>2, <3>1, BlankIsNoName
  <2>. QED
    BY <2>3, <2>4
<1>. QED
  BY <1>2, <1>3, <1>5 DEF IsRead

(* What the current SELECT has read before is known to the machine that     *)
(* reads the next name.                                                     *)
LEMMA SameMachine ==
  ASSUME OrderIInv, WellFormed, Turn, NEW s, Nested(s), Counts(s), Reads, Remembers(s),
         LevelBehind >= 0, ChangesState(Following(cur)),
         NEW q \in 1..cur, IsRead(q), NEW r, r \in Places, Owns(r, q), Owns(r, cur + 1)
  PROVE  Knows(Top, q)
<1>. DEFINE n == Len(machines)
<1>. DEFINE f == cur + 1
<1>1. Has(f) /\ Open(f) = Open(cur) /\ Following(cur) = f
  BY ReadFacts
<1>2. /\ Has(cur) /\ cur \in Nat \ {0} /\ n \in Nat \ {0} /\ Open(cur) \in Int /\ n = Len(s)
  BY TurnFacts DEF Nested
<1>3. /\ r \in Nat /\ q \in Nat /\ r < q /\ q <= cur /\ Open(r) = Open(q) /\ Open(r) = Open(f)
      /\ \A i \in r..f : Open(i) >= Open(r)
      /\ \A i \in (r + 1)..(f - 1) : IsSelect(i) => Open(i) # Open(r)
      /\ Open(r) \in Int /\ Open(q) \in Int
  BY <1>2, OpenType DEF Owns, Places
<1>4. ASSUME NEW c \in (q + 1)..(cur - 1)
      PROVE  ~(Open(c) < Open(q))
  <2>1. c \in r..f /\ c \in Nat
    BY <1>2, <1>3
  <2>. QED
    BY <1>3, <2>1, OpenType
<1>5. PICK k \in 1..n : /\ Open(s[k]) <= Open(q) /\ (k < n => q < s[k + 1])
                        /\ Knows(machines[k], q)
  BY <1>2, <1>4 DEF Remembers
<1>6. k = n
  <2>1. SUFFICES ASSUME k < n PROVE FALSE
    BY <1>2
  <2>. DEFINE d == s[k + 1]
  <2>2. k + 1 \in 1..Len(s)
    BY <1>2, <2>1
  <2>3. /\ d \in Nat /\ Open(d) \in Int /\ Open(d) <= Open(s[n]) /\ d <= cur /\ IsSelect(d)
    BY <1>2, <2>2, TurnCovers DEF Nested
  <2>4. Open(s[n]) <= Open(cur)
    <3>1. Open(s[n]) \in Int /\ LevelBehind = Open(cur) - Open(s[n])
      BY TurnFacts
    <3>. QED
      BY <1>2, <3>1
  <2>5. q < d
    BY <1>5, <2>1
  <2>. HIDE DEF d
  <2>6. d \in (r + 1)..(f - 1) /\ d \in r..f
    BY <1>2, <1>3, <2>3, <2>5
  <2>7. Open(d) # Open(r) /\ Open(d) >= Open(r)
    BY <1>3, <2>3, <2>6
  <2>8. Open(s[n]) \in Int
    BY TurnFacts
  <2>. QED
    BY <1>1, <1>2, <1>3, <2>3, <2>4, <2>7, <2>8
<1>. QED
  BY <1>5, <1>6 DEF Top, Depth

-----------------------------------------------------------------------------
(* A turn of a machine, of whatever kind: what it appends it keeps and may  *)
(* split, and what its machine knows holds up to the current token.         *)
LEMMA TurnKeepsAll ==
  ASSUME OrderIInv, WellFormed, WholeInv, Turn, cur' = cur \/ cur' = Following(cur)
  PROVE  /\ AllKept' /\ SplitsAllowed'
         /\ \A c \in Nat : c < cur => (IsSplit(c)' <=> IsSplit(c))
<1>1. PICK s : Traced(s) /\ Reads /\ AllKept /\ Informed
  BY DEF WholeInv, Turn
<1>2. Nested(s) /\ Counts(s)
  BY <1>1 DEF Traced
<1>3. /\ tokens' = tokens /\ cur \in Nat \ {0} /\ Has(cur)
      /\ cur' = cur \/ (cur' = cur + 1 /\ tokens[cur].raw # NoText)
  BY <1>1, <1>2, TurnFacts
<1>4. AllKept'
  <2>1. \A p \in Nat : Kept(p)' <=> Kept(p) \/ (p = cur /\ tokens[cur].raw # NoText)
    BY TurnKept
  <2>2. \A p \in 1..(cur - 1) : Kept(p)
    BY <1>1 DEF AllKept
  <2>3. \A p \in 1..(cur' - 1) :
          p \in Nat /\ (p \in 1..(cur - 1) \/ (p = cur /\ tokens[cur].raw # NoText))
    BY <1>3
  <2>4. \A p \in 1..(cur' - 1) : Kept(p)'
    BY <2>1, <2>2, <2>3
  <2>. QED
    BY <2>4 DEF AllKept, Kept
<1>5. \A c \in Nat : /\ IsSplit(c)' <=> \/ IsSplit(c)
                                        \/ c = cur /\ tokens[cur].raw # NoText /\ Splits(Top, cur)
                     /\ IsSplit(c) => c < cur
  BY TurnSplits
<1>6. \A c \in Nat : c < cur => (IsSplit(c)' <=> IsSplit(c))
  BY <1>3, <1>5
<1>7. SplitsAllowed'
  <2>1. SUFFICES ASSUME NEW x \in Places, IsSplit(x)'
                 PROVE  tokens[x].dotted /\ ~Barred(x)'
    BY <1>3 DEF SplitsAllowed, Places
  <2>2. x \in Nat /\ x <= cur
    BY <1>3, <1>5, <2>1 DEF Places
  <2>3. tokens[x].dotted /\ ~Barred(x)
    <3>1. CASE IsSplit(x)
      BY <3>1 DEF WholeInv, SplitsAllowed
    <3>2. CASE ~IsSplit(x)
      <4>1. x = cur /\ Splits(Top, cur)
        BY <1>5, <2>1, <2>2, <3>2
      <4>2. tokens[cur].dotted
        BY <4>1 DEF Splits
      <4>3. x \in Places /\ Splits(Top, x)
        BY <2>1, <4>1
      <4>. QED
        BY <1>1, <4>1, <4>2, <4>3 DEF Informed, CurrentAllowed
    <3>. QED
      BY <3>1, <3>2
  <2>4. Barred(x)' <=> Barred(x)
    <3>1. \A c \in Nat : c < x - 1 => (IsSplit(c)' <=> IsSplit(c))
      BY <1>3, <1>6, <2>2
    <3>. QED
      BY <1>3, <2>2, <3>1, AliasesStay
  <2>. QED
    BY <2>3, <2>4
<1>. QED
  BY <1>4, <1>6, <1>7

LEMMA ColumnsFollow ==
  ASSUME OrderIInv, Turn, Reads, Informed, NEW c \in 1..cur, IsSplit(c)',
         \A i \in (c + 1)..LastRead : tokens[i].type = Blank \/ tokens[i].word = "AS"
  PROVE  Top.state = "Column" /\ ~Top.fresh
<1>1. TypeOK /\ Has(cur) /\ cur \in Nat \ {0} /\ Len(machines) >= 1 /\ Len(machines) \in Nat
  BY TurnReads DEF OrderIInv, TypeOK
<1>2. /\ c \in Nat
      /\ IsSplit(c)' <=> \/ IsSplit(c)
                         \/ c = cur /\ tokens[cur].raw # NoText /\ Splits(Top, cur)
      /\ IsSplit(c) => c < cur
  BY <1>1, TurnSplits
<1>3. CASE IsSplit(c)
  <2>1. c \in 1..(cur - 1)
    BY <1>1, <1>2, <1>3
  <2>. QED
    BY <1>1, <1>3, <2>1 DEF Informed, ColumnsKnown
<1>4. CASE ~IsSplit(c)
  <2>1. c = cur /\ read /\ Top.state = "Column" /\ tokens[cur].dotted
    BY <1>2, <1>4 DEF Splits
  <2>2. tokens[cur].word # Comma
    BY <1>1, <2>1, TokenFacts
  <2>3. Top.at = cur
    BY <1>1, <2>1 DEF Reads
  <2>4. Top.fresh => tokens[Top.at].word = Comma
    <3>1. Len(machines) \in 1..Len(machines)
      BY <1>1
    <3>. QED
      BY <3>1 DEF Informed, MachinesSound, Top, Depth
  <2>. QED
    BY <2>1, <2>2, <2>3, <2>4
<1>. QED
  BY <1>3, <1>4

LEMMA TablesFollow ==
  ASSUME OrderIInv, Turn, Reads, Informed, NEW b \in 1..cur, AnnouncesTable(b),
         \A i \in (b + 1)..LastRead : tokens[i].type = Blank
  PROVE  Top.state = "Table" /\ Top.at = b
<1>1. Has(cur) /\ cur \in Nat \ {0}
  BY TurnReads DEF OrderIInv, TypeOK
<1>2. b \in 1..LastRead
  <2>1. CASE b = cur
    <3>1. IsRead(cur)
      BY <2>1 DEF AnnouncesTable
    <3>. QED
      BY <1>1, <2>1, <3>1 DEF Reads, LastRead
  <2>2. CASE b # cur
    BY <1>1, <2>2 DEF LastRead
  <2>. QED
    BY <2>1, <2>2
<1>. QED
  BY <1>1, <1>2 DEF Informed, TablesKnown

(* A split that would be barred does not happen to the token a turn reads.  *)
LEMMA NextAllowed ==
  ASSUME OrderIInv, WellFormed, Turn, NEW s, Traced(s), Reads, Informed,
         LevelBehind >= 0, ChangesState(Following(cur)),
         NEW m \in Machine, m = [Top EXCEPT !.level = LevelBehind],
         Successor(m, cur + 1).state = "Column", tokens[cur + 1].dotted, SplitsAllowed
  PROVE  ~Barred(cur + 1)
<1>. DEFINE f == cur + 1
<1>1. Nested(s) /\ Counts(s) /\ Remembers(s) /\ TypeOK
  BY DEF Traced, OrderIInv
<1>2. Has(f) /\ Following(cur) = f
  BY <1>1, ReadFacts
<1>3. cur \in Nat \ {0} /\ Has(cur) /\ Top \in Machine /\ f \in Nat
  BY <1>1, TurnFacts
<1>4. /\ m.state = Top.state /\ m.at = Top.at /\ m.fresh = Top.fresh /\ m.allies = Top.allies
  BY <1>3 DEF Machine
<1>5. tokens[f].column
  BY <1>1, <1>2, TokenFacts
<1>6. LastRead \in {cur, cur - 1}
  BY DEF LastRead
<1>7. /\ ~(m.state = "Table" /\ tokens[m.at].word \in TableKeywords)
      /\ ~(m.state = "Column" /\ ~m.fresh)
      /\ ~(m.state # "Select" /\ tokens[f].word \in m.allies)
  <2>1. /\ Successor(m, f).state = "Column"
        /\ m.state = "Table" /\ tokens[m.at].word \in TableKeywords
             => Successor(m, f).state = "Table"
        /\ m.state = "Column" /\ ~m.fresh /\ tokens[f].column => Successor(m, f).state = "Allies"
        /\ m.state # "Select" /\ tokens[f].column /\ tokens[f].word \in m.allies
             => Successor(m, f).state # "Column"
    BY <1>1, <1>2, <1>3, SuccessorFacts
  <2>. QED
    BY <1>5, <2>1
<1>8. ASSUME NEW b \in Places, AnnouncesTable(b), StandsBehind(b, f)
      PROVE  FALSE
  <2>1. b \in 1..cur /\ \A i \in (b + 1)..LastRead : tokens[i].type = Blank
    <3>1. b \in 1..cur /\ \A i \in (b + 1)..cur : tokens[i].type = Blank
      BY <1>3, <1>8 DEF StandsBehind
    <3>2. \A i \in (b + 1)..LastRead : i \in (b + 1)..cur
      BY <1>3, <1>6, <3>1
    <3>. QED
      BY <3>1, <3>2
  <2>2. Top.state = "Table" /\ Top.at = b
    BY <1>8, <2>1, TablesFollow
  <2>. QED
    BY <1>4, <1>7, <1>8, <2>2 DEF AnnouncesTable
<1>9. ASSUME AliasOfSplit(f)
      PROVE  FALSE
  <2>1. PICK c \in Places : IsSplit(c) /\ DeclaresAlias(c, f)
    BY <1>9 DEF AliasOfSplit
  <2>2. PICK a \in Places : StandsBehind(a, f) /\ StandsBehind(c, a) /\ tokens[a].word = "AS"
    BY <2>1 DEF DeclaresAlias
  <2>3. /\ a \in Nat /\ c \in Nat /\ 1 <= c /\ c < a /\ a <= cur
        /\ \A i \in (a + 1)..cur : tokens[i].type = Blank
        /\ \A i \in (c + 1)..(a - 1) : tokens[i].type = Blank
    BY <1>3, <2>2 DEF StandsBehind, Places
  <2>4. ASSUME NEW i \in (c + 1)..LastRead
        PROVE  tokens[i].type = Blank \/ tokens[i].word = "AS"
    <3>1. i = a \/ i \in (a + 1)..cur \/ i \in (c + 1)..(a - 1)
      BY <1>3, <1>6, <2>3
    <3>. QED
      BY <2>2, <2>3, <3>1
  <2>5. c \in 1..(cur - 1)
    BY <1>3, <2>3
  <2>6. Top.state = "Column" /\ ~Top.fresh
    BY <1>3, <2>1, <2>4, <2>5 DEF Informed, ColumnsKnown
  <2>. QED
    BY <1>4, <1>7, <2>6
<1>10. ASSUME NEW p \in Places, AliasOfSplit(p), UsesAlias(p, f)
       PROVE  FALSE
  <2>1. PICK c \in Places : DeclaresAlias(c, p)
    BY <1>10 DEF AliasOfSplit
  <2>2. p \in 1..cur /\ p \in Nat /\ tokens[f].word = tokens[p].raw
    BY <1>3, <1>10 DEF UsesAlias, Places
  <2>3. IsRead(p)
    BY <1>1, <2>1, <2>2, AliasIsRead
  <2>4. PICK r \in Places : Owns(r, p) /\ Owns(r, f)
    BY <1>10 DEF UsesAlias
  <2>5. Knows(Top, p)
    BY <1>1, <2>2, <2>3, <2>4, SameMachine
  <2>. QED
    BY <1>4, <1>7, <1>10, <2>2, <2>5 DEF Knows
<1>. QED
  BY <1>8, <1>9, <1>10 DEF Barred

-----------------------------------------------------------------------------
(* The machines but the innermost are as they were, and it is as sound.     *)
LEMMA SoundTurn ==
  ASSUME TypeOK, Len(machines) >= 1, tokens' = tokens, MachinesSound, NEW m \in Machine,
         machines' = WithTop(m), m.allies \cap TableKeywords = {},
         m.fresh => tokens[m.at].word = Comma
  PROVE  MachinesSound'
<1>1. machines \in Seq(Machine)
  BY DEF TypeOK
<1>4. Len(machines) \in Nat
  BY DEF TypeOK
<1>2. /\ Len(machines') = Len(machines) /\ machines'[Len(machines)] = m
      /\ \A k \in 1..(Len(machines) - 1) : machines'[k] = machines[k]
  BY <1>1, WithTopType, WithTopRest
<1>3. ASSUME NEW k \in 1..Len(machines)
      PROVE  /\ machines'[k].allies \cap TableKeywords = {}
             /\ machines'[k].fresh => tokens[machines'[k].at].word = Comma
  <2>1. CASE k = Len(machines)
    BY <1>2, <2>1
  <2>2. CASE k # Len(machines)
    <3>1. machines'[k] = machines[k]
      <4>1. k \in 1..(Len(machines) - 1)
        BY <1>4, <2>2
      <4>. QED
        BY <1>2, <4>1
    <3>. QED
      BY <3>1 DEF MachinesSound
  <2>. QED
    BY <2>1, <2>2
<1>. QED
  BY <1>2, <1>3 DEF MachinesSound

(* The machine of a turn, with the level behind the current token.          *)
LEMMA TurnMachine ==
  ASSUME OrderIInv, WellFormed, WholeInv, Turn,
         NEW m, m = [Top EXCEPT !.level = LevelBehind]
  PROVE  /\ m \in Machine /\ m.level = LevelBehind
         /\ m.state = Top.state /\ m.at = Top.at /\ m.fresh = Top.fresh /\ m.allies = Top.allies
         /\ m.allies \cap TableKeywords = {}
         /\ m.fresh => tokens[m.at].word = Comma
<1>1. Len(machines) \in Nat \ {0} /\ Top \in Machine /\ TypeOK /\ Has(cur) /\ Len(machines) >= 1
  BY TurnReads, LevelType DEF OrderIInv, TypeOK
<1>2. m \in Machine /\ m.level = LevelBehind
  BY <1>1, LevelType
<1>3. m.state = Top.state /\ m.at = Top.at /\ m.fresh = Top.fresh /\ m.allies = Top.allies
  BY <1>1 DEF Machine
<1>4. MachinesSound
  BY DEF WholeInv, Informed, Turn
<1>5. Len(machines) \in 1..Len(machines)
  BY <1>1
<1>6. /\ Top.allies \cap TableKeywords = {}
      /\ Top.fresh => tokens[Top.at].word = Comma
  BY <1>4, <1>5 DEF MachinesSound, Top, Depth
<1>. QED
  BY <1>2, <1>3, <1>6

(* What was remembered stays remembered over a turn, with the name it goes  *)
(* to if that is read.                                                      *)
LEMMA RemembersTurn ==
  ASSUME OrderIInv, WellFormed, WholeInv, Turn, NEW s, Traced(s), Reads, NEW f, cur' = f,
         f = cur \/ (f = Following(cur) /\ LevelBehind >= 0),
         NEW m \in Machine, machines' = WithTop(m),
         Top.state # "Select" => m.state # "Select", Top.allies \subseteq m.allies,
         f # cur /\ IsRead(f) => Knows(m, f)'
  PROVE  Remembers(s)'
<1>. DEFINE n == Len(machines)
<1>1. Nested(s) /\ Counts(s) /\ Remembers(s)
  BY DEF Traced
<1>2. /\ tokens' = tokens /\ cur \in Nat \ {0} /\ Has(cur) /\ n \in Nat \ {0}
      /\ machines \in Seq(Machine) /\ (f = cur \/ f = cur + 1) /\ n = Len(s)
  BY <1>1, TurnFacts DEF Nested
<1>3. /\ Len(machines') = n /\ machines'[n] = m
      /\ \A k \in 1..(n - 1) : machines'[k] = machines[k]
  <2>1. Len(machines) >= 1
    BY <1>2
  <2>2. /\ Len(WithTop(m)) = n /\ WithTop(m)[n] = m
        /\ \A k \in 1..(n - 1) : WithTop(m)[k] = machines[k]
    BY <1>2, <2>1, WithTopType, WithTopRest
  <2>. QED
    BY <2>2
<1>4. \A p : Open(p)' = Open(p) /\ IsRead(p)' = IsRead(p)
  BY <1>2, PlacesStay
<1>5. SUFFICES ASSUME NEW q \in 1..f, IsRead(q)
               PROVE  \/ \E k \in 1..n : /\ Open(s[k]) <= Open(q) /\ (k < n => q < s[k + 1])
                                          /\ Knows(machines[k], q)'
                      \/ \E c \in (q + 1)..(f - 1) : Open(c) < Open(q)
  BY <1>3, <1>4 DEF Remembers, Knows
<1>6. CASE q \in 1..cur
  <2>1. CASE \E c \in (q + 1)..(cur - 1) : Open(c) < Open(q)
    BY <1>2, <1>6, <2>1
  <2>2. CASE \E k \in 1..n : /\ Open(s[k]) <= Open(q) /\ (k < n => q < s[k + 1])
                             /\ Knows(machines[k], q)
    <3>1. PICK k \in 1..n : /\ Open(s[k]) <= Open(q) /\ (k < n => q < s[k + 1])
                            /\ Knows(machines[k], q)
      BY <2>2
    <3>2. \A c \in Nat : c < q - 1 => (IsSplit(c)' <=> IsSplit(c))
      <4>1. \A c \in Nat : c < cur => (IsSplit(c)' <=> IsSplit(c))
        <5>1. cur' = cur \/ cur' = Following(cur)
          OBVIOUS
        <5>. QED
          BY <5>1, TurnKeepsAll
      <4>. QED
        BY <1>2, <1>6, <4>1
    <3>3. Knows(machines[k], q)'
      <4>1. machines'[k].state # "Select" /\ machines[k].allies \subseteq machines'[k].allies
        <5>1. machines[k].state # "Select"
          BY <3>1 DEF Knows
        <5>2. CASE k = n
          BY <1>3, <5>1, <5>2 DEF Top, Depth
        <5>3. CASE k # n
          <6>1. k \in 1..(n - 1)
            BY <1>2, <5>3
          <6>. QED
            BY <1>3, <5>1, <6>1
        <5>. QED
          BY <5>2, <5>3
      <4>2. AliasOfSplit(q)' <=> AliasOfSplit(q)
        <5>1. q \in Nat
          BY <1>2, <1>6
        <5>. QED
          BY <1>2, <3>2, <5>1, AliasesStay
      <4>. QED
        BY <1>2, <3>1, <4>1, <4>2 DEF Knows
    <3>. QED
      BY <3>1, <3>3
  <2>3. \/ \E k \in 1..n : /\ Open(s[k]) <= Open(q) /\ (k < n => q < s[k + 1])
                            /\ Knows(machines[k], q)
        \/ \E c \in (q + 1)..(cur - 1) : Open(c) < Open(q)
    BY <1>1, <1>2, <1>5, <1>6 DEF Remembers
  <2>. QED
    BY <2>1, <2>2, <2>3
<1>7. CASE q \notin 1..cur
  <2>1. q = f /\ f = cur + 1 /\ f = Following(cur) /\ LevelBehind >= 0
    BY <1>2, <1>7
  <2>2. ChangesState(Following(cur))
    BY <1>5, <2>1 DEF IsRead
  <2>3. Open(f) = Open(cur)
    BY <1>1, <2>1, <2>2, ReadFacts
  <2>4. Open(s[n]) <= Open(f)
    <3>1. Open(cur) \in Int /\ Open(s[n]) \in Int /\ LevelBehind = Open(cur) - Open(s[n])
      BY <1>1, TurnFacts
    <3>. QED
      BY <2>1, <2>3, <3>1
  <2>5. Knows(m, f)'
    BY <1>2, <1>5, <2>1
  <2>6. PICK k \in 1..n : k = n
    BY <1>2
  <2>7. Knows(machines[k], q)'
    BY <1>3, <2>1, <2>5, <2>6 DEF Knows
  <2>8. Open(s[k]) <= Open(q) /\ ~(k < n)
    BY <1>2, <2>1, <2>4, <2>6
  <2>. QED
    BY <2>7, <2>8
<1>. QED
  BY <1>6, <1>7

(* A turn that reads nothing leaves its machine what it is, but for the     *)
(* level.                                                                   *)
LEMMA InformedUnread ==
  ASSUME OrderIInv, WellFormed, WholeInv, Turn,
         NEW m, m = [Top EXCEPT !.level = LevelBehind], machines' = WithTop(m),
         ~read', cur' - 1 \in {LastRead, cur}, cur' \in {cur, cur + 1}
  PROVE  Informed'
<1>1. Reads /\ Informed
  BY DEF WholeInv, Turn
<1>2. /\ tokens' = tokens /\ cur \in Nat \ {0} /\ Has(cur) /\ TypeOK
      /\ Len(machines) >= 1 /\ Len(machines) \in Nat /\ machines \in Seq(Machine)
  BY TurnReads DEF OrderIInv, Turn, TypeOK
<1>3. /\ m \in Machine /\ m.state = Top.state /\ m.at = Top.at /\ m.fresh = Top.fresh
      /\ m.allies \cap TableKeywords = {} /\ (m.fresh => tokens[m.at].word = Comma)
  BY TurnMachine
<1>4. Top' = m
  <2>1. Len(WithTop(m)) = Len(machines) /\ WithTop(m)[Len(machines)] = m
    BY <1>2, <1>3, WithTopType
  <2>. QED
    BY <2>1 DEF Top, Depth
<1>5. MachinesSound'
  BY <1>1, <1>2, <1>3, SoundTurn DEF Informed
<1>6. LastRead' = cur' - 1 /\ LastRead \in {cur, cur - 1}
  BY DEF LastRead
<1>7. \A c \in Nat : \A i \in (c + 1)..LastRead : i \in (c + 1)..LastRead'
  BY <1>2, <1>6
<1>8. TablesKnown'
  <2>1. SUFFICES ASSUME NEW b \in 1..LastRead', AnnouncesTable(b)',
                        \A i \in (b + 1)..LastRead' : tokens[i].type = Blank
                 PROVE  m.state = "Table" /\ m.at = b
    BY <1>2, <1>4 DEF TablesKnown
  <2>2. b \in 1..cur /\ b \in Nat
    BY <1>2, <1>6, <2>1
  <2>3. AnnouncesTable(b)
    BY <1>2, <2>1, WellFormedStays
  <2>4. \A i \in (b + 1)..LastRead : tokens[i].type = Blank
    BY <1>7, <2>1, <2>2
  <2>. QED
    BY <1>1, <1>3, <2>2, <2>3, <2>4, TablesFollow
<1>9. ColumnsKnown'
  <2>1. SUFFICES ASSUME NEW c \in 1..(cur' - 1), IsSplit(c)',
                        \A i \in (c + 1)..LastRead' :
                           tokens[i].type = Blank \/ tokens[i].word = "AS"
                 PROVE  m.state = "Column" /\ ~m.fresh
    BY <1>2, <1>4 DEF ColumnsKnown
  <2>2. c \in 1..cur /\ c \in Nat
    BY <1>2, <2>1
  <2>3. \A i \in (c + 1)..LastRead : tokens[i].type = Blank \/ tokens[i].word = "AS"
    BY <1>7, <2>1, <2>2
  <2>. QED
    BY <1>1, <1>3, <2>1, <2>2, <2>3, ColumnsFollow
<1>10. CurrentAllowed'
  BY DEF CurrentAllowed, Splits
<1>. QED
  BY <1>5, <1>8, <1>9, <1>10 DEF Informed

(* Passing a token.                                                         *)
LEMMA PassOverStep ==
  ASSUME OrderIInv, WellFormed, WholeInv, PassOver
  PROVE  WholeInv'
<1>. DEFINE m == [Top EXCEPT !.level = LevelBehind]
<1>1. /\ Turn /\ LevelBehind >= 0 /\ ~ChangesState(Following(cur)) /\ machines' = WithTop(m)
      /\ cur' = Following(cur) /\ read' = FALSE
  BY DEF PassOver
<1>2. /\ m \in Machine /\ m.level = LevelBehind /\ m.state = Top.state /\ m.allies = Top.allies
  BY <1>1, TurnMachine
<1>. HIDE DEF m
<1>3. Reads /\ \E s : Traced(s)
  BY <1>1 DEF WholeInv, Turn
<1>4. PICK s : Traced(s)
  BY <1>3
<1>5. Nested(s) /\ Counts(s)
  BY <1>4 DEF Traced
<1>6. /\ tokens' = tokens /\ phase' = "running" /\ cur \in Nat \ {0} /\ Has(cur)
      /\ \/ cur' = cur + 1
         \/ cur' = cur /\ ~IsSelect(cur) /\ ~ChangesState(cur)
  BY <1>1, <1>3, <1>5, TurnFacts DEF Turn
<1>7. AllKept' /\ SplitsAllowed'
  BY <1>1, TurnKeepsAll
<1>8. Nested(s)' /\ Counts(s)'
  BY <1>1, <1>2, <1>3, <1>5, NestedTurn
<1>9. Remembers(s)'
  <2>1. PICK f : f = cur'
    OBVIOUS
  <2>2. f = Following(cur) /\ ~IsRead(f)
    BY <1>1, <2>1 DEF IsRead
  <2>. QED
    BY <1>1, <1>2, <1>3, <1>4, <2>1, <2>2, RemembersTurn
<1>10. Reads'
  <2>1. ~ChangesState(cur)'
    BY <1>1, <1>6, CurrentPlace
  <2>. QED
    BY <1>1, <2>1 DEF Reads, IsRead
<1>11. Informed'
  <2>1. cur' = cur => ~read
    BY <1>3, <1>6 DEF Reads
  <2>2. cur' - 1 \in {LastRead, cur} /\ cur' \in {cur, cur + 1}
    BY <1>6, <2>1 DEF LastRead
  <2>3. ~read'
    BY <1>1
  <2>. QED
    BY <1>1, <2>2, <2>3, InformedUnread DEF m
<1>12. \E t : Traced(t)'
  BY <1>8, <1>9 DEF Traced
<1>. QED
  BY <1>6, <1>7, <1>10, <1>11, <1>12 DEF WholeInv

(* The parenthesis that ends a machine.                                     *)
LEMMA CloseMachineStep ==
  ASSUME OrderIInv, WellFormed, WholeInv, CloseMachine
  PROVE  WholeInv'
<1>. DEFINE m == [Top EXCEPT !.level = LevelBehind]
<1>1. /\ Turn /\ LevelBehind < 0 /\ machines' = WithTop(m) /\ cur' = cur /\ read' = read
  BY DEF CloseMachine
<1>2. /\ m \in Machine /\ m.level = LevelBehind /\ m.state = Top.state /\ m.allies = Top.allies
  BY <1>1, TurnMachine
<1>. HIDE DEF m
<1>3. Reads /\ \E s : Traced(s)
  BY <1>1 DEF WholeInv, Turn
<1>4. PICK s : Traced(s)
  BY <1>3
<1>5. Nested(s) /\ Counts(s)
  BY <1>4 DEF Traced
<1>6. /\ tokens' = tokens /\ phase' = "running" /\ cur \in Nat \ {0} /\ Has(cur)
      /\ Top.level >= 0 /\ Top.level \in Int
  BY <1>1, <1>3, <1>5, TurnFacts DEF Turn, Machine
<1>7. AllKept' /\ SplitsAllowed'
  BY <1>1, TurnKeepsAll
<1>8. Nested(s)' /\ Counts(s)'
  BY <1>3, <1>5, NestedClose
<1>9. Remembers(s)'
  <2>1. PICK f : f = cur'
    OBVIOUS
  <2>2. f = cur
    BY <1>1, <2>1
  <2>. QED
    BY <1>1, <1>2, <1>3, <1>4, <2>1, <2>2, RemembersTurn
<1>10. tokens[cur].type = ")" /\ ~read
  BY <1>1, <1>6 DEF LevelBehind
<1>11. Reads'
  <2>1. ~ChangesState(cur)
    BY <1>6, <1>10, TokenFacts DEF OrderIInv
  <2>2. ~ChangesState(cur)'
    BY <1>1, <1>6, <2>1, CurrentPlace
  <2>. QED
    BY <1>1, <1>10, <2>2 DEF Reads, IsRead
<1>12. Informed'
  <2>1. cur' - 1 \in {LastRead, cur} /\ cur' \in {cur, cur + 1} /\ ~read'
    BY <1>1, <1>6, <1>10 DEF LastRead
  <2>. QED
    BY <1>1, <2>1, InformedUnread DEF m
<1>13. \E t : Traced(t)'
  BY <1>8, <1>9 DEF Traced
<1>. QED
  BY <1>6, <1>7, <1>11, <1>12, <1>13 DEF WholeInv

(* A SELECT: the new machine has nothing to remember, the ones before it    *)
(* remember what they did.                                                  *)
LEMMA EnterSubqueryStep ==
  ASSUME OrderIInv, WellFormed, WholeInv, EnterSubquery
  PROVE  WholeInv'
<1>. DEFINE n == Len(machines)
<1>. DEFINE m == [Top EXCEPT !.level = LevelBehind]
<1>1. /\ Turn /\ LevelBehind >= 0 /\ IsSelect(Following(cur))
      /\ cur' = Following(cur) /\ read' = TRUE
      /\ machines' = Append(WithTop(m), NewMachine(Following(cur)))
  BY DEF EnterSubquery
<1>2. /\ m \in Machine /\ m.level = LevelBehind /\ m.state = Top.state /\ m.allies = Top.allies
      /\ m.allies \cap TableKeywords = {} /\ (m.fresh => tokens[m.at].word = Comma)
  BY <1>1, TurnMachine
<1>3. Reads /\ MachinesSound /\ \E s : Traced(s)
  BY <1>1 DEF WholeInv, Informed, Turn
<1>4. PICK s : Traced(s)
  BY <1>3
<1>5. Nested(s) /\ Counts(s) /\ Remembers(s)
  BY <1>4 DEF Traced
<1>6. PICK f : f = cur + 1
  OBVIOUS
<1>7. PICK t : t = Append(s, f)
  OBVIOUS
<1>8. /\ tokens' = tokens /\ phase' = "running" /\ cur \in Nat \ {0} /\ Has(cur) /\ TypeOK
      /\ Following(cur) = f /\ cur' = f /\ Has(f) /\ IsSelect(f) /\ f \in Nat
      /\ n \in Nat \ {0} /\ n = Len(s) /\ s \in Seq(Nat) /\ machines \in Seq(Machine)
  <2>1. TypeOK /\ n = Len(s) /\ s \in Seq(Nat)
    BY <1>5 DEF OrderIInv, Nested
  <2>2. /\ tokens' = tokens /\ phase' = "running" /\ cur \in Nat \ {0} /\ Has(cur)
        /\ n \in Nat \ {0} /\ machines \in Seq(Machine)
    BY <1>1, <1>3, <1>5, TurnFacts DEF Turn
  <2>3. Following(cur) = cur + 1 /\ Has(cur + 1)
    BY <1>1, <1>3, <1>5, ReadFacts
  <2>. QED
    BY <1>1, <1>6, <2>1, <2>2, <2>3
<1>9. ~IsRead(f) /\ tokens[f].type # Blank /\ tokens[f].word # "AS"
  <2>1. tokens[f].word = "SELECT"
    BY <1>8 DEF IsSelect
  <2>. QED
    BY <1>8, <2>1, TokenFacts DEF IsRead, Separators
<1>10. NewMachine(f) \in Machine /\ NewMachine(f).state = "Select" /\ NewMachine(f).at = f
       /\ NewMachine(f).fresh = FALSE /\ NewMachine(f).allies = {}
  BY <1>8 DEF NewMachine, Machine, States
<1>. HIDE DEF m
<1>11. /\ Len(machines') = n + 1 /\ machines'[n + 1] = NewMachine(f) /\ machines'[n] = m
       /\ \A k \in 1..(n - 1) : machines'[k] = machines[k]
  <2>1. Len(machines) >= 1
    BY <1>8
  <2>2. /\ WithTop(m) \in Seq(Machine) /\ Len(WithTop(m)) = n /\ WithTop(m)[n] = m
        /\ \A k \in 1..(n - 1) : WithTop(m)[k] = machines[k]
    BY <1>2, <1>8, <2>1, WithTopType, WithTopRest
  <2>3. /\ Len(machines') = n + 1 /\ machines'[n + 1] = NewMachine(f)
        /\ \A k \in 1..n : machines'[k] = WithTop(m)[k]
    BY <1>1, <1>8, <1>10, <2>2, AppendProperties
  <2>. QED
    BY <1>8, <2>2, <2>3
<1>12. /\ Len(t) = n + 1 /\ t[n + 1] = f /\ \A k \in 1..n : t[k] = s[k]
  BY <1>7, <1>8, AppendProperties
<1>13. /\ AllKept' /\ SplitsAllowed'
       /\ \A c \in Nat : c < cur => (IsSplit(c)' <=> IsSplit(c))
  BY <1>1, TurnKeepsAll
<1>14. Nested(t)' /\ Counts(t)'
  BY <1>3, <1>5, <1>6, <1>7, NestedEnter
<1>15. ASSUME NEW k \in 1..n
       PROVE  /\ machines'[k].state = machines[k].state
              /\ machines'[k].allies = machines[k].allies
              /\ machines'[k].allies \cap TableKeywords = {}
              /\ machines'[k].fresh => tokens[machines'[k].at].word = Comma
  <2>1. CASE k = n
    <3>1. machines'[k] = m /\ machines[k] = Top
      BY <1>11, <2>1 DEF Top, Depth
    <3>. QED
      BY <1>2, <3>1
  <2>2. CASE k # n
    <3>1. machines'[k] = machines[k]
      BY <1>8, <1>11, <2>2
    <3>. QED
      BY <1>3, <3>1 DEF MachinesSound
  <2>. QED
    BY <2>1, <2>2
<1>16. \A p : Open(p)' = Open(p) /\ IsRead(p)' = IsRead(p)
  BY <1>8, PlacesStay
<1>17. Remembers(t)'
  <2>1. SUFFICES ASSUME NEW q \in 1..f, IsRead(q)
                 PROVE  \/ \E k \in 1..(n + 1) : /\ Open(t[k]) <= Open(q)
                                                 /\ (k < n + 1 => q < t[k + 1])
                                                 /\ Knows(machines[k], q)'
                        \/ \E c \in (q + 1)..(f - 1) : Open(c) < Open(q)
    BY <1>8, <1>11, <1>16 DEF Remembers
  <2>2. q \in 1..cur /\ q \in Nat
    BY <1>6, <1>8, <1>9, <2>1
  <2>3. \/ \E k \in 1..n : /\ Open(s[k]) <= Open(q) /\ (k < n => q < s[k + 1])
                           /\ Knows(machines[k], q)
        \/ \E c \in (q + 1)..(cur - 1) : Open(c) < Open(q)
    BY <1>5, <1>8, <2>1, <2>2 DEF Remembers
  <2>4. CASE \E c \in (q + 1)..(cur - 1) : Open(c) < Open(q)
    BY <1>6, <1>8, <2>2, <2>4
  <2>5. ASSUME NEW k \in 1..n, Open(s[k]) <= Open(q), k < n => q < s[k + 1], Knows(machines[k], q)
        PROVE  /\ k \in 1..(n + 1) /\ Open(t[k]) <= Open(q) /\ (k < n + 1 => q < t[k + 1])
               /\ Knows(machines[k], q)'
    <3>1. AliasOfSplit(q)' <=> AliasOfSplit(q)
      <4>1. \A c \in Nat : c < q - 1 => (IsSplit(c)' <=> IsSplit(c))
        BY <1>8, <1>13, <2>2
      <4>. QED
        BY <1>8, <2>2, <4>1, AliasesStay
    <3>2. Knows(machines[k], q)'
      BY <1>8, <1>15, <2>5, <3>1 DEF Knows
    <3>3. q < t[k + 1]
      <4>1. CASE k = n
        BY <1>6, <1>8, <1>12, <2>2, <4>1
      <4>2. CASE k # n
        <5>1. k < n /\ k + 1 \in 1..n
          BY <1>8, <4>2
        <5>. QED
          BY <1>12, <2>5, <5>1
      <4>. QED
        BY <4>1, <4>2
    <3>4. k \in 1..(n + 1) /\ t[k] = s[k]
      BY <1>8, <1>12
    <3>. QED
      BY <2>5, <3>2, <3>3, <3>4
  <2>6. CASE \E k \in 1..n : /\ Open(s[k]) <= Open(q) /\ (k < n => q < s[k + 1])
                             /\ Knows(machines[k], q)
    <3>1. PICK k \in 1..n : /\ Open(s[k]) <= Open(q) /\ (k < n => q < s[k + 1])
                            /\ Knows(machines[k], q)
      BY <2>6
    <3>. QED
      BY <2>5, <3>1
  <2>. QED
    BY <2>3, <2>4, <2>6
<1>18. Top' = NewMachine(f)
  BY <1>8, <1>11 DEF Top, Depth
<1>19. Reads'
  <2>1. IsSelect(cur)'
    BY <1>8, CurrentPlace
  <2>2. Top'.at = cur'
    BY <1>8, <1>10, <1>18
  <2>. QED
    BY <1>1, <2>1, <2>2 DEF Reads
<1>20. Informed'
  <2>1. MachinesSound'
    <3>1. ASSUME NEW k \in 1..(n + 1)
          PROVE  /\ machines'[k].allies \cap TableKeywords = {}
                 /\ machines'[k].fresh => tokens[machines'[k].at].word = Comma
      <4>1. CASE k = n + 1
        BY <1>10, <1>11, <4>1
      <4>2. CASE k # n + 1
        <5>1. k \in 1..n
          BY <1>8, <4>2
        <5>. QED
          BY <1>15, <5>1
      <4>. QED
        BY <4>1, <4>2
    <3>. QED
      BY <1>8, <1>11, <3>1 DEF MachinesSound
  <2>2. LastRead' = f
    BY <1>1, <1>8 DEF LastRead
  <2>3. TablesKnown'
    <3>1. SUFFICES ASSUME NEW b \in 1..f, AnnouncesTable(b)',
                          \A i \in (b + 1)..f : tokens[i].type = Blank
                   PROVE  FALSE
      BY <1>8, <2>2 DEF TablesKnown
    <3>2. IsRead(b)
      BY <1>8, <3>1, WellFormedStays DEF AnnouncesTable
    <3>3. f \in (b + 1)..f
      BY <1>8, <1>9, <3>2
    <3>. QED
      BY <1>9, <3>1, <3>3
  <2>4. ColumnsKnown'
    <3>1. SUFFICES ASSUME NEW c \in 1..(f - 1),
                          \A i \in (c + 1)..f : tokens[i].type = Blank \/ tokens[i].word = "AS"
                   PROVE  FALSE
      BY <1>8, <2>2 DEF ColumnsKnown
    <3>2. f \in (c + 1)..f
      BY <1>8
    <3>. QED
      BY <1>9, <3>1, <3>2
  <2>5. CurrentAllowed'
    BY <1>10, <1>18 DEF CurrentAllowed, Splits
  <2>. QED
    BY <2>1, <2>3, <2>4, <2>5 DEF Informed
<1>21. \E u : Traced(u)'
  BY <1>14, <1>17 DEF Traced
<1>. QED
  BY <1>8, <1>13, <1>19, <1>20, <1>21 DEF WholeInv

(* A name, a comma or a function: what was read of the same SELECT decides  *)
(* what its machine makes of it.                                            *)
LEMMA ChangeStateStep ==
  ASSUME OrderIInv, WellFormed, WholeInv, ChangeState
  PROVE  WholeInv'
<1>. DEFINE m == [Top EXCEPT !.level = LevelBehind]
<1>1. /\ Turn /\ LevelBehind >= 0 /\ ~IsSelect(Following(cur)) /\ ChangesState(Following(cur))
      /\ machines' = WithTop(Successor(m, Following(cur)))
      /\ cur' = Following(cur) /\ read' = TRUE
  BY DEF ChangeState
<1>2. /\ m \in Machine /\ m.level = LevelBehind
      /\ m.state = Top.state /\ m.at = Top.at /\ m.fresh = Top.fresh /\ m.allies = Top.allies
      /\ m.allies \cap TableKeywords = {} /\ (m.fresh => tokens[m.at].word = Comma)
  BY <1>1, TurnMachine
<1>. HIDE DEF m
<1>3. Reads /\ Informed /\ \E s : Traced(s)
  BY <1>1 DEF WholeInv, Turn
<1>4. PICK s : Traced(s)
  BY <1>3
<1>5. Nested(s) /\ Counts(s) /\ Remembers(s)
  BY <1>4 DEF Traced
<1>6. PICK f : f = cur + 1
  OBVIOUS
<1>7. /\ tokens' = tokens /\ phase' = "running" /\ cur \in Nat \ {0} /\ Has(cur) /\ TypeOK
      /\ Following(cur) = f /\ cur' = f /\ Has(f) /\ ChangesState(f) /\ f \in Nat /\ f # cur
      /\ Len(machines) >= 1 /\ Len(machines) \in Nat /\ machines \in Seq(Machine)
  BY <1>1, <1>3, <1>5, <1>6, TurnFacts, ReadFacts DEF Turn, OrderIInv
<1>8. PICK x : x = Successor(m, f)
  OBVIOUS
<1>9. x \in Machine /\ x.level = LevelBehind
  BY <1>2, <1>7, <1>8, SuccessorType
<1>10. /\ x.state # "Select" /\ x.at = f /\ m.allies \subseteq x.allies
       /\ x.fresh => tokens[f].word = Comma
       /\ x.allies \cap TableKeywords = {}
       /\ m.state # "Select" /\ tokens[f].word \in TableKeywords => x.state = "Table"
       /\ m.state = "Column" /\ ~m.fresh /\ tokens[f].word = "AS"
            => x.state = "Column" /\ ~x.fresh
       /\ m.state = "Column" /\ ~m.fresh /\ tokens[f].column => tokens[f].raw \in x.allies
  <2>1. TypeOK /\ Has(f) /\ f \in Nat /\ m \in Machine /\ m.allies \cap TableKeywords = {}
    BY <1>2, <1>7
  <2>. QED
    BY <1>8, <2>1, SuccessorFacts
<1>11. tokens[f].type # Blank
  BY <1>7, TokenFacts
<1>12. machines' = WithTop(x)
  BY <1>1, <1>7, <1>8
<1>13. Top' = x
  <2>1. Len(WithTop(x)) = Len(machines) /\ WithTop(x)[Len(machines)] = x
    BY <1>7, <1>9, WithTopType
  <2>. QED
    BY <1>12, <2>1 DEF Top, Depth
<1>14. /\ AllKept' /\ SplitsAllowed'
       /\ \A c \in Nat : c < cur => (IsSplit(c)' <=> IsSplit(c))
  BY <1>1, TurnKeepsAll
<1>15. Nested(s)' /\ Counts(s)'
  BY <1>1, <1>3, <1>5, <1>9, <1>12, NestedTurn
<1>16. LastRead \in {cur, cur - 1} /\ LastRead' = f
  BY <1>1, <1>7 DEF LastRead
<1>17. ASSUME NEW c \in 1..cur, IsSplit(c)',
              \A i \in (c + 1)..cur : tokens[i].type = Blank \/ tokens[i].word = "AS"
       PROVE  m.state = "Column" /\ ~m.fresh
  <2>1. \A i \in (c + 1)..LastRead : i \in (c + 1)..cur
    BY <1>7, <1>16
  <2>2. \A i \in (c + 1)..LastRead : tokens[i].type = Blank \/ tokens[i].word = "AS"
    BY <1>17, <2>1
  <2>. QED
    BY <1>1, <1>2, <1>3, <1>17, <2>2, ColumnsFollow
<1>18. Knows(x, f)'
  <2>1. SUFFICES ASSUME AliasOfSplit(f)' PROVE tokens[f].raw \in x.allies
    BY <1>7, <1>10 DEF Knows
  <2>2. AliasOfSplit(f)
    <3>1. \A c \in Nat : c < f - 1 => (IsSplit(c)' <=> IsSplit(c))
      BY <1>6, <1>7, <1>14
    <3>. QED
      BY <1>7, <2>1, <3>1, AliasesStay
  <2>3. PICK c \in Places : IsSplit(c) /\ DeclaresAlias(c, f)
    BY <2>2 DEF AliasOfSplit
  <2>4. PICK a \in Places : StandsBehind(a, f) /\ StandsBehind(c, a) /\ tokens[a].word = "AS"
    BY <2>3 DEF DeclaresAlias
  <2>5. /\ a \in Nat /\ c \in Nat /\ 1 <= c /\ c < a /\ a <= cur
        /\ \A i \in (a + 1)..cur : tokens[i].type = Blank
        /\ \A i \in (c + 1)..(a - 1) : tokens[i].type = Blank
    BY <1>6, <1>7, <2>4 DEF StandsBehind, Places
  <2>6. ASSUME NEW i \in (c + 1)..cur
        PROVE  tokens[i].type = Blank \/ tokens[i].word = "AS"
    <3>1. i = a \/ i \in (a + 1)..cur \/ i \in (c + 1)..(a - 1)
      BY <1>7, <2>5
    <3>. QED
      BY <2>4, <2>5, <3>1
  <2>7. IsSplit(c)' /\ c \in 1..cur
    BY <1>7, <1>14, <2>3, <2>5
  <2>8. m.state = "Column" /\ ~m.fresh
    BY <1>17, <2>6, <2>7
  <2>9. tokens[f].column
    BY <2>3 DEF DeclaresAlias
  <2>. QED
    BY <1>10, <2>8, <2>9
<1>19. Remembers(s)'
  BY <1>1, <1>2, <1>3, <1>4, <1>7, <1>9, <1>10, <1>12, <1>18, RemembersTurn
<1>20. Reads'
  <2>1. ChangesState(cur)'
    BY <1>7, CurrentPlace
  <2>2. Top'.at = cur'
    BY <1>7, <1>10, <1>13
  <2>. QED
    BY <1>1, <2>1, <2>2 DEF Reads
<1>21. TablesKnown'
  <2>1. SUFFICES ASSUME NEW b \in 1..f, AnnouncesTable(b)',
                        \A i \in (b + 1)..f : tokens[i].type = Blank
                 PROVE  x.state = "Table" /\ x.at = b
    BY <1>7, <1>13, <1>16 DEF TablesKnown
  <2>2. b = f
    <3>1. b # f => f \in (b + 1)..f
      BY <1>7
    <3>. QED
      BY <1>11, <2>1, <3>1
  <2>3. AnnouncesTable(f)
    BY <1>7, <2>1, <2>2, WellFormedStays
  <2>4. PICK r \in Places : \E q \in (r + 1)..(f - 1) : IsRead(q) /\ Owns(r, q) /\ Owns(r, f)
    BY <2>3 DEF AnnouncesTable
  <2>5. PICK q \in (r + 1)..(f - 1) : IsRead(q) /\ Owns(r, q) /\ Owns(r, f)
    BY <2>4
  <2>6. q \in 1..cur
    BY <1>6, <1>7, <2>5 DEF Places
  <2>7. Knows(Top, q)
    BY <1>1, <1>3, <1>5, <1>6, <2>5, <2>6, SameMachine
  <2>8. m.state # "Select" /\ tokens[f].word \in TableKeywords
    BY <1>2, <2>3, <2>7 DEF Knows, AnnouncesTable
  <2>. QED
    BY <1>10, <2>2, <2>8
<1>22. ColumnsKnown'
  <2>1. SUFFICES ASSUME NEW c \in 1..(f - 1), IsSplit(c)',
                        \A i \in (c + 1)..f : tokens[i].type = Blank \/ tokens[i].word = "AS"
                 PROVE  x.state = "Column" /\ ~x.fresh
    BY <1>7, <1>13, <1>16 DEF ColumnsKnown
  <2>2. c \in 1..cur /\ f \in (c + 1)..f /\ \A i \in (c + 1)..cur : i \in (c + 1)..f
    BY <1>6, <1>7
  <2>3. m.state = "Column" /\ ~m.fresh
    BY <1>17, <2>1, <2>2
  <2>4. tokens[f].word = "AS"
    BY <1>11, <2>1, <2>2
  <2>. QED
    BY <1>10, <2>3, <2>4
<1>23. CurrentAllowed'
  <2>1. SUFFICES ASSUME x.state = "Column", tokens[f].dotted PROVE ~Barred(f)'
    BY <1>7, <1>13 DEF CurrentAllowed, Splits
  <2>2. Successor(m, cur + 1).state = "Column" /\ tokens[cur + 1].dotted
    BY <1>6, <1>8, <2>1
  <2>3. SplitsAllowed
    BY DEF WholeInv
  <2>4. ~Barred(cur + 1)
    BY <1>1, <1>2, <1>3, <1>4, <2>2, <2>3, NextAllowed DEF m
  <2>5. \A c \in Nat : c < f - 1 => (IsSplit(c)' <=> IsSplit(c))
    BY <1>6, <1>7, <1>14
  <2>6. Barred(f)' <=> Barred(f)
    BY <1>7, <2>5, AliasesStay
  <2>. QED
    BY <1>6, <2>4, <2>6
<1>24. MachinesSound'
  <2>1. MachinesSound /\ (x.fresh => tokens[x.at].word = Comma)
    BY <1>3, <1>10 DEF Informed
  <2>. QED
    BY <1>7, <1>9, <1>10, <1>12, <2>1, SoundTurn
<1>25. (\E t : Traced(t)') /\ Informed'
  BY <1>15, <1>19, <1>21, <1>22, <1>23, <1>24 DEF Traced, Informed
<1>. QED
  BY <1>7, <1>14, <1>20, <1>25 DEF WholeInv

(* A machine that returns: what it alone remembered is closed with it, and  *)
(* the token behind its parenthesis is not read.                            *)
LEMMA ReturnToOuterStep ==
  ASSUME OrderIInv, WellFormed, WholeInv, ReturnToOuter
  PROVE  WholeInv'
<1>. DEFINE n == Len(machines)
<1>1. Reads /\ AllKept /\ Informed /\ SplitsAllowed /\ \E s : Traced(s)
  BY DEF WholeInv, ReturnToOuter
<1>2. PICK s : Traced(s)
  BY <1>1
<1>3. Nested(s) /\ Counts(s) /\ Remembers(s)
  BY <1>2 DEF Traced
<1>4. PICK t : t = SubSeq(s, 1, Len(s) - 1)
  OBVIOUS
<1>5. /\ phase' = "running" /\ AtEnd /\ n > 1 /\ n = Len(s) /\ n \in Nat /\ tokens' = tokens
      /\ out' = out /\ read' = FALSE /\ cur \in Nat \ {0} /\ TypeOK
      /\ machines \in Seq(Machine) /\ s \in Seq(Nat) /\ Len(tokens) \in Nat
      /\ LastRead' = cur' - 1
  BY <1>3 DEF ReturnToOuter, Nested, Depth, OrderIInv, TypeOK, LastRead
<1>6. /\ Nested(t)' /\ Counts(t)'
      /\ Has(cur) => /\ cur' = cur + 1 /\ tokens[cur].type = ")" /\ Kept(cur)
                     /\ Open(cur) = Open(s[n]) - 1 /\ s[n] < cur
      /\ ~Has(cur) => cur' = cur
  BY <1>3, <1>4, <1>5, NestedReturn
<1>7. /\ Len(machines') = n - 1
      /\ \A k \in 1..(n - 1) : /\ machines'[k].state = machines[k].state
                               /\ machines'[k].at = machines[k].at
                               /\ machines'[k].fresh = machines[k].fresh
                               /\ machines'[k].allies = machines[k].allies
  <2>. DEFINE before == SubSeq(machines, 1, n - 1)
  <2>. DEFINE m == [machines[n - 1] EXCEPT !.level = machines[n - 1].level - 1]
  <2>1. /\ before \in Seq(Machine) /\ Len(before) = n - 1
        /\ \A k \in 1..(n - 1) : before[k] = machines[k]
    BY <1>5, SubSeqProperties
  <2>2. machines' = [before EXCEPT ![n - 1] = m]
    BY DEF ReturnToOuter, Depth
  <2>3. /\ m.state = machines[n - 1].state /\ m.at = machines[n - 1].at
        /\ m.fresh = machines[n - 1].fresh /\ m.allies = machines[n - 1].allies
    <3>1. machines[n - 1] \in Machine
      BY <1>5
    <3>. QED
      BY <3>1 DEF Machine
  <2>. HIDE DEF before, m
  <2>4. /\ Len(machines') = n - 1 /\ machines'[n - 1] = m
        /\ \A k \in 1..(n - 2) : machines'[k] = machines[k]
    <3>1. n - 1 \in 1..Len(before) /\ Len(before) \in Nat
      BY <1>5, <2>1
    <3>2. \A k \in 1..(n - 2) : k \in 1..Len(before) /\ k # n - 1 /\ k \in 1..(n - 1)
      BY <1>5, <2>1
    <3>3. Len(machines') = Len(before) /\ DOMAIN before = 1..Len(before)
      BY <2>1, <2>2
    <3>4. machines'[n - 1] = m /\ \A k \in 1..(n - 2) : machines'[k] = before[k]
      BY <2>2, <3>1, <3>2, <3>3
    <3>. QED
      BY <2>1, <3>2, <3>3, <3>4
  <2>5. ASSUME NEW k \in 1..(n - 1)
        PROVE  k = n - 1 \/ k \in 1..(n - 2)
    BY <1>5
  <2>. QED
    BY <2>3, <2>4, <2>5
<1>8. Len(t) = n - 1 /\ \A k \in 1..(n - 1) : t[k] = s[k]
  BY <1>4, <1>5, SubSeqProperties
<1>9. /\ \A p : Open(p)' = Open(p) /\ IsRead(p)' = IsRead(p)
      /\ \A p : IsSplit(p)' <=> IsSplit(p)
  BY <1>5, PlacesStay DEF IsSplit
<1>10. \A q \in Nat : (AliasOfSplit(q)' <=> AliasOfSplit(q)) /\ (Barred(q)' <=> Barred(q))
  BY <1>5, <1>9, AliasesStay
<1>11. Has(cur)' => Has(cur)
  BY <1>5, <1>6 DEF Has
<1>12. ASSUME Has(cur)
       PROVE  /\ tokens[cur].type # Blank /\ tokens[cur].word # "AS" /\ ~IsRead(cur)
              /\ ~tokens[cur].column /\ ~IsRead(cur + 1)
  <2>1. tokens[cur].type = ")"
    BY <1>6, <1>12
  <2>2. /\ tokens[cur].type # Blank /\ tokens[cur].word # "AS" /\ ~ChangesState(cur)
        /\ ~tokens[cur].column
    BY <1>5, <1>12, <2>1, TokenFacts, BlankIsNoName DEF Separators
  <2>3. ClosesSubquery(cur)
    <3>1. n \in 1..Len(s)
      BY <1>5
    <3>2. IsSelect(s[n]) /\ \A p \in s[n]..(cur - 1) : Open(p) >= Open(s[n])
      BY <1>3, <3>1 DEF Nested
    <3>3. s[n] \in Nat \ {0}
      BY <3>2 DEF IsSelect, Has
    <3>4. s[n] \in 1..(cur - 1) /\ Open(s[n]) = Open(cur) + 1
      <4>1. Open(cur) \in Int /\ Open(s[n]) \in Int
        BY <1>5, <3>3, OpenType
      <4>. QED
        BY <1>5, <1>6, <1>12, <3>3, <4>1
    <3>. QED
      BY <1>12, <2>1, <3>2, <3>4 DEF ClosesSubquery, IsType
  <2>4. (cur + 1) - 1 = cur
    BY <1>5
  <2>. QED
    BY <2>2, <2>3, <2>4 DEF IsRead
<1>13. Reads'
  <2>1. SUFFICES ASSUME Has(cur)' PROVE ~IsRead(cur)'
    BY <1>5 DEF Reads
  <2>2. IsRead(cur)' = IsRead(cur') /\ cur' = cur + 1
    BY <1>5, <1>6, <1>11, <2>1, CurrentPlace
  <2>. QED
    BY <1>11, <1>12, <2>1, <2>2
<1>14. AllKept'
  <2>1. \A p \in 1..(cur' - 1) : p \in 1..(cur - 1) \/ (p = cur /\ Has(cur))
    BY <1>5, <1>6
  <2>. QED
    BY <1>1, <1>5, <1>6, <2>1 DEF AllKept, Kept
<1>15. SplitsAllowed'
  BY <1>1, <1>5, <1>9, <1>10 DEF SplitsAllowed, Places
<1>16. Remembers(t)'
  <2>1. SUFFICES ASSUME Has(cur)', NEW q \in 1..cur', IsRead(q)
                 PROVE  \/ \E k \in 1..(n - 1) : /\ Open(t[k]) <= Open(q)
                                                 /\ (k < n - 1 => q < t[k + 1])
                                                 /\ Knows(machines[k], q)'
                        \/ \E c \in (q + 1)..(cur' - 1) : Open(c) < Open(q)
    BY <1>7, <1>9 DEF Remembers
  <2>2. Has(cur) /\ cur' = cur + 1
    BY <1>6, <1>11, <2>1
  <2>3. q \in 1..cur /\ q \in Nat /\ q <= cur - 1 /\ Open(q) \in Int
    <3>1. q # cur /\ q # cur + 1
      BY <1>12, <2>1, <2>2
    <3>. QED
      BY <1>5, <2>2, <3>1, OpenType
  <2>4. \/ \E k \in 1..n : /\ Open(s[k]) <= Open(q) /\ (k < n => q < s[k + 1])
                           /\ Knows(machines[k], q)
        \/ \E c \in (q + 1)..(cur - 1) : Open(c) < Open(q)
    BY <1>3, <2>1, <2>2, <2>3 DEF Remembers
  <2>5. CASE \E c \in (q + 1)..(cur - 1) : Open(c) < Open(q)
    BY <1>5, <2>2, <2>3, <2>5
  <2>6. CASE \E k \in 1..n : /\ Open(s[k]) <= Open(q) /\ (k < n => q < s[k + 1])
                             /\ Knows(machines[k], q)
    <3>1. PICK k \in 1..n : /\ Open(s[k]) <= Open(q) /\ (k < n => q < s[k + 1])
                            /\ Knows(machines[k], q)
      BY <2>6
    <3>2. CASE k = n
      <4>1. cur \in (q + 1)..(cur' - 1) /\ cur \in Nat
        BY <1>5, <2>2, <2>3
      <4>2. Open(cur) < Open(q)
        <5>1. Open(cur) \in Int /\ Open(cur) = Open(s[n]) - 1
          BY <1>5, <1>6, <2>2, OpenType
        <5>2. Open(s[n]) \in Int
          <6>1. IsSelect(s[n])
            BY <1>3, <1>5, <3>2 DEF Nested
          <6>2. s[n] \in Nat
            BY <6>1 DEF IsSelect, Has
          <6>. QED
            BY <6>2, OpenType
        <5>. QED
          BY <2>3, <3>1, <3>2, <5>1, <5>2
      <4>3. PICK c \in (q + 1)..(cur' - 1) : c = cur
        BY <4>1
      <4>. QED
        BY <4>2, <4>3
    <3>3. CASE k # n
      <4>1. k \in 1..(n - 1) /\ t[k] = s[k] /\ q < s[k + 1]
        BY <1>5, <1>8, <3>1, <3>3
      <4>2. k < n - 1 => q < t[k + 1]
        <5>1. k < n - 1 => k + 1 \in 1..(n - 1)
          BY <1>5, <4>1
        <5>. QED
          BY <1>8, <4>1, <5>1
      <4>3. Knows(machines[k], q)'
        BY <1>5, <1>7, <1>10, <2>3, <3>1, <4>1 DEF Knows
      <4>. QED
        BY <3>1, <4>1, <4>2, <4>3
    <3>. QED
      BY <3>2, <3>3
  <2>. QED
    BY <2>4, <2>5, <2>6
<1>17. MachinesSound'
  <2>1. MachinesSound
    BY <1>1 DEF Informed
  <2>2. \A k \in 1..(n - 1) : k \in 1..n
    BY <1>5
  <2>. QED
    BY <1>5, <1>7, <2>1, <2>2 DEF MachinesSound
<1>18. TablesKnown'
  <2>1. SUFFICES ASSUME Has(cur)', NEW b \in 1..(cur' - 1), AnnouncesTable(b)',
                        \A i \in (b + 1)..(cur' - 1) : tokens[i].type = Blank
                 PROVE  FALSE
    BY <1>5 DEF TablesKnown
  <2>2. Has(cur) /\ cur' = cur + 1
    BY <1>6, <1>11, <2>1
  <2>3. IsRead(b)
    BY <1>5, <2>1, WellFormedStays DEF AnnouncesTable
  <2>4. b # cur => cur \in (b + 1)..(cur' - 1)
    BY <1>5, <2>2
  <2>. QED
    BY <1>12, <2>1, <2>2, <2>3, <2>4
<1>19. ColumnsKnown'
  <2>1. SUFFICES ASSUME Has(cur)', NEW c \in 1..(cur' - 1), IsSplit(c)',
                        \A i \in (c + 1)..(cur' - 1) :
                           tokens[i].type = Blank \/ tokens[i].word = "AS"
                 PROVE  FALSE
    BY <1>5 DEF ColumnsKnown
  <2>2. Has(cur) /\ cur' = cur + 1
    BY <1>6, <1>11, <2>1
  <2>3. c # cur => cur \in (c + 1)..(cur' - 1)
    BY <1>5, <2>2
  <2>4. c = cur
    BY <1>12, <2>1, <2>2, <2>3
  <2>5. tokens[cur].dotted
    BY <1>1, <1>9, <2>1, <2>2, <2>4 DEF SplitsAllowed, Has, Places
  <2>. QED
    BY <1>5, <1>12, <2>2, <2>5, TokenFacts
<1>20. CurrentAllowed'
  BY <1>5 DEF CurrentAllowed, Splits
<1>21. (\E u : Traced(u)') /\ Informed'
  BY <1>6, <1>16, <1>17, <1>18, <1>19, <1>20 DEF Traced, Informed
<1>. QED
  BY <1>5, <1>13, <1>14, <1>15, <1>21 DEF WholeInv

(* The machine of the first SELECT.                                         *)
LEMMA StartMachineStep ==
  ASSUME OrderIInv, WellFormed, WholeInv, StartMachine
  PROVE  WholeInv'
<1>1. /\ IsSelect(1) /\ phase' = "running" /\ machines' = <<NewMachine(1)>>
      /\ tokens' = tokens /\ cur' = cur /\ read' = read /\ out' = out /\ out = <<>> /\ cur = 1
      /\ TypeOK
  BY DEF StartMachine, OrderIInv, Fresh
<1>2. PICK s : s = <<1>>
  OBVIOUS
<1>3. /\ s \in Seq(Nat) /\ Len(s) = 1 /\ s[1] = 1 /\ Len(machines') = 1
      /\ machines'[1] = NewMachine(1) /\ Top' = NewMachine(1) /\ Has(1)
  BY <1>1, <1>2 DEF Top, Depth, IsSelect
<1>4. /\ NewMachine(1).level = 0 /\ NewMachine(1).state = "Select" /\ NewMachine(1).at = 1
      /\ NewMachine(1).fresh = FALSE /\ NewMachine(1).allies = {}
  BY DEF NewMachine
<1>5. Open(0) = 0 /\ Open(1) = 0
  <2>1. tokens[1].type # "(" /\ tokens[1].type # ")"
    BY <1>1, <1>3, TokenFacts DEF Separators
  <2>2. 1 \in Nat \ {0} /\ 1 - 1 = 0
    OBVIOUS
  <2>3. Open(1) = Open(1 - 1) + 0
    BY <2>1, <2>2, OpenStep
  <2>. QED
    BY <2>2, <2>3, OpenNone
<1>6. \A p : Open(p)' = Open(p) /\ IsSelect(p)' = IsSelect(p) /\ IsRead(p)' = IsRead(p)
  BY <1>1, PlacesStay
<1>7. ~IsRead(1) /\ tokens[1].type # Blank
  BY <1>1, <1>3, TokenFacts DEF IsRead, Separators
<1>8. Nested(s)'
  <2>1. Open(s[1])' = 0
    BY <1>3, <1>5, <1>6
  <2>. QED
    BY <1>1, <1>3, <1>6, <2>1 DEF Nested
<1>9. Counts(s)'
  <2>1. Open(cur - 1)' = 0
    <3>1. Open(cur - 1)' = Open(cur' - 1)
      BY <1>1, CurrentPlace
    <3>. QED
      BY <1>1, <1>5, <3>1
  <2>2. Open(s[1])' = 0
    BY <1>3, <1>5, <1>6
  <2>. QED
    BY <1>3, <1>4, <2>1, <2>2 DEF Counts
<1>10. Remembers(s)'
  BY <1>1, <1>3, <1>6, <1>7 DEF Remembers
<1>11. Reads'
  <2>1. IsSelect(cur)' = IsSelect(cur') /\ IsRead(cur)' = IsRead(cur')
    BY <1>1, CurrentPlace
  <2>. QED
    BY <1>1, <1>3, <1>4, <1>7, <2>1 DEF Reads
<1>12. AllKept' /\ (\A p : ~IsSplit(p)') /\ SplitsAllowed'
  BY <1>1 DEF AllKept, IsSplit, SplitsAllowed
<1>13. Informed'
  <2>1. MachinesSound' /\ ColumnsKnown' /\ CurrentAllowed'
    BY <1>3, <1>4, <1>12 DEF MachinesSound, ColumnsKnown, CurrentAllowed, Splits
  <2>2. TablesKnown'
    <3>1. SUFFICES ASSUME NEW b \in 1..LastRead', AnnouncesTable(b)' PROVE FALSE
      BY DEF TablesKnown
    <3>2. b = 1
      BY <1>1, <3>1 DEF LastRead
    <3>3. IsRead(b)
      BY <1>1, <3>1, WellFormedStays DEF AnnouncesTable
    <3>. QED
      BY <1>7, <3>2, <3>3
  <2>. QED
    BY <2>1, <2>2 DEF Informed
<1>14. \E u : Traced(u)'
  BY <1>8, <1>9, <1>10 DEF Traced
<1>. QED
  BY <1>1, <1>11, <1>12, <1>13, <1>14 DEF WholeInv

(* The first machine ends at the end of the query.                          *)
LEMMA FinishStep ==
  ASSUME OrderIInv, WellFormed, WholeInv, Finish
  PROVE  WholeInv'
<1>1. /\ phase = "running" /\ phase' = "done" /\ AtEnd /\ Len(machines) = 1 /\ tokens' = tokens
      /\ out' = out /\ cur \in Nat \ {0} /\ TypeOK /\ machines \in Seq(Machine)
      /\ Len(tokens) \in Nat
  BY DEF Finish, Depth, OrderIInv, TypeOK
<1>2. AllKept /\ SplitsAllowed /\ \E s : Traced(s)
  BY <1>1 DEF WholeInv
<1>3. PICK s : Traced(s)
  BY <1>2
<1>4. Nested(s) /\ Counts(s) /\ Len(s) = 1 /\ Open(s[1]) = 0
  BY <1>1, <1>3 DEF Traced, Nested
<1>5. ~Has(cur)
  <2>1. SUFFICES ASSUME Has(cur) PROVE FALSE
    OBVIOUS
  <2>2. Top.level < 0 /\ Top.level \in Int
    <3>1. Top \in Machine
      BY <1>1 DEF Top, Depth
    <3>. QED
      BY <1>1, <2>1, <3>1 DEF AtEnd, Machine
  <2>3. Open(cur) = Open(s[1]) - 1
    BY <1>1, <1>4, <2>1, <2>2 DEF Counts
  <2>4. Open(cur) >= 0
    BY <2>1 DEF WellFormed, Parenthesised, Places, Has
  <2>. QED
    BY <1>4, <2>3, <2>4
<1>6. \A p \in Places : Kept(p)
  <2>1. \A p \in Places : p \in 1..(cur - 1)
    BY <1>1, <1>5 DEF Has, Places
  <2>. QED
    BY <1>2, <2>1 DEF AllKept
<1>7. SplitsAllowed'
  <2>1. \A p : IsSplit(p)' <=> IsSplit(p)
    BY <1>1 DEF IsSplit
  <2>2. \A q \in Nat : Barred(q)' <=> Barred(q)
    BY <1>1, <2>1, AliasesStay
  <2>. QED
    BY <1>1, <1>2, <2>1, <2>2 DEF SplitsAllowed, Places
<1>8. (\A p \in Places : Kept(p))'
  BY <1>1, <1>6 DEF Places, Kept
<1>. QED
  BY <1>1, <1>7, <1>8 DEF WholeInv

-----------------------------------------------------------------------------
(* A step that changes nothing.                                             *)
LEMMA WholeStutter ==
  ASSUME OrderIInv, WholeInv, UNCHANGED vars
  PROVE  WholeInv'
<1>1. /\ phase' = phase /\ tokens' = tokens /\ cur' = cur /\ machines' = machines
      /\ read' = read /\ out' = out /\ cur \in Nat
  BY DEF vars, OrderIInv, TypeOK
<1>2. /\ \A p : /\ Open(p)' = Open(p) /\ IsSelect(p)' = IsSelect(p) /\ IsRead(p)' = IsRead(p)
               /\ (IsSplit(p)' <=> IsSplit(p)) /\ (Kept(p)' <=> Kept(p))
      /\ Places' = Places
  BY <1>1, PlacesStay DEF IsSplit, Kept, Places
<1>3. /\ \A q \in Nat : (AliasOfSplit(q)' <=> AliasOfSplit(q)) /\ (Barred(q)' <=> Barred(q))
      /\ \A b : AnnouncesTable(b)' <=> AnnouncesTable(b)
  BY <1>1, <1>2, AliasesStay, WellFormedStays
<1>4. /\ Open(cur)' = Open(cur) /\ Open(cur - 1)' = Open(cur - 1) /\ Has(cur)' = Has(cur)
      /\ IsSelect(cur)' = IsSelect(cur) /\ ChangesState(cur)' = ChangesState(cur)
      /\ IsRead(cur)' = IsRead(cur) /\ Top' = Top /\ LastRead' = LastRead
      /\ Kept(cur)' = Kept(cur)
  BY <1>1, CurrentPlace DEF Top, Depth, LastRead, Kept
<1>5. ASSUME NEW s, Traced(s)
      PROVE  Traced(s)'
  <2>1. Nested(s) /\ Counts(s) /\ Remembers(s)
    BY <1>5 DEF Traced
  <2>2. Nested(s)'
    BY <1>1, <1>2, <2>1 DEF Nested
  <2>3. Counts(s)'
    BY <1>1, <1>2, <1>4, <2>1 DEF Counts
  <2>4. Remembers(s)'
    <3>1. \A q \in Nat : \A k : Knows(machines[k], q)' <=> Knows(machines[k], q)
      BY <1>1, <1>3 DEF Knows
    <3>2. \A q \in 1..cur : q \in Nat
      BY <1>1
    <3>. QED
      BY <1>1, <1>2, <1>4, <2>1, <3>1, <3>2 DEF Remembers
  <2>. QED
    BY <2>2, <2>3, <2>4 DEF Traced
<1>6. Reads => Reads'
  BY <1>1, <1>4 DEF Reads
<1>7. AllKept => AllKept'
  BY <1>1, <1>2 DEF AllKept
<1>8. SplitsAllowed => SplitsAllowed'
  BY <1>1, <1>2, <1>3 DEF SplitsAllowed, Places
<1>9. Informed => Informed'
  <2>1. MachinesSound => MachinesSound'
    BY <1>1 DEF MachinesSound
  <2>2. TablesKnown => TablesKnown'
    BY <1>1, <1>3, <1>4 DEF TablesKnown
  <2>3. ColumnsKnown => ColumnsKnown'
    BY <1>1, <1>2, <1>4 DEF ColumnsKnown
  <2>4. CurrentAllowed => CurrentAllowed'
    BY <1>1, <1>2, <1>3, <1>4 DEF CurrentAllowed, Splits, Places
  <2>. QED
    BY <2>1, <2>2, <2>3, <2>4 DEF Informed
<1>10. (\A p \in Places : Kept(p)) => (\A p \in Places : Kept(p))'
  BY <1>2
<1>. QED
  BY <1>1, <1>5, <1>6, <1>7, <1>8, <1>9, <1>10 DEF WholeInv

(* Each step of a well-formed query keeps the whole invariant.              *)
LEMMA WholeStep ==
  ASSUME WholeIInv, [Next]_vars
  PROVE  WholeIInv'
<1>1. LostIInv /\ OrderIInv /\ LostIInv'
  BY LostStep DEF WholeIInv, LostIInv
<1>2. tokens' = tokens
  BY DEF Next, vars, StartMachine, ReturnUnchanged, CloseMachine, EnterSubquery, ChangeState,
         PassOver, ReturnToOuter, Finish, Turn
<1>3. SUFFICES ASSUME WellFormed PROVE WholeInv'
  BY <1>1, <1>2, WellFormedStays DEF WholeIInv
<1>4. WholeInv
  BY <1>3 DEF WholeIInv
<1>5. CASE StartMachine
  BY <1>1, <1>3, <1>4, <1>5, StartMachineStep
<1>6. CASE CloseMachine
  BY <1>1, <1>3, <1>4, <1>6, CloseMachineStep
<1>7. CASE EnterSubquery
  BY <1>1, <1>3, <1>4, <1>7, EnterSubqueryStep
<1>8. CASE ChangeState
  BY <1>1, <1>3, <1>4, <1>8, ChangeStateStep
<1>9. CASE PassOver
  BY <1>1, <1>3, <1>4, <1>9, PassOverStep
<1>10. CASE ReturnToOuter
  BY <1>1, <1>3, <1>4, <1>10, ReturnToOuterStep
<1>11. CASE Finish
  BY <1>1, <1>3, <1>4, <1>11, FinishStep
<1>12. CASE ReturnUnchanged
  <2>1. phase' = "unchanged" /\ out' = out
    BY <1>12 DEF ReturnUnchanged
  <2>2. \A p : IsSplit(p)' <=> IsSplit(p)
    BY <2>1 DEF IsSplit
  <2>3. \A q \in Nat : Barred(q)' <=> Barred(q)
    BY <1>2, <2>2, AliasesStay
  <2>4. SplitsAllowed'
    BY <1>2, <1>4, <2>2, <2>3 DEF WholeInv, SplitsAllowed, Places
  <2>. QED
    BY <2>1, <2>4 DEF WholeInv
<1>13. CASE UNCHANGED vars
  BY <1>1, <1>4, <1>13, WholeStutter
<1>. QED
  BY <1>5, <1>6, <1>7, <1>8, <1>9, <1>10, <1>11, <1>12, <1>13 DEF Next

LEMMA InitWhole == Init => WholeIInv
<1>. SUFFICES ASSUME Init PROVE WholeIInv
  OBVIOUS
<1>1. LostIInv
  BY InitIInv
<1>2. phase = "start" /\ out = <<>>
  BY DEF Init
<1>3. WholeInv
  BY <1>2 DEF WholeInv, SplitsAllowed, IsSplit
<1>. QED
  BY <1>1, <1>3 DEF WholeIInv

(* The inductive invariant of the machines that read a well-formed query.   *)
THEOREM WholeQueryIInv == Spec => []WholeIInv
<1>1. WholeIInv /\ [Next]_vars => WholeIInv'
  BY WholeStep
<1>. QED
  BY InitWhole, <1>1, PTL DEF Spec

(* What the invariant says of well-formed queries.                         *)
LEMMA WholeKeeps == WholeIInv => QueryIsWhole
BY DEF WholeIInv, WholeInv, QueryIsWhole

(* Of a query whose parentheses match and whose subqueries stand in them,   *)
(* the query that is sent has every token, however deep they are nested.    *)
THEOREM QueriesAreWhole == Spec => []QueryIsWhole
BY WholeKeeps, WholeQueryIInv, PTL

LEMMA WholeSparesTables == WholeIInv => TablesOfColumnsAreNotSplit
<1>1. SUFFICES ASSUME WholeInv, NEW b \in Places, NEW p \in Places,
                      StandsBehind(b, p), AnnouncesTable(b), IsSplit(p)
               PROVE  FALSE
  BY DEF WholeIInv, TablesOfColumnsAreNotSplit
<1>. QED
  BY <1>1 DEF WholeInv, SplitsAllowed, Barred

(* The name of a table is not split behind a FROM or JOIN that announces    *)
(* it, wherever the subqueries before it begin and end; what AnnouncesTable *)
(* leaves out (SELECT *, FROM right behind a subquery) is not claimed.      *)
THEOREM TablesKeepTheirNames == Spec => []TablesOfColumnsAreNotSplit
BY WholeSparesTables, WholeQueryIInv, PTL

LEMMA WholeSparesAliases == WholeIInv => AliasesAreNotSplit
<1>1. SUFFICES ASSUME WholeInv, NEW c \in Places, NEW p \in Places,
                      IsSplit(c), DeclaresAlias(c, p)
               PROVE  ~IsSplit(p) /\ \A q \in Places : UsesAlias(p, q) => ~IsSplit(q)
  BY DEF WholeIInv, AliasesAreNotSplit
<1>2. AliasOfSplit(p)
  BY <1>1 DEF AliasOfSplit
<1>. QED
  BY <1>1, <1>2 DEF WholeInv, SplitsAllowed, Barred

(* The alias of a column that was split is not split where it is declared   *)
(* and, if it is written in upper case, not where the same SELECT uses it,  *)
(* whatever stands between them.                                            *)
THEOREM AliasesKeepTheirNames == Spec => []AliasesAreNotSplit
BY WholeSparesAliases, WholeQueryIInv, PTL
=============================================================================

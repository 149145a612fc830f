-------------------------- MODULE CleanListProofs ---------------------------
(***************************************************************************)
(* The clean list is a bounded queue, for every arena size and every set   *)
(* of block numbers.  The three invariants of CleanList are inductive only *)
(* together: that the pointers spell the lists is preserved because no     *)
(* node is shared, and no node is shared because the pointers name the     *)
(* ends of the lists.                                                      *)
(***************************************************************************)
EXTENDS CleanList, SequenceTheorems, TLAPS

IInv == TypeOK /\ PointersSpellLists /\ NodesConserved

(* What the type invariant says of the two histories, index by index.      *)
LEMMA Indices ==
    ASSUME TypeOK
    PROVE  /\ Len(order) \in Nat
           /\ Len(pool) \in Nat
           /\ \A i \in 1 .. Len(order) : order[i] \in Node
           /\ \A i \in 1 .. Len(pool) : pool[i] \in Node
BY DEF TypeOK

LEMMA NullIsNoNode == \A n \in Node : n # NULL
BY DEF Node, NULL

(* The node taken from the top of the unused list by a push, and what is   *)
(* below it: facts of any state in which the list is not full.             *)
LEMMA UnusedIsTopOfPool ==
    ASSUME IInv, unused # NULL
    PROVE  /\ Len(pool) > 0
           /\ unused = pool[1]
           /\ next[unused] = IF Len(pool) = 1 THEN NULL ELSE pool[2]
<1>1. /\ Len(pool) > 0
      /\ unused = pool[1]
  BY Indices DEF IInv, PointersSpellLists, First
<1>2. CASE Len(pool) = 1
  BY <1>1, <1>2 DEF IInv, PointersSpellLists, Last, Chained
<1>3. CASE Len(pool) # 1
  <2>1. 1 \in 1 .. Len(pool) - 1
    BY <1>1, <1>3, Indices DEF IInv
  <2>2. next[pool[1]] = pool[1 + 1]
    BY <2>1 DEF IInv, PointersSpellLists, Chained
  <2> QED BY <1>1, <1>3, <2>2
<1> QED BY <1>1, <1>2, <1>3

(* The node a pop takes, and what follows it. *)
LEMMA HeadIsFrontOfOrder ==
    ASSUME IInv, head # NULL
    PROVE  /\ Len(order) > 0
           /\ head = order[1]
           /\ next[head] = IF Len(order) = 1 THEN NULL ELSE order[2]
           /\ (head = tail) <=> Len(order) = 1
<1>1. /\ Len(order) > 0
      /\ head = order[1]
      /\ tail = order[Len(order)]
  BY Indices DEF IInv, PointersSpellLists, First, Last
<1>2. next[head] = IF Len(order) = 1 THEN NULL ELSE order[2]
  <2>1. CASE Len(order) = 1
    BY <1>1, <2>1 DEF IInv, PointersSpellLists, Last, Chained
  <2>2. CASE Len(order) # 1
    <3>0. Len(order) \in Nat
      BY Indices DEF IInv
    <3>1. 1 \in 1 .. Len(order) - 1
      BY <1>1, <2>2, <3>0
    <3>2. next[order[1]] = order[1 + 1]
      BY <3>1 DEF IInv, PointersSpellLists, Chained
    <3> QED BY <1>1, <2>2, <3>2
  <2> QED BY <2>1, <2>2
<1>3. 1 \in 1 .. Len(order) /\ Len(order) \in 1 .. Len(order)
  BY <1>1, Indices DEF IInv
<1>4. order[1] = order[Len(order)] => 1 = Len(order)
  BY <1>3 DEF IInv, NodesConserved
<1> QED BY <1>1, <1>2, <1>4

LEMMA InitEstablishes == Init => IInv
<1> SUFFICES ASSUME Init PROVE IInv
  OBVIOUS
<1> USE NumNodesAssumption
<1>1. TypeOK
  <2>1. pool \in Seq(Node)
    BY DEF Init, Node
  <2>2. next \in [Node -> NodeOrNull]
    BY DEF Init, Node, NodeOrNull, NULL
  <2>3. unused \in NodeOrNull
    BY DEF Init, Node, NodeOrNull
  <2>4. order \in Seq(Node)
    BY DEF Init
  <2> QED BY <2>1, <2>2, <2>3, <2>4 DEF Init, TypeOK, NodeOrNull
<1>2. PointersSpellLists
  BY DEF Init, PointersSpellLists, First, Last, Chained, NULL, Node
<1>3. NodesConserved
  BY DEF Init, NodesConserved, NULL, Node
<1> QED BY <1>1, <1>2, <1>3 DEF IInv

LEMMA PushPreserves ==
    ASSUME IInv, NEW l \in Lbn, Push(l)
    PROVE  IInv'
<1> USE NumNodesAssumption DEF HeadAfterPush, UnusedAfterPush
<1>1. /\ Len(pool) > 0
      /\ unused = pool[1]
      /\ next[unused] = IF Len(pool) = 1 THEN NULL ELSE pool[2]
  BY UnusedIsTopOfPool DEF Push
<1>2. /\ unused \in Node
      /\ \A i \in 1 .. Len(order) : order[i] # unused
  BY <1>1 DEF IInv, TypeOK, NodesConserved
<1>3. /\ order' \in Seq(Node)
      /\ Len(order') = Len(order) + 1
      /\ \A i \in 1 .. Len(order) : order'[i] = order[i]
      /\ order'[Len(order) + 1] = unused
  BY <1>2 DEF Push, IInv, TypeOK
<1>4. /\ pool' \in Seq(Node)
      /\ Len(pool') = Len(pool) - 1
      /\ \A i \in 1 .. Len(pool) - 1 : pool'[i] = pool[i + 1]
  BY <1>1 DEF Push, IInv, TypeOK
<1>5. /\ tail = NULL <=> Len(order) = 0
      /\ Len(order) > 0 => tail = order[Len(order)]
      /\ head = NULL <=> Len(order) = 0
      /\ Len(order) > 0 => head = order[1]
      /\ size = Len(order)
  BY DEF IInv, TypeOK, PointersSpellLists, First, Last, NULL, Node
<1>6. /\ next'[unused] = NULL
      /\ Len(order) > 0 => next'[order[Len(order)]] = unused
      /\ \A n \in Node : n # unused /\ n # tail => next'[n] = next[n]
  BY <1>2, <1>5 DEF Push, Linked, IInv, TypeOK, NULL, NodeOrNull
<1>7. TypeOK'
  <2>1. next' \in [Node -> NodeOrNull]
    BY <1>2 DEF Push, Linked, IInv, TypeOK, NodeOrNull
  <2>2. lbn' \in [Node -> Lbn]
    BY <1>2 DEF Push, IInv, TypeOK
  <2>3. /\ head' \in NodeOrNull
        /\ tail' \in NodeOrNull
        /\ unused' \in NodeOrNull
    BY <1>2 DEF Push, IInv, TypeOK, NodeOrNull
  <2>4. size' \in Nat /\ popped' \in SUBSET Lbn /\ hung' \in BOOLEAN
    BY DEF Push, IInv, TypeOK
  <2> QED BY <1>3, <1>4, <2>1, <2>2, <2>3, <2>4 DEF TypeOK
<1>8. NodesConserved'
  <2> DEFINE m == Len(order)
             k == Len(pool)
  <2>0. m \in Nat /\ k \in Nat
    BY Indices DEF IInv
  <2>1. \A i \in 1 .. m + 1 : \/ i \in 1 .. m /\ order'[i] = order[i]
                              \/ i = m + 1 /\ order'[i] = unused
    BY <1>3, <2>0
  <2>2. \A i \in 1 .. k - 1 : /\ i + 1 \in 1 .. k
                              /\ pool'[i] = pool[i + 1]
    BY <1>4, <2>0
  <2>3. \A i, j \in 1 .. m : order[i] = order[j] => i = j
    BY DEF IInv, NodesConserved
  <2>4. \A i, j \in 1 .. k : pool[i] = pool[j] => i = j
    BY DEF IInv, NodesConserved
  <2>5. \A i \in 1 .. m, j \in 1 .. k : order[i] # pool[j]
    BY DEF IInv, NodesConserved
  <2>6. 1 \in 1 .. k
    BY <1>1, <2>0
  <2>7. m + k = NumNodes
    BY DEF IInv, NodesConserved
  <2>8. Len(order') = m + 1 /\ Len(pool') = k - 1
    BY <1>3, <1>4
  <2> HIDE DEF m, k
  <2>9. \A i, j \in 1 .. m + 1 : order'[i] = order'[j] => i = j
    BY <1>2, <2>0, <2>1, <2>3 DEF m
  <2>10. \A i, j \in 1 .. k - 1 : pool'[i] = pool'[j] => i = j
    BY <2>0, <2>2, <2>4
  <2>11. \A i \in 1 .. m + 1, j \in 1 .. k - 1 : order'[i] # pool'[j]
    <3> SUFFICES ASSUME NEW i \in 1 .. m + 1, NEW j \in 1 .. k - 1
                 PROVE  order'[i] # pool'[j]
      OBVIOUS
    <3>1. j + 1 \in 1 .. k /\ j + 1 # 1 /\ pool'[j] = pool[j + 1]
      BY <2>0, <2>2
    <3>2. unused # pool[j + 1]
      BY <1>1, <2>4, <2>6, <3>1
    <3> QED BY <2>1, <2>5, <3>1, <3>2
  <2>12. (m + 1) + (k - 1) = NumNodes
    BY <2>0, <2>7
  <2> QED BY <2>8, <2>9, <2>10, <2>11, <2>12 DEF NodesConserved
<1>9. PointersSpellLists'
  <2>1. head' = First(order)'
    BY <1>3, <1>5 DEF Push, First, IInv, TypeOK
  <2>2. tail' = Last(order)'
    BY <1>3 DEF Push, Last, IInv, TypeOK
  <2>3. unused' = First(pool)'
    BY <1>1, <1>4 DEF Push, First, IInv, TypeOK
  <2>4. Chained(order)'
    <3>1. ASSUME NEW i \in 1 .. Len(order') - 1
          PROVE  next'[order'[i]] = order'[i + 1]
      <4>1. CASE i = Len(order)
        BY <4>1, <1>3, <1>6 DEF IInv, TypeOK
      <4>2. CASE i # Len(order)
        <5>1. i \in 1 .. Len(order) - 1 /\ order[i] \in Node
          BY <4>2, <1>3 DEF IInv, TypeOK
        <5>2. order[i] # unused /\ order[i] # tail
          BY <5>1, <1>2, <1>5 DEF IInv, TypeOK, NodesConserved
        <5>3. next'[order[i]] = order[i + 1]
          BY <5>1, <5>2, <1>6 DEF IInv, PointersSpellLists, Chained
        <5> QED BY <5>1, <5>3, <1>3 DEF IInv, TypeOK
      <4> QED BY <4>1, <4>2
    <3>2. next'[Last(order')] = NULL
      BY <1>3, <1>6 DEF Last, IInv, TypeOK
    <3> QED BY <3>1, <3>2 DEF Chained, Last
  <2>5. Chained(pool)'
    <3>1. ASSUME NEW i \in 1 .. Len(pool')
          PROVE  next'[pool'[i]] = next[pool[i + 1]]
      <4>1. /\ i + 1 \in 1 .. Len(pool)
            /\ pool[i + 1] \in Node
            /\ pool'[i] = pool[i + 1]
        BY <1>4 DEF IInv, TypeOK
      <4>2. pool[i + 1] # unused
        BY <1>1, <4>1 DEF IInv, TypeOK, NodesConserved
      <4>3. pool[i + 1] # tail
        <5>1. CASE Len(order) = 0
          BY <5>1, <1>5, <4>1, NullIsNoNode
        <5>2. CASE Len(order) # 0
          <6>1. Len(order) \in 1 .. Len(order) /\ tail = order[Len(order)]
            BY <5>2, <1>5, Indices DEF IInv
          <6> QED BY <6>1, <4>1 DEF IInv, NodesConserved
        <5> QED BY <5>1, <5>2
      <4> QED BY <4>1, <4>2, <4>3, <1>6
    <3>2. ASSUME NEW i \in 1 .. Len(pool') - 1
          PROVE  next'[pool'[i]] = pool'[i + 1]
      BY <3>1, <1>4 DEF IInv, TypeOK, PointersSpellLists, Chained
    <3>3. Len(pool') > 0 => next'[Last(pool')] = NULL
      BY <3>1, <1>4 DEF IInv, TypeOK, PointersSpellLists, Chained, Last
    <3> QED BY <3>2, <3>3 DEF Chained, Last
  <2>6. size' = Len(order')
    BY <1>3, <1>5 DEF Push, IInv, TypeOK
  <2> QED BY <2>1, <2>2, <2>3, <2>4, <2>5, <2>6 DEF PointersSpellLists
<1> QED BY <1>7, <1>8, <1>9 DEF IInv

LEMMA PopPreserves ==
    ASSUME IInv, Pop
    PROVE  IInv'
<1> USE NumNodesAssumption DEF TailAfterPop, NextAfterPop
<1>1. /\ Len(order) > 0
      /\ head = order[1]
      /\ next[head] = IF Len(order) = 1 THEN NULL ELSE order[2]
      /\ (head = tail) <=> Len(order) = 1
  BY HeadIsFrontOfOrder DEF Pop
<1>2. /\ head \in Node
      /\ \A i \in 1 .. Len(pool) : pool[i] # head
      /\ \A i \in 2 .. Len(order) : order[i] # head
  BY <1>1 DEF IInv, TypeOK, NodesConserved
<1>3. /\ order' \in Seq(Node)
      /\ Len(order') = Len(order) - 1
      /\ \A i \in 1 .. Len(order) - 1 : order'[i] = order[i + 1]
  BY <1>1 DEF Pop, IInv, TypeOK
<1>4. /\ pool' \in Seq(Node)
      /\ Len(pool') = Len(pool) + 1
      /\ pool'[1] = head
      /\ \A i \in 1 .. Len(pool) : pool'[i + 1] = pool[i]
  BY <1>2 DEF Pop, IInv, TypeOK
<1>5. /\ size = Len(order)
      /\ tail = order[Len(order)]
      /\ unused = IF Len(pool) = 0 THEN NULL ELSE pool[1]
  BY <1>1 DEF IInv, TypeOK, PointersSpellLists, First, Last
<1>6. /\ next'[head] = unused
      /\ \A n \in Node : n # head => next'[n] = next[n]
  BY <1>2 DEF Pop, IInv, TypeOK
<1>7. TypeOK'
  BY <1>1, <1>2, <1>3, <1>4, <1>5 DEF Pop, IInv, TypeOK, NodeOrNull
<1>8. NodesConserved'
  <2> DEFINE m == Len(order)
             k == Len(pool)
  <2>0. m \in Nat /\ k \in Nat
    BY Indices DEF IInv
  <2>1. \A i \in 1 .. m - 1 : /\ i + 1 \in 2 .. m
                              /\ i + 1 \in 1 .. m
                              /\ order'[i] = order[i + 1]
    BY <1>3, <2>0
  <2>2. \A i \in 1 .. k + 1 : \/ i = 1 /\ pool'[i] = head
                              \/ i - 1 \in 1 .. k /\ pool'[i] = pool[i - 1]
    <3> SUFFICES ASSUME NEW i \in 1 .. k + 1, i # 1
                 PROVE  i - 1 \in 1 .. k /\ pool'[i] = pool[i - 1]
      BY <1>4
    <3>1. i - 1 \in 1 .. k /\ (i - 1) + 1 = i
      BY <2>0
    <3> QED BY <3>1, <1>4
  <2>3. \A i, j \in 1 .. m : order[i] = order[j] => i = j
    BY DEF IInv, NodesConserved
  <2>4. \A i, j \in 1 .. k : pool[i] = pool[j] => i = j
    BY DEF IInv, NodesConserved
  <2>5. \A i \in 1 .. m, j \in 1 .. k : order[i] # pool[j]
    BY DEF IInv, NodesConserved
  <2>6. m + k = NumNodes
    BY DEF IInv, NodesConserved
  <2>7. Len(order') = m - 1 /\ Len(pool') = k + 1
    BY <1>3, <1>4
  <2>8. /\ \A i \in 1 .. k : pool[i] # head
        /\ \A i \in 2 .. m : order[i] # head
    BY <1>2
  <2> HIDE DEF m, k
  <2>9. \A i, j \in 1 .. m - 1 : order'[i] = order'[j] => i = j
    BY <2>0, <2>1, <2>3
  <2>10. \A i, j \in 1 .. k + 1 : pool'[i] = pool'[j] => i = j
    BY <2>0, <2>2, <2>4, <2>8
  <2>11. \A i \in 1 .. m - 1, j \in 1 .. k + 1 : order'[i] # pool'[j]
    BY <2>1, <2>2, <2>5, <2>8
  <2>12. (m - 1) + (k + 1) = NumNodes
    BY <2>0, <2>6
  <2> QED BY <2>7, <2>9, <2>10, <2>11, <2>12 DEF NodesConserved
<1>9. PointersSpellLists'
  <2>1. head' = First(order)'
    BY <1>1, <1>3 DEF Pop, First, IInv, TypeOK
  <2>2. tail' = Last(order)'
    BY <1>1, <1>3, <1>5 DEF Pop, Last, IInv, TypeOK
  <2>3. unused' = First(pool)'
    BY <1>4 DEF Pop, First, IInv, TypeOK
  <2>4. Chained(order)'
    <3>1. ASSUME NEW i \in 1 .. Len(order')
          PROVE  next'[order'[i]] = next[order[i + 1]]
      BY <1>2, <1>3, <1>6 DEF IInv, TypeOK
    <3>2. ASSUME NEW i \in 1 .. Len(order') - 1
          PROVE  next'[order'[i]] = order'[i + 1]
      BY <3>1, <1>3 DEF IInv, TypeOK, PointersSpellLists, Chained
    <3>3. Len(order') > 0 => next'[Last(order')] = NULL
      BY <3>1, <1>3 DEF IInv, TypeOK, PointersSpellLists, Chained, Last
    <3> QED BY <3>2, <3>3 DEF Chained, Last
  <2>5. Chained(pool)'
    <3>1. ASSUME NEW i \in 1 .. Len(pool)
          PROVE  /\ pool'[i + 1] = pool[i]
                 /\ next'[pool[i]] = next[pool[i]]
      BY <1>2, <1>4, <1>6 DEF IInv, TypeOK
    <3>2. ASSUME NEW i \in 1 .. Len(pool') - 1
          PROVE  next'[pool'[i]] = pool'[i + 1]
      <4>1. CASE i = 1
        BY <4>1, <1>4, <1>5, <1>6 DEF IInv, TypeOK
      <4>2. CASE i # 1
        <5>1. i - 1 \in 1 .. Len(pool) - 1
          BY <4>2, <1>4 DEF IInv, TypeOK
        <5>2. next[pool[i - 1]] = pool[i]
          BY <5>1 DEF IInv, TypeOK, PointersSpellLists, Chained
        <5>3. /\ pool'[i] = pool[i - 1]
              /\ next'[pool[i - 1]] = next[pool[i - 1]]
              /\ pool'[i + 1] = pool[i]
          BY <3>1, <5>1 DEF IInv, TypeOK
        <5> QED BY <5>2, <5>3
      <4> QED BY <4>1, <4>2
    <3>3. next'[Last(pool')] = NULL
      <4>1. CASE Len(pool) = 0
        BY <4>1, <1>4, <1>5, <1>6 DEF Last, IInv, TypeOK
      <4>2. CASE Len(pool) # 0
        <5>1. next[pool[Len(pool)]] = NULL
          BY <4>2 DEF IInv, TypeOK, PointersSpellLists, Chained, Last
        <5>2. Last(pool') = pool[Len(pool)]
          BY <4>2, <1>4 DEF Last, IInv, TypeOK
        <5> QED BY <5>1, <5>2, <3>1, <4>2 DEF IInv, TypeOK
      <4> QED BY <4>1, <4>2
    <3> QED BY <3>2, <3>3 DEF Chained, Last
  <2>6. size' = Len(order')
    BY <1>1, <1>3, <1>5 DEF Pop, IInv, TypeOK
  <2> QED BY <2>1, <2>2, <2>3, <2>4, <2>5, <2>6 DEF PointersSpellLists
<1> QED BY <1>7, <1>8, <1>9 DEF IInv

LEMMA StepPreserves == IInv /\ [Next]_vars => IInv'
<1> SUFFICES ASSUME IInv, [Next]_vars PROVE IInv'
  OBVIOUS
<1>1. CASE \E l \in Lbn : Push(l)
  BY <1>1, PushPreserves
<1>2. CASE Pop
  BY <1>2, PopPreserves
<1>3. CASE PushFull \/ PopEmpty
  <2>1. /\ UNCHANGED <<next, lbn, head, tail, unused, size, popped, order, pool>>
        /\ hung' \in BOOLEAN
    BY <1>3 DEF PushFull, PopEmpty
  <2>2. TypeOK'
    BY <2>1 DEF IInv, TypeOK
  <2>3. PointersSpellLists'
    BY <2>1 DEF IInv, PointersSpellLists, First, Last, Chained
  <2>4. NodesConserved'
    BY <2>1 DEF IInv, NodesConserved
  <2> QED BY <2>2, <2>3, <2>4 DEF IInv
<1>4. CASE UNCHANGED vars
  BY <1>4 DEF vars, IInv, TypeOK, PointersSpellLists, NodesConserved, First, Last, Chained
<1> QED BY <1>1, <1>2, <1>3, <1>4 DEF Next

(* Every reachable state is well typed. *)
THEOREM TypeCorrect == Spec => []TypeOK
<1>1. IInv => TypeOK
  BY DEF IInv
<1> QED BY <1>1, InitEstablishes, StepPreserves, PTL DEF Spec

(* cleanListPush and cleanListPop keep head, tail, unused list and size    *)
(* mutually consistent whatever the order of the calls.                    *)
THEOREM PointersCorrect == Spec => []PointersSpellLists
<1>1. IInv => PointersSpellLists
  BY DEF IInv
<1> QED BY <1>1, InitEstablishes, StepPreserves, PTL DEF Spec

(* The arena neither leaks a node nor hands one out twice. *)
THEOREM NodesAreConserved == Spec => []NodesConserved
<1>1. IInv => NodesConserved
  BY DEF IInv
<1> QED BY <1>1, InitEstablishes, StepPreserves, PTL DEF Spec

-----------------------------------------------------------------------------
(* The refinement: what the nodes spell is a queue of block numbers.       *)

LEMMA SpelledTyped ==
    ASSUME NEW f \in [Node -> Lbn], NEW s \in Seq(Node)
    PROVE  LET t == [i \in 1 .. Len(s) |-> f[s[i]]]
           IN  /\ t \in Seq(Lbn)
               /\ Len(t) = Len(s)
               /\ \A i \in 1 .. Len(s) : t[i] = f[s[i]]
<1>1. /\ Len(s) \in Nat
      /\ \A i \in 1 .. Len(s) : f[s[i]] \in Lbn
  OBVIOUS
<1> QED BY <1>1

LEMMA BlocksTyped ==
    ASSUME TypeOK
    PROVE  /\ Blocks \in Seq(Lbn)
           /\ Len(Blocks) = Len(order)
           /\ \A i \in 1 .. Len(order) : Blocks[i] = lbn[order[i]]
BY SpelledTyped DEF TypeOK, Blocks

LEMMA BlocksTypedNext ==
    ASSUME TypeOK'
    PROVE  /\ Blocks' \in Seq(Lbn)
           /\ Len(Blocks') = Len(order')
           /\ \A i \in 1 .. Len(order') : Blocks'[i] = lbn'[order'[i]]
BY SpelledTyped DEF TypeOK, Blocks

LEMMA PushRefines ==
    ASSUME IInv, NEW l \in Lbn, Push(l)
    PROVE  Fifo!Push(l)
<1>1. unused \in Node /\ unused # NULL /\ Len(pool) > 0
      /\ \A i \in 1 .. Len(order) : order[i] # unused
  <2>1. Len(pool) > 0 /\ unused = pool[1] /\ unused # NULL
    BY UnusedIsTopOfPool DEF Push
  <2>2. 1 \in 1 .. Len(pool)
    BY <2>1, Indices DEF IInv
  <2> QED BY <2>1, <2>2, Indices DEF IInv, NodesConserved
<1>2. Len(Blocks) < NumNodes
  <2>1. Len(order) + Len(pool) = NumNodes /\ Len(order) \in Nat /\ Len(pool) \in Nat
    BY Indices DEF IInv, NodesConserved
  <2> QED BY <1>1, <2>1, BlocksTyped DEF IInv
<1>3. Blocks' = Append(Blocks, l)
  <2> DEFINE m == Len(order)
  <2>1. m \in Nat /\ order \in Seq(Node) /\ lbn \in [Node -> Lbn]
    BY Indices DEF IInv, TypeOK
  <2>2. order' = Append(order, unused) /\ lbn' = [lbn EXCEPT ![unused] = l]
    BY DEF Push
  <2>3. /\ Len(order') = m + 1
        /\ \A i \in 1 .. m : order'[i] = order[i]
        /\ order'[m + 1] = unused
    BY <1>1, <2>1, <2>2
  <2>4. \A i \in 1 .. m : lbn'[order'[i]] = lbn[order[i]]
    BY <1>1, <2>1, <2>2, <2>3, Indices DEF IInv
  <2>5. lbn'[order'[m + 1]] = l
    BY <1>1, <2>1, <2>2, <2>3
  <2>6. /\ Blocks' \in Seq(Lbn)
        /\ Len(Blocks') = m + 1
        /\ \A i \in 1 .. m + 1 : Blocks'[i] = lbn'[order'[i]]
    <3>1. TypeOK'
      BY PushPreserves DEF IInv
    <3> QED BY <3>1, <2>3, BlocksTypedNext
  <2>7. /\ Blocks \in Seq(Lbn)
        /\ Len(Blocks) = m
        /\ \A i \in 1 .. m : Blocks[i] = lbn[order[i]]
    BY BlocksTyped DEF IInv
  <2> HIDE DEF m
  <2>8. /\ Append(Blocks, l) \in Seq(Lbn)
        /\ Len(Append(Blocks, l)) = m + 1
        /\ \A i \in 1 .. m : Append(Blocks, l)[i] = Blocks[i]
        /\ Append(Blocks, l)[m + 1] = l
    BY <2>7, AppendProperties
  <2>9. \A i \in 1 .. m + 1 : Blocks'[i] = Append(Blocks, l)[i]
    <3> SUFFICES ASSUME NEW i \in 1 .. m + 1
                 PROVE  Blocks'[i] = Append(Blocks, l)[i]
      OBVIOUS
    <3>1. CASE i = m + 1
      BY <3>1, <2>5, <2>6, <2>8
    <3>2. CASE i # m + 1
      <4>1. i \in 1 .. m
        BY <3>2, <2>1
      <4> QED BY <4>1, <2>4, <2>6, <2>7, <2>8
    <3> QED BY <3>1, <3>2
  <2> QED BY <2>6, <2>8, <2>9, SeqEqual
<1> QED BY <1>2, <1>3 DEF Push, Fifo!Push

LEMMA PopRefines ==
    ASSUME IInv, Pop
    PROVE  Fifo!Pop
<1> DEFINE m == Len(order)
<1>1. /\ m \in Nat /\ m > 0
      /\ head = order[1]
      /\ order \in Seq(Node)
  BY HeadIsFrontOfOrder, Indices DEF Pop, IInv, TypeOK
<1>2. /\ Blocks \in Seq(Lbn)
      /\ Len(Blocks) = m
      /\ \A i \in 1 .. m : Blocks[i] = lbn[order[i]]
  BY BlocksTyped DEF IInv
<1>3. /\ Len(order') = m - 1
      /\ \A i \in 1 .. m - 1 : order'[i] = order[i + 1]
  BY <1>1 DEF Pop
<1>4. /\ Blocks' \in Seq(Lbn)
      /\ Len(Blocks') = m - 1
      /\ \A i \in 1 .. m - 1 : Blocks'[i] = lbn'[order'[i]]
  <2>1. TypeOK'
    BY PopPreserves DEF IInv
  <2> QED BY <2>1, <1>3, BlocksTypedNext
<1>5. lbn' = lbn /\ popped' = {lbn[head]}
  BY DEF Pop
<1> HIDE DEF m
<1>6. /\ Blocks # << >>
      /\ Tail(Blocks) \in Seq(Lbn)
      /\ Len(Tail(Blocks)) = m - 1
      /\ \A i \in 1 .. m - 1 : Tail(Blocks)[i] = Blocks[i + 1]
  <2>1. Blocks # << >>
    BY <1>1, <1>2
  <2> QED BY <2>1, <1>2, HeadTailProperties
<1>7. \A i \in 1 .. m - 1 : Blocks'[i] = Tail(Blocks)[i]
  <2> SUFFICES ASSUME NEW i \in 1 .. m - 1
               PROVE  Blocks'[i] = Tail(Blocks)[i]
    OBVIOUS
  <2>1. i + 1 \in 1 .. m
    BY <1>1
  <2> QED BY <2>1, <1>2, <1>3, <1>4, <1>5, <1>6
<1>8. Blocks' = Tail(Blocks)
  BY <1>4, <1>6, <1>7, SeqEqual
<1>9. Head(Blocks) = lbn[head] /\ Blocks # << >>
  <2>1. 1 \in 1 .. m
    BY <1>1
  <2> QED BY <2>1, <1>1, <1>2
<1> QED BY <1>5, <1>8, <1>9 DEF Pop, Fifo!Pop

LEMMA HangRefines ==
    ASSUME IInv, PushFull \/ PopEmpty
    PROVE  Fifo!PushFull \/ Fifo!PopEmpty
<1>1. /\ Blocks \in Seq(Lbn)
      /\ Len(Blocks) = Len(order)
      /\ Len(order) \in Nat
      /\ Len(pool) \in Nat
      /\ Len(order) + Len(pool) = NumNodes
  BY BlocksTyped, Indices DEF IInv, NodesConserved
<1>2. Blocks' = Blocks
  BY DEF PushFull, PopEmpty, Blocks
<1>3. CASE PushFull
  <2>1. Len(pool) = 0
    <3>1. CASE Len(pool) > 0
      <4>1. pool[1] \in Node
        BY <3>1, <1>1, Indices DEF IInv
      <4> QED BY <1>3, <3>1, <4>1, NullIsNoNode DEF PushFull, IInv, PointersSpellLists, First
    <3> QED BY <1>1, <3>1
  <2> QED BY <1>1, <1>2, <1>3, <2>1 DEF PushFull, Fifo!PushFull
<1>4. CASE PopEmpty
  <2>1. Len(order) = 0
    <3>1. CASE Len(order) > 0
      <4>1. order[1] \in Node
        BY <3>1, <1>1, Indices DEF IInv
      <4> QED BY <1>4, <3>1, <4>1, NullIsNoNode DEF PopEmpty, IInv, PointersSpellLists, First
    <3> QED BY <1>1, <3>1
  <2>2. Blocks = << >>
    BY <1>1, <2>1
  <2> QED BY <1>2, <1>4, <2>2 DEF PopEmpty, Fifo!PopEmpty
<1> QED BY <1>3, <1>4

(* cleanList.c implements the bounded queue log.c and                      *)
(* garbage_collection.c rely on, for every arena: blocks leave in the      *)
(* order in which they were erased, and the while(1) of a push or pop is   *)
(* reached only with a full or an empty queue.                             *)
THEOREM CleanListIsAFifo == Spec => ImplementsFifo
<1>1. Init => Fifo!Init
  <2>1. Init => Blocks = << >>
    BY DEF Init, Blocks
  <2> QED BY <2>1 DEF Init, Fifo!Init
<1>2. IInv /\ [Next]_vars => [Fifo!Next]_(Fifo!vars)
  <2> SUFFICES ASSUME IInv, [Next]_vars
               PROVE  [Fifo!Next]_(Fifo!vars)
    OBVIOUS
  <2>1. CASE \E l \in Lbn : Push(l)
    BY <2>1, PushRefines DEF Fifo!Next
  <2>2. CASE Pop
    BY <2>2, PopRefines DEF Fifo!Next
  <2>3. CASE PushFull \/ PopEmpty
    BY <2>3, HangRefines DEF Fifo!Next
  <2>4. CASE UNCHANGED vars
    BY <2>4 DEF vars, Fifo!vars, Blocks
  <2> QED BY <2>1, <2>2, <2>3, <2>4 DEF Next
<1> QED BY <1>1, <1>2, InitEstablishes, StepPreserves, PTL DEF Spec, ImplementsFifo, Fifo!Spec
=============================================================================

-------------------------- MODULE ValidHeapProofs ---------------------------
(***************************************************************************)
(* Proofs about the victim heap, for heaps of every size.                  *)
(*                                                                         *)
(* That the two arrays stay inverse to each other rests on the swaps alone *)
(* (SwapKeepsInverse).  That the heap stays ordered needs to know, while   *)
(* an element is on its way, that the elements around it could be joined   *)
(* without it: Bridged.                                                    *)
(*                                                                         *)
(* That the heap is a pool (HeapIsAPool) rests on the order: the first of  *)
(* an ordered heap is a least one (RootIsLeast); and on the arrays being   *)
(* inverse: a swap takes an element to where its block is then said to be, *)
(* so that it moves no count (SwapMovesElements).                          *)
(***************************************************************************)
EXTENDS ValidHeap, TLAPS, WellFoundedInduction

Element == [lbn : Blk, value : 0 .. Full]

(* The two arrays, e and s, are inverse to each other. *)
Inverse(e, s) == /\ \A l \in Blk : e[s[l]].lbn = l
                 /\ \A p \in Pos : s[e[p].lbn] = p

(* What a swap does to arrays that are inverse: they stay so. *)
LEMMA SwapKeepsInverse ==
    ASSUME NEW e \in [Pos -> Element], pos \in [Blk -> Pos], Inverse(e, pos),
           NEW p \in Pos, NEW q \in Pos
    PROVE  /\ SwappedEl(e, p, q) \in [Pos -> Element]
           /\ SwappedPos(e, p, q) \in [Blk -> Pos]
           /\ Inverse(SwappedEl(e, p, q), SwappedPos(e, p, q))
<1> DEFINE f == SwappedEl(e, p, q)
           s == SwappedPos(e, p, q)
<1>1. f \in [Pos -> Element]
  BY DEF SwappedEl
<1>2. /\ e[p].lbn \in Blk
      /\ e[q].lbn \in Blk
  BY DEF Element
<1>3. s \in [Blk -> Pos]
  BY <1>2 DEF SwappedPos
<1>4. \A r \in Pos : f[r] = IF r = q THEN e[p] ELSE IF r = p THEN e[q] ELSE e[r]
  BY DEF SwappedEl
<1>5. \A l \in Blk : s[l] = IF l = e[q].lbn THEN p ELSE IF l = e[p].lbn THEN q ELSE pos[l]
  BY <1>2 DEF SwappedPos
<1>6. \A r \in Pos : e[r].lbn \in Blk
  BY DEF Element
<1>7. ASSUME NEW l \in Blk
      PROVE  f[s[l]].lbn = l
  BY <1>4, <1>5, <1>6 DEF Inverse
<1>8. ASSUME NEW r \in Pos
      PROVE  s[f[r].lbn] = r
  BY <1>4, <1>5, <1>6 DEF Inverse
<1> HIDE DEF f, s
<1>9. Inverse(f, s)
  BY <1>7, <1>8 DEF Inverse
<1> QED
  BY <1>1, <1>3, <1>9 DEF f, s

-----------------------------------------------------------------------------
(* The arrays have their types and are inverse to each other. *)
Arrays == TypeOK /\ PositionsInverse

LEMMA ArraysInit == Init => Arrays
<1> SUFFICES ASSUME Init PROVE Arrays
  OBVIOUS
<1> USE HeapAssumption
<1>1. /\ el \in [Pos -> Element]
      /\ \A p \in Pos : el[p].lbn = p - 1
  BY DEF Init, Element, Blk, Pos
<1>2. /\ pos \in [Blk -> Pos]
      /\ \A l \in Blk : pos[l] = l + 1
  BY DEF Init, Blk, Pos
<1>3. PositionsInverse
  BY <1>1, <1>2 DEF PositionsInverse, Blk, Pos
<1>4. nEl \in 0 .. NumBlks
  BY DEF Init
<1>6. hung \in BOOLEAN
  BY ZenonT(10) DEF Init
<1>5. bubble \in [dir : {"none", "up", "down"}, at : Pos]
  <2>1. 1 \in Pos
    BY DEF Pos
  <2> QED
    BY <2>1 DEF Init, Still
<1> QED
  BY <1>1, <1>2, <1>3, <1>4, <1>5, <1>6 DEF Arrays, TypeOK, Element

LEMMA ArraysNext == Arrays /\ [Next]_vars => Arrays'
<1> SUFFICES ASSUME Arrays, [Next]_vars PROVE Arrays'
  OBVIOUS
<1> USE HeapAssumption
<1>0. /\ TypeOK
      /\ Inverse(el, pos)
      /\ el \in [Pos -> Element]
      /\ pos \in [Blk -> Pos]
  BY DEF Arrays, TypeOK, PositionsInverse, Inverse, Element
<1>1. ASSUME NEW e \in [Pos -> Element], Inverse(e, pos), NEW p \in Pos, NEW q \in Pos,
             Swap(e, p, q),
             nEl' \in 0 .. NumBlks, bubble' \in [dir : {"none", "up", "down"}, at : Pos],
             hung' \in BOOLEAN
      PROVE  Arrays'
  <2>1. /\ el' \in [Pos -> Element]
        /\ pos' \in [Blk -> Pos]
        /\ Inverse(el', pos')
    BY <1>0, <1>1, SwapKeepsInverse DEF Swap
  <2> QED
    BY <1>1, <2>1 DEF Arrays, TypeOK, PositionsInverse, Inverse, Element
<1>2. ASSUME NEW l \in Blk, Insert(l) PROVE Arrays'
  <2>1. pos[l] \in Pos /\ nEl + 1 \in Pos
    BY <1>0, <1>2 DEF Insert, InHeap, Pos, TypeOK
  <2>2. Swap(el, pos[l], nEl + 1) /\ nEl' \in 0 .. NumBlks
    BY <1>2, <2>1 DEF Insert, Pos
  <2>3. bubble' \in [dir : {"none", "up", "down"}, at : Pos] /\ hung' \in BOOLEAN
    BY <1>0, <1>2, <2>1 DEF Insert, BubbleFrom, Up, TypeOK
  <2> QED
    BY <1>0, <1>1, <2>1, <2>2, <2>3
<1>3. ASSUME NEW l \in Blk, NEW n \in 1 .. Full, Decrement(l, n) PROVE Arrays'
  <2>1. pos[l] \in Pos
    BY <1>0
  <2>2. el[pos[l]] \in Element
    BY <1>0, <2>1
  <2>3. el' = [el EXCEPT ![pos[l]].value = @ - n] /\ n <= el[pos[l]].value
    BY <1>3 DEF Decrement, Value
  <2>4. el[pos[l]].value - n \in 0 .. Full
    BY <2>2, <2>3 DEF Element
  <2> DEFINE v == el[pos[l]].value - n
  <2>7. el' = [el EXCEPT ![pos[l]].value = v]
    BY <2>3
  <2> HIDE DEF v
  <2>5. el' \in [Pos -> Element] /\ \A p \in Pos : el'[p].lbn = el[p].lbn
    BY <1>0, <2>1, <2>2, <2>7, <2>4 DEF Element, v
  <2>6. bubble' \in [dir : {"none", "up", "down"}, at : Pos]
    BY <1>3, <2>1 DEF Decrement, Up, Still, Pos
  <2> QED
    BY <1>0, <1>3, <2>5, <2>6 DEF Decrement, Arrays, TypeOK, PositionsInverse, Element
<1>4. ASSUME NEW l \in Blk, NEW v \in 0 .. Full, Set(l, v) PROVE Arrays'
  <2>1. pos[l] \in Pos
    BY <1>0
  <2>2. el[pos[l]] \in Element
    BY <1>0, <2>1
  <2>3. el' = [el EXCEPT ![pos[l]] = [@ EXCEPT !.value = v]]
    BY <1>4 DEF Set
  <2>5. el' \in [Pos -> Element] /\ \A p \in Pos : el'[p].lbn = el[p].lbn
    BY <1>0, <2>1, <2>2, <2>3 DEF Element
  <2> QED
    BY <1>0, <1>4, <2>5 DEF Set, Arrays, TypeOK, PositionsInverse, Element
<1>5. ASSUME NEW l \in Blk, DecrementZero(l) \/ SetInserted(l) PROVE Arrays'
  BY <1>5 DEF DecrementZero, SetInserted, Arrays, TypeOK, PositionsInverse
<1>6. CASE Remove
  <2> DEFINE e == [el EXCEPT ![1].value = Full]
  <2>1. 1 \in Pos /\ nEl \in Pos
    BY <1>0, <1>6 DEF Remove, Pos, TypeOK
  <2>2. e \in [Pos -> Element] /\ \A p \in Pos : e[p].lbn = el[p].lbn
    BY <1>0, <2>1 DEF Element
  <2>3. Inverse(e, pos)
    BY <1>0, <2>2 DEF Inverse
  <2>4. Swap(e, 1, nEl)
    BY <1>6 DEF Remove
  <2>5. nEl' \in 0 .. NumBlks /\ bubble' \in [dir : {"none", "up", "down"}, at : Pos] /\ hung' \in BOOLEAN
    BY <1>0, <1>6, <2>1 DEF Remove, Down, TypeOK
  <2> HIDE DEF e
  <2> QED
    BY <1>1, <2>1, <2>2, <2>3, <2>4, <2>5
<1>7. CASE BubbleUp
  <2> DEFINE p == bubble.at
  <2>1. p \in Pos
    BY <1>0 DEF TypeOK
  <2>2. p > 1 => p \div 2 \in Pos
    BY <2>1 DEF Pos
  <2>3. CASE Swap(el, p, p \div 2) /\ bubble' = Up(p \div 2) /\ p > 1
    BY <1>0, <1>1, <1>7, <2>1, <2>2, <2>3 DEF BubbleUp, Up, TypeOK
  <2>4. CASE Stops
    BY <1>0, <1>7, <2>4 DEF BubbleUp, Stops, Still, Pos, Arrays, TypeOK, PositionsInverse
  <2> QED
    BY <1>7, <2>3, <2>4 DEF BubbleUp
<1>8. CASE BubbleDown
  <2> DEFINE f == bubble.at
  <2>1. f \in Pos
    BY <1>0 DEF TypeOK
  <2>2. CASE Swap(el, f, Child(f)) /\ bubble' = Down(Child(f)) /\ 2 * f <= nEl
    <3>1. Child(f) \in Pos
      <4>1. 2 * f \in Pos /\ (~(2 * f + 1 > nEl) => 2 * f + 1 \in Pos)
        <5>1. nEl \in 0 .. NumBlks /\ 2 * f <= nEl
          BY <1>0, <2>2 DEF TypeOK
        <5> HIDE DEF f
        <5> QED
          BY <2>1, <5>1 DEF Pos
      <4> QED
        BY <4>1 DEF Child
    <3> QED
      BY <1>0, <1>1, <1>8, <2>1, <2>2, <3>1 DEF BubbleDown, Down, TypeOK
  <2>3. CASE Stops
    BY <1>0, <1>8, <2>3 DEF BubbleDown, Stops, Still, Pos, Arrays, TypeOK, PositionsInverse
  <2> QED
    BY <1>8, <2>2, <2>3 DEF BubbleDown
<1>9. CASE UNCHANGED vars
  BY <1>9 DEF vars, Arrays, TypeOK, PositionsInverse, Value
<1> QED
  BY <1>2, <1>3, <1>4, <1>5, <1>6, <1>7, <1>8, <1>9 DEF Next

(* Every variable has its type, in every heap. *)
THEOREM HeapTypeCorrect == Spec => []TypeOK
<1>1. Arrays => TypeOK
  BY DEF Arrays
<1> QED
  BY ArraysInit, ArraysNext, <1>1, PTL DEF Spec

(* heap.c never finds an element that "doesn't correpond to lbn": the      *)
(* positions and the elements lead to each other whatever is swapped.      *)
THEOREM PositionsAreInverse == Spec => []PositionsInverse
<1>1. Arrays => PositionsInverse
  BY DEF Arrays
<1> QED
  BY ArraysInit, ArraysNext, <1>1, PTL DEF Spec

-----------------------------------------------------------------------------
(* The order of the heap, of values v and n elements, while the element at *)
(* h is on its way up or down (dir).                                       *)

(* No element has a lesser one below it, but for the one on its way. *)
OrderedBut(v, n, dir, h) ==
    \A p \in 2 .. n : \/ v[p \div 2] <= v[p]
                      \/ dir = "up" /\ p = h
                      \/ dir = "down" /\ p \div 2 = h

(* The father of the element on its way is not greater than its children. *)
Bridged(v, n, dir, h) ==
    dir # "none" /\ h > 1 => \A c \in 2 .. n : c \div 2 = h => v[h \div 2] <= v[c]

Exchanged(v, p, q) == [v EXCEPT ![p] = v[q], ![q] = v[p]]

LEMMA Halves ==
    /\ \A p \in Nat : p > 1 => p \div 2 \in Nat /\ p \div 2 >= 1 /\ p \div 2 < p
    /\ \A p \in Nat : p = 2 * (p \div 2) \/ p = 2 * (p \div 2) + 1
    /\ \A f \in Nat : (2 * f) \div 2 = f /\ (2 * f + 1) \div 2 = f
  OBVIOUS

(* One iteration of bubbleUp keeps the order but for the element. *)
LEMMA RiseKeepsOrder ==
    ASSUME NEW v \in [Pos -> 0 .. Full], NEW n \in 0 .. NumBlks, NEW p \in 2 .. n,
           OrderedBut(v, n, "up", p), Bridged(v, n, "up", p), v[p] < v[p \div 2]
    PROVE  LET w == Exchanged(v, p, p \div 2)
           IN  OrderedBut(w, n, "up", p \div 2) /\ Bridged(w, n, "up", p \div 2)
<1> DEFINE f == p \div 2
           w == Exchanged(v, p, f)
<1> USE HeapAssumption
<1>1. p \in Pos /\ f \in Pos /\ f < p
  BY Halves DEF Pos
<1>2. \A q \in Pos : w[q] = IF q = f THEN v[p] ELSE IF q = p THEN v[f] ELSE v[q]
  BY <1>1 DEF Exchanged
<1>3. \A q \in Pos : v[q] \in Int
  OBVIOUS
<1>4. \A q \in 2 .. n : q \in Pos /\ q \div 2 \in Pos /\ q \div 2 < q
  BY Halves DEF Pos
<1>5. v[p] < v[f] /\ p > 1 /\ f = p \div 2
  OBVIOUS
<1>6. \A q \in 2 .. n : q # p => v[q \div 2] <= v[q]
  BY DEF OrderedBut
<1>7. \A c \in 2 .. n : c \div 2 = p => v[f] <= v[c]
  BY <1>5 DEF Bridged
<1> HIDE DEF f, w
<1>8. ASSUME NEW q \in 2 .. n, q # f PROVE w[q \div 2] <= w[q]
  BY <1>1, <1>2, <1>3, <1>4, <1>5, <1>6, <1>7, <1>8
<1>9. ASSUME f > 1, NEW c \in 2 .. n, c \div 2 = f PROVE w[f \div 2] <= w[c]
  <2>1. f \in 2 .. n
    BY <1>1, <1>9 DEF Pos
  <2>2. v[f \div 2] <= v[f] /\ f \div 2 < f /\ f \div 2 \in Pos
    BY <2>1, <1>1, <1>4, <1>6
  <2> QED
    BY <1>1, <1>2, <1>3, <1>4, <1>6, <1>9, <2>1, <2>2
<1> QED
  BY <1>8, <1>9 DEF OrderedBut, Bridged, f, w

(* One iteration of bubbleDown keeps the order but for the element. *)
LEMMA SinkKeepsOrder ==
    ASSUME NEW v \in [Pos -> 0 .. Full], NEW n \in 0 .. NumBlks,
           NEW f \in Pos, NEW c \in 2 .. n, c \div 2 = f, v[c] < v[f],
           \A k \in 2 .. n : k \div 2 = f => v[c] <= v[k],
           OrderedBut(v, n, "down", f), Bridged(v, n, "down", f)
    PROVE  LET w == Exchanged(v, f, c)
           IN  OrderedBut(w, n, "down", c) /\ Bridged(w, n, "down", c)
<1> DEFINE w == Exchanged(v, f, c)
<1> USE HeapAssumption
<1>1. c \in Pos /\ f < c
  BY Halves DEF Pos
<1>2. \A q \in Pos : w[q] = IF q = c THEN v[f] ELSE IF q = f THEN v[c] ELSE v[q]
  BY <1>1 DEF Exchanged
<1>3. \A q \in Pos : v[q] \in Int
  OBVIOUS
<1>4. \A q \in 2 .. n : q \in Pos /\ q \div 2 \in Pos /\ q \div 2 < q
  BY Halves DEF Pos
<1>6. \A q \in 2 .. n : q \div 2 # f => v[q \div 2] <= v[q]
  BY DEF OrderedBut
<1>7. f > 1 => v[f \div 2] <= v[c]
  BY DEF Bridged
<1> HIDE DEF w
<1>8. ASSUME NEW q \in 2 .. n, q \div 2 # c PROVE w[q \div 2] <= w[q]
  <2>1. CASE q \div 2 = f
    BY <1>1, <1>2, <1>3, <1>4, <2>1
  <2>2. CASE q = f
    <3>1. f > 1 /\ f \div 2 \in Pos /\ f \div 2 # f /\ f \div 2 # c
      BY <1>1, <1>4, <2>2 DEF Pos
    <3> QED
      BY <1>1, <1>2, <1>7, <2>2, <3>1
  <2>3. CASE q \div 2 # f /\ q # f
    BY <1>1, <1>2, <1>4, <1>6, <1>8, <2>3
  <2> QED
    BY <2>1, <2>2, <2>3
<1>9. ASSUME NEW k \in 2 .. n, k \div 2 = c PROVE w[c \div 2] <= w[k]
  BY <1>1, <1>2, <1>3, <1>4, <1>6, <1>9
<1> QED
  BY <1>8, <1>9 DEF OrderedBut, Bridged, w

-----------------------------------------------------------------------------
Values == [p \in Pos |-> Value(p)]
Ordering == /\ OrderedBut(Values, nEl, bubble.dir, bubble.at)
            /\ Bridged(Values, nEl, bubble.dir, bubble.at)
            /\ bubble.dir = "up" => bubble.at <= nEl

HeapInv == Arrays /\ Ordering

(* A heap in which nothing is on its way is ordered throughout. *)
LEMMA OrderedAtRest ==
    ASSUME NEW v, NEW n, NEW h, OrderedBut(v, n, "none", h)
    PROVE  \A p \in 2 .. n : v[p \div 2] <= v[p]
  BY DEF OrderedBut

(* A value that sinks in an ordered heap has only to rise. *)
LEMMA LesserMayRise ==
    ASSUME NEW v \in [Pos -> 0 .. Full], NEW n \in 0 .. NumBlks, NEW h \in 1 .. n,
           NEW w \in [Pos -> 0 .. Full],
           \A p \in 2 .. n : v[p \div 2] <= v[p],
           \A p \in 1 .. n : p # h => w[p] = v[p],
           w[h] <= v[h]
    PROVE  OrderedBut(w, n, "up", h) /\ Bridged(w, n, "up", h)
<1> USE HeapAssumption
<1>1. \A q \in 2 .. n : q \in Pos /\ q \div 2 \in 1 .. n /\ q \div 2 < q
  BY Halves DEF Pos
<1>2. \A q \in 1 .. n : v[q] \in Int /\ w[q] \in Int /\ q \in Pos
  BY DEF Pos
<1>3. ASSUME NEW q \in 2 .. n, q # h PROVE w[q \div 2] <= w[q]
  BY <1>1, <1>2, <1>3
<1>4. ASSUME h > 1, NEW c \in 2 .. n, c \div 2 = h PROVE w[h \div 2] <= w[c]
  <2>1. h \in 2 .. n
    BY <1>4
  <2>2. v[h \div 2] <= v[h] /\ v[h] <= v[c] /\ w[h \div 2] = v[h \div 2] /\ w[c] = v[c]
    BY <1>1, <1>4, <2>1
  <2> QED
    BY <1>1, <1>2, <2>1, <2>2
<1> QED
  BY <1>3, <1>4 DEF OrderedBut, Bridged

LEMMA OrderingInit == Init => Ordering
  BY DEF Init, Still, Ordering, OrderedBut, Bridged

LEMMA OrderingNext == Arrays /\ Ordering /\ [Next]_vars => Ordering'
<1> SUFFICES ASSUME Arrays, Ordering, [Next]_vars PROVE Ordering'
  OBVIOUS
<1> USE HeapAssumption
<1>0. /\ el \in [Pos -> Element]
      /\ pos \in [Blk -> Pos]
      /\ nEl \in 0 .. NumBlks
      /\ bubble.at \in Pos
      /\ Inverse(el, pos)
  BY DEF Arrays, TypeOK, PositionsInverse, Inverse, Element
<1>1. Arrays'
  BY ArraysNext
<1>2. /\ el' \in [Pos -> Element]
      /\ nEl' \in 0 .. NumBlks
  BY <1>1 DEF Arrays, TypeOK, Element
<1>3. /\ Values \in [Pos -> 0 .. Full]
      /\ Values' \in [Pos -> 0 .. Full]
  BY <1>0, <1>2 DEF Values, Value, Element
<1>4. \A p \in Pos : Values[p] = el[p].value /\ Values'[p] = el'[p].value
  BY DEF Values, Value
<1>5. ASSUME Ready PROVE \A p \in 2 .. nEl : Values[p \div 2] <= Values[p]
  BY <1>5, OrderedAtRest DEF Ready, Still, Ordering
<1>15. \A p \in 2 .. nEl : p \in Pos /\ p \div 2 \in Pos /\ p \div 2 < p
  BY <1>0, Halves DEF Pos
<1>6. ASSUME NEW l \in Blk, Insert(l) PROVE Ordering'
  <2>1. /\ Ready
        /\ pos[l] \in Pos
        /\ nEl' = nEl + 1
        /\ nEl < pos[l]
        /\ nEl + 1 \in Pos
        /\ bubble'.dir = "up"
        /\ bubble'.at = nEl + 1
    BY <1>0, <1>6 DEF Insert, InHeap, BubbleFrom, Up, Pos
  <2>2. \A p \in 1 .. nEl : Values'[p] = Values[p]
    <3>1. el' = SwappedEl(el, pos[l], nEl + 1)
      BY <1>6 DEF Insert, Swap
    <3>2. \A p \in 1 .. nEl : p \in Pos /\ p # pos[l] /\ p # nEl + 1
      BY <1>0, <2>1 DEF Pos
    <3> QED
      BY <1>0, <1>4, <3>1, <3>2 DEF SwappedEl
  <2>3. \A p \in 2 .. nEl : Values'[p \div 2] <= Values'[p]
    BY <1>0, <1>5, <2>1, <2>2, Halves
  <2>4. \A c \in 2 .. nEl + 1 : c \div 2 # nEl + 1
    BY <1>0, Halves
  <2>5. OrderedBut(Values', nEl + 1, "up", nEl + 1)
    BY <1>0, <2>3 DEF OrderedBut
  <2>6. Bridged(Values', nEl + 1, "up", nEl + 1)
    BY <2>4 DEF Bridged
  <2> QED
    BY <1>0, <2>1, <2>5, <2>6 DEF Ordering
<1>7. ASSUME NEW l \in Blk, NEW n \in 1 .. Full, Decrement(l, n) PROVE Ordering'
  <2> DEFINE h == pos[l]
  <2>1. /\ Ready
        /\ h \in Pos
        /\ nEl' = nEl
        /\ el' = [el EXCEPT ![h].value = @ - n]
    BY <1>0, <1>7 DEF Decrement
  <2>2. /\ \A p \in Pos : p # h => Values'[p] = Values[p]
        /\ Values'[h] <= Values[h]
    <3>1. \A p \in Pos : p # h => el'[p] = el[p]
      BY <1>0, <2>1
    <3>2. el'[h].value = el[h].value - n
      BY <1>0, <2>1 DEF Element
    <3>3. el[h].value \in Int /\ n \in Nat
      BY <1>0, <2>1 DEF Element
    <3> QED
      BY <1>4, <2>1, <3>1, <3>2, <3>3
  <2>3. CASE InHeap(l)
    <3>1. bubble'.dir = "up" /\ bubble'.at = h /\ h \in 1 .. nEl
      BY <1>0, <1>7, <2>1, <2>3 DEF Decrement, InHeap, Up, Pos
    <3>2. OrderedBut(Values', nEl, "up", h) /\ Bridged(Values', nEl, "up", h)
      <4>1. \A p \in 1 .. nEl : p # h => Values'[p] = Values[p]
        BY <1>0, <2>2 DEF Pos
      <4> HIDE DEF h
      <4> QED
        BY <1>0, <1>3, <1>5, <2>1, <2>2, <3>1, <4>1, LesserMayRise
    <3> QED
      BY <1>0, <2>1, <3>1, <3>2 DEF Ordering
  <2>4. CASE ~InHeap(l)
    <3>1. bubble'.dir = "none" /\ nEl < h
      BY <1>0, <1>7, <2>1, <2>4 DEF Decrement, InHeap, Still, Pos
    <3>2. \A p \in 2 .. nEl : Values'[p \div 2] <= Values'[p]
      <4>1. \A p \in 2 .. nEl : p \in Pos /\ p # h /\ p \div 2 \in Pos /\ p \div 2 # h
        BY <1>0, <1>15, <2>1, <3>1 DEF Pos
      <4> QED
        BY <1>5, <2>1, <2>2, <4>1
    <3> QED
      BY <2>1, <3>1, <3>2 DEF Ordering, OrderedBut, Bridged
  <2> QED
    BY <2>3, <2>4
<1>8. ASSUME NEW l \in Blk, NEW v \in 0 .. Full, Set(l, v) PROVE Ordering'
  <2> DEFINE h == pos[l]
  <2>1. /\ Ready
        /\ h \in Pos
        /\ nEl' = nEl
        /\ nEl < h
        /\ bubble'.dir = "none"
        /\ el' = [el EXCEPT ![h].value = v]
    BY <1>0, <1>8 DEF Set, Ready, InHeap, Still, Pos
  <2>2. \A p \in Pos : p # h => Values'[p] = Values[p]
    BY <1>0, <1>4, <2>1
  <2>3. \A p \in 2 .. nEl : p \in Pos /\ p # h /\ p \div 2 \in Pos /\ p \div 2 # h
    BY <1>0, <1>15, <2>1 DEF Pos
  <2>4. \A p \in 2 .. nEl : Values'[p \div 2] <= Values'[p]
    BY <1>5, <2>1, <2>2, <2>3
  <2> QED
    BY <2>1, <2>4 DEF Ordering, OrderedBut, Bridged
<1>9. ASSUME NEW l \in Blk, DecrementZero(l) \/ SetInserted(l) PROVE Ordering'
  BY <1>9 DEF DecrementZero, SetInserted, Ordering, Values, Value
<1>10. CASE Remove
  <2>1. /\ Ready
        /\ nEl \in Pos
        /\ nEl' = nEl - 1
        /\ bubble'.dir = "down"
        /\ bubble'.at = 1
    BY <1>0, <1>10 DEF Remove, Down, Pos
  <2>2. \A p \in Pos : p # 1 /\ p # nEl => el'[p] = el[p]
    BY <1>0, <1>10, <2>1 DEF Remove, Swap, SwappedEl, Pos
  <2>3. ASSUME NEW p \in 2 .. nEl - 1, p \div 2 # 1 PROVE Values'[p \div 2] <= Values'[p]
    <3>1. /\ p \in Pos /\ p # 1 /\ p # nEl /\ p \in 2 .. nEl
          /\ p \div 2 \in Pos /\ p \div 2 # nEl
      BY <1>0, <2>1, <2>3, Halves DEF Pos
    <3> QED
      BY <1>4, <1>5, <2>1, <2>2, <2>3, <3>1
  <2> QED
    BY <1>0, <2>1, <2>3 DEF Ordering, OrderedBut, Bridged
<1>11. ASSUME NEW p \in Pos, NEW q \in Pos, Swap(el, p, q)
       PROVE  Values' = Exchanged(Values, p, q)
  <2>1. \A r \in Pos : el'[r] = IF r = q THEN el[p] ELSE IF r = p THEN el[q] ELSE el[r]
    BY <1>0, <1>11 DEF Swap, SwappedEl
  <2>2. \A r \in Pos : Values'[r] = Exchanged(Values, p, q)[r]
    BY <1>3, <1>4, <2>1 DEF Exchanged
  <2> QED
    BY <1>3, <2>2 DEF Exchanged
<1>12. CASE BubbleUp
  <2> DEFINE p == bubble.at
             f == p \div 2
  <2>1. bubble.dir = "up" /\ nEl' = nEl /\ p \in Pos /\ p <= nEl
    BY <1>0, <1>12 DEF BubbleUp, Ordering
  <2>2. CASE p > 1 /\ Value(p) < Value(f)
    <3>1. Swap(el, p, f) /\ bubble'.dir = "up" /\ bubble'.at = f
      BY <1>12, <2>2 DEF BubbleUp, Up
    <3>2. f \in Pos /\ p \in 2 .. nEl /\ f <= nEl
      BY <1>0, <2>1, <2>2, Halves DEF Pos
    <3>3. Values[p] < Values[f]
      BY <2>1, <2>2, <3>2 DEF Values
    <3>4. Values' = Exchanged(Values, p, f)
      BY <1>11, <2>1, <3>1, <3>2
    <3>5. OrderedBut(Values, nEl, "up", p) /\ Bridged(Values, nEl, "up", p)
      BY <2>1 DEF Ordering
    <3>6. OrderedBut(Values', nEl, "up", f) /\ Bridged(Values', nEl, "up", f)
      BY <1>0, <1>3, <3>2, <3>3, <3>4, <3>5, RiseKeepsOrder
    <3> QED
      BY <2>1, <3>1, <3>2, <3>6 DEF Ordering
  <2>3. CASE ~(p > 1 /\ Value(p) < Value(f))
    <3>1. bubble'.dir = "none" /\ el' = el
      BY <1>12, <2>3 DEF BubbleUp, Stops, Still
    <3>2. \A k \in 2 .. nEl : Values[k \div 2] <= Values[k]
      <4>1. p \in 2 .. nEl => f \in Pos /\ Values[f] <= Values[p]
        <5>1. p \in 2 .. nEl => f \in Pos
          BY <1>0, <2>1, Halves DEF Pos
        <5> QED
          BY <1>3, <2>1, <2>3, <5>1 DEF Values
      <4>2. \A k \in 2 .. nEl : k # p => Values[k \div 2] <= Values[k]
        BY <2>1 DEF Ordering, OrderedBut
      <4> QED
        BY <4>1, <4>2
    <3> QED
      BY <2>1, <3>1, <3>2 DEF Ordering, OrderedBut, Bridged, Values, Value
  <2> QED
    BY <2>2, <2>3
<1>13. CASE BubbleDown
  <2> DEFINE f == bubble.at
             c == Child(f)
             Lesser == 2 * f <= nEl /\ \E k \in {2 * f, 2 * f + 1} : k <= nEl /\ Value(k) < Value(f)
  <2>1. bubble.dir = "down" /\ nEl' = nEl /\ f \in Pos
    BY <1>0, <1>13 DEF BubbleDown
  <2>2. \A k \in 2 .. nEl : k \in Pos /\ (k \div 2 = f <=> k \in {2 * f, 2 * f + 1})
    BY <1>0, <2>1, Halves DEF Pos
  <2>3. \A k \in Pos : Values[k] = Value(k) /\ Value(k) \in Int
    BY <1>3 DEF Values
  <2>4. CASE Lesser
    <3>1. Swap(el, f, c) /\ bubble'.dir = "down" /\ bubble'.at = c
      BY <1>13, <2>4 DEF BubbleDown, Down
    <3>2. /\ c \in 2 .. nEl
          /\ c \div 2 = f
      <4>1. 2 * f \in 2 .. nEl /\ (~(2 * f + 1 > nEl) => 2 * f + 1 \in 2 .. nEl)
        BY <1>0, <2>1, <2>4 DEF Pos
      <4> QED
        BY <2>2, <4>1 DEF Child
    <3>3. \A k \in 2 .. nEl : k \div 2 = f => Values[c] <= Values[k]
      <4>1. 2 * f \in 2 .. nEl
        BY <1>0, <2>1, <2>4 DEF Pos
      <4>2. 2 * f + 1 \in 2 .. nEl \/ 2 * f + 1 > nEl
        BY <1>0, <2>1, <4>1 DEF Pos
      <4>3. ASSUME NEW k \in 2 .. nEl, k \div 2 = f PROVE Values[c] <= Values[k]
        <5>1. k = 2 * f \/ (k = 2 * f + 1 /\ ~(2 * f + 1 > nEl))
          BY <1>0, <2>1, <2>2, <4>3
        <5>2. Value(2 * f) \in Int /\ Value(k) \in Int /\ (~(2 * f + 1 > nEl) => Value(2 * f + 1) \in Int)
          BY <2>2, <2>3, <4>1, <4>2
        <5>3. Value(c) <= Value(k)
          <6> HIDE DEF f, Lesser
          <6> QED
            BY <5>1, <5>2 DEF Child
        <5> QED
          BY <2>2, <2>3, <3>2, <5>3
      <4> QED
        BY <4>3
    <3>4. Values[c] < Values[f]
      <4>1. PICK k \in {2 * f, 2 * f + 1} : k <= nEl /\ Value(k) < Value(f)
        BY <2>4
      <4>2. k \in 2 .. nEl
        BY <1>0, <2>1, <4>1 DEF Pos
      <4>3. Values[c] <= Values[k] /\ Values[k] < Values[f]
        BY <2>1, <2>2, <2>3, <3>3, <4>1, <4>2
      <4>4. Values[c] \in Int /\ Values[k] \in Int /\ Values[f] \in Int
        BY <2>1, <2>2, <2>3, <3>2, <4>2
      <4> HIDE DEF c, f
      <4> QED
        BY <4>3, <4>4
    <3>5. Values' = Exchanged(Values, f, c)
      BY <1>11, <2>1, <2>2, <3>1, <3>2
    <3>6. OrderedBut(Values, nEl, "down", f) /\ Bridged(Values, nEl, "down", f)
      BY <2>1 DEF Ordering
    <3>7. OrderedBut(Values', nEl, "down", c) /\ Bridged(Values', nEl, "down", c)
      <4> HIDE DEF c, f
      <4> QED
        BY <1>0, <1>3, <2>1, <3>2, <3>3, <3>4, <3>5, <3>6, SinkKeepsOrder
    <3> QED
      BY <2>1, <3>1, <3>7 DEF Ordering
  <2>5. CASE ~Lesser
    <3>1. bubble'.dir = "none" /\ el' = el
      BY <1>13, <2>5 DEF BubbleDown, Stops, Still
    <3>2. \A k \in 2 .. nEl : k \div 2 # f => Values[k \div 2] <= Values[k]
      BY <2>1 DEF Ordering, OrderedBut
    <3>3. ASSUME NEW k \in 2 .. nEl, k \div 2 = f PROVE Values[f] <= Values[k]
      <4>1. k \in {2 * f, 2 * f + 1} /\ k <= nEl /\ 2 * f <= nEl
        BY <1>0, <2>1, <2>2, <3>3 DEF Pos
      <4>2. ~(Value(k) < Value(f))
        BY <2>5, <4>1
      <4> QED
        BY <2>1, <2>2, <2>3, <4>2
    <3> QED
      BY <2>1, <3>1, <3>2, <3>3 DEF Ordering, OrderedBut, Bridged, Values, Value
  <2> QED
    BY <2>4, <2>5
<1>14. CASE UNCHANGED vars
  BY <1>14 DEF vars, Ordering, Values, Value
<1> QED
  BY <1>6, <1>7, <1>8, <1>9, <1>10, <1>12, <1>13, <1>14 DEF Next

(* Whatever is inserted, decremented and removed, and at every swap, no    *)
(* element of the heap has a lesser one below it but for the one on its    *)
(* way.                                                                    *)
THEOREM HeapIsOrdered == Spec => []HeapOrdered
<1>1. Init => HeapInv
  BY ArraysInit, OrderingInit DEF HeapInv
<1>2. HeapInv /\ [Next]_vars => HeapInv'
  BY ArraysNext, OrderingNext DEF HeapInv
<1>3. HeapInv => HeapOrdered
  <2> SUFFICES ASSUME HeapInv, NEW p \in 2 .. nEl
               PROVE  Value(p \div 2) <= Value(p) \/ bubble = Up(p) \/ bubble = Down(p \div 2)
    BY DEF HeapOrdered
  <2>1. p \in Pos /\ p \div 2 \in Pos /\ bubble \in [dir : {"none", "up", "down"}, at : Pos]
    BY Halves, HeapAssumption DEF HeapInv, Arrays, TypeOK, Pos
  <2>2. \/ Values[p \div 2] <= Values[p]
        \/ bubble.dir = "up" /\ bubble.at = p
        \/ bubble.dir = "down" /\ bubble.at = p \div 2
    BY DEF HeapInv, Ordering, OrderedBut
  <2> QED
    BY <2>1, <2>2 DEF Values, Up, Down
<1> QED
  BY <1>1, <1>2, <1>3, PTL DEF Spec
-----------------------------------------------------------------------------
(* The first of an ordered heap is a least one.                            *)

(* A set of naturals that has an element has a least one. *)
LEMMA LeastExists ==
    ASSUME NEW S \in SUBSET Nat, S # {}
    PROVE  \E x \in S : \A y \in S : x <= y
<1> DEFINE R == {p \in Nat \X Nat : p[1] < p[2]}
<1>1. IsWellFoundedOn(R, Nat)
  BY NatLessThanWellFounded DEF OpToRel
<1>2. \A x, y \in Nat : <<y, x>> \in R <=> y < x
  OBVIOUS
<1> HIDE DEF R
<1>3. PICK x \in S : \A y \in S : <<y, x>> \notin R
  BY <1>1, WFMin
<1>4. \A y \in S : ~ (y < x)
  BY <1>2, <1>3
<1> QED
  BY <1>4

(* The first position with a lesser value than the root would have a       *)
(* father with one, which comes before it.                                 *)
LEMMA RootIsLeast ==
    ASSUME NEW v \in [Pos -> 0 .. Full], NEW n \in 0 .. NumBlks,
           \A p \in 2 .. n : v[p \div 2] <= v[p]
    PROVE  \A p \in 1 .. n : v[1] <= v[p]
<1> USE HeapAssumption
<1> DEFINE Lesser == {p \in 1 .. n : v[p] < v[1]}
<1>1. SUFFICES ASSUME Lesser # {} PROVE FALSE
  <2>1. \A p \in 1 .. n : v[p] \in Int /\ v[1] \in Int
    BY DEF Pos
  <2> QED
    BY <1>1, <2>1
<1>2. PICK p \in Lesser : \A q \in Lesser : p <= q
  <2>1. Lesser \in SUBSET Nat
    OBVIOUS
  <2> HIDE DEF Lesser
  <2> QED
    BY <1>1, <2>1, LeastExists
<1>3. p \in 2 .. n /\ v[p] < v[1]
  BY <1>2 DEF Pos
<1>4. p \div 2 \in 1 .. n /\ p \div 2 < p
  BY <1>3, Halves
<1>5. v[p \div 2] <= v[p] /\ v[p] \in Int /\ v[1] \in Int /\ v[p \div 2] \in Int
  BY <1>3, <1>4 DEF Pos
<1>6. p \div 2 \in Lesser
  BY <1>3, <1>4, <1>5
<1> QED
  BY <1>2, <1>4, <1>6

-----------------------------------------------------------------------------
(* The heap as the pool of VictimPool: what its steps do to the counts of  *)
(* the blocks and to the set of those inserted.                            *)
Count == [l \in Blk |-> Value(pos[l])]
Inserted == {l \in Blk : InHeap(l)}

(* A swap takes every element to where its block is said to be. *)
LEMMA SwapMovesElements ==
    ASSUME NEW e \in [Pos -> Element], pos \in [Blk -> Pos], Inverse(e, pos),
           NEW p \in Pos, NEW q \in Pos, NEW l \in Blk
    PROVE  /\ SwappedPos(e, p, q)[l] =
                  IF l = e[q].lbn THEN p ELSE IF l = e[p].lbn THEN q ELSE pos[l]
           /\ SwappedEl(e, p, q)[SwappedPos(e, p, q)[l]] = e[pos[l]]
<1>1. e[p].lbn \in Blk /\ e[q].lbn \in Blk
  BY DEF Element
<1>2. SwappedPos(e, p, q)[l] = IF l = e[q].lbn THEN p ELSE IF l = e[p].lbn THEN q ELSE pos[l]
  BY <1>1 DEF SwappedPos
<1>3. \A r \in Pos : SwappedEl(e, p, q)[r] = IF r = q THEN e[p] ELSE IF r = p THEN e[q] ELSE e[r]
  BY DEF SwappedEl
<1>4. pos[e[p].lbn] = p /\ pos[e[q].lbn] = q /\ e[pos[l]].lbn = l /\ pos[l] \in Pos
  BY DEF Inverse
<1> QED
  BY <1>2, <1>3, <1>4

(* What the arrays of a heap are, in the form the lemmas below use. *)
LEMMA ArraysHave ==
    ASSUME HeapInv
    PROVE  /\ el \in [Pos -> Element]
           /\ pos \in [Blk -> Pos]
           /\ nEl \in 0 .. NumBlks
           /\ bubble.at \in Pos
           /\ Inverse(el, pos)
           /\ Count \in [Blk -> 0 .. Full]
           /\ \A l \in Blk : Count[l] = el[pos[l]].value
<1>1. /\ el \in [Pos -> Element]
      /\ pos \in [Blk -> Pos]
      /\ nEl \in 0 .. NumBlks
      /\ bubble.at \in Pos
      /\ Inverse(el, pos)
  BY DEF HeapInv, Arrays, TypeOK, PositionsInverse, Inverse, Element
<1>2. \A l \in Blk : el[pos[l]].value \in 0 .. Full
  BY <1>1 DEF Element
<1> QED
  BY <1>1, <1>2 DEF Count, Value

(* A swap inside the heap is not to be seen from outside. *)
LEMMA SwapIsHidden ==
    ASSUME HeapInv, NEW p \in 1 .. nEl, NEW q \in 1 .. nEl, Swap(el, p, q), nEl' = nEl
    PROVE  Count' = Count /\ Inserted' = Inserted
<1> USE ArraysHave, HeapAssumption
<1>1. p \in Pos /\ q \in Pos
  BY DEF Pos
<1>2. el' = SwappedEl(el, p, q) /\ pos' = SwappedPos(el, p, q)
  BY DEF Swap
<1>3. ASSUME NEW l \in Blk
      PROVE  el'[pos'[l]] = el[pos[l]] /\ (pos'[l] <= nEl' <=> pos[l] <= nEl)
  <2>5. /\ SwappedPos(el, p, q)[l] =
               IF l = el[q].lbn THEN p ELSE IF l = el[p].lbn THEN q ELSE pos[l]
        /\ SwappedEl(el, p, q)[SwappedPos(el, p, q)[l]] = el[pos[l]]
    BY <1>1, SwapMovesElements
  <2>1. pos'[l] = IF l = el[q].lbn THEN p ELSE IF l = el[p].lbn THEN q ELSE pos[l]
    BY <1>2, <2>5
  <2>2. el'[pos'[l]] = el[pos[l]]
    BY <1>2, <2>5
  <2>3. pos[el[q].lbn] = q /\ pos[el[p].lbn] = p
    BY <1>1 DEF Inverse
  <2>4. p <= nEl /\ q <= nEl
    OBVIOUS
  <2> QED
    BY <2>1, <2>2, <2>3, <2>4
<1>4. \A l \in Blk : Value(pos[l])' = Value(pos[l])
  BY <1>3 DEF Value
<1>5. \A l \in Blk : InHeap(l)' <=> InHeap(l)
  BY <1>3 DEF InHeap
<1> QED
  BY <1>4, <1>5 DEF Count, Inserted

LEMMA InsertRefines ==
    ASSUME HeapInv, NEW l \in Blk, Insert(l)
    PROVE  Pool!Insert(l)
<1> USE HeapAssumption
<1> USE ArraysHave
<1> DEFINE p == pos[l]
           q == nEl + 1
<1>1. ~hung /\ p > nEl /\ nEl' = q /\ Swap(el, p, q) /\ UNCHANGED hung
  <2>1. p \in Int /\ nEl \in Int
    BY DEF Pos
  <2> QED
    BY <2>1 DEF Insert, Ready, InHeap
<1>2. p \in Pos /\ q \in Pos
  BY <1>1 DEF Pos
<1>3. el' = SwappedEl(el, p, q) /\ pos' = SwappedPos(el, p, q)
  BY <1>1 DEF Swap
<1>4. ASSUME NEW k \in Blk
      PROVE  el'[pos'[k]] = el[pos[k]] /\ (pos'[k] <= nEl' <=> pos[k] <= nEl \/ k = l)
  <2>7. /\ SwappedPos(el, p, q)[k] =
               IF k = el[q].lbn THEN p ELSE IF k = el[p].lbn THEN q ELSE pos[k]
        /\ SwappedEl(el, p, q)[SwappedPos(el, p, q)[k]] = el[pos[k]]
    <3> HIDE DEF p, q
    <3> QED
      BY <1>2, SwapMovesElements
  <2>1. pos'[k] = IF k = el[q].lbn THEN p ELSE IF k = el[p].lbn THEN q ELSE pos[k]
    BY <1>3, <2>7
  <2>2. el'[pos'[k]] = el[pos[k]]
    BY <1>3, <2>7
  <2>3. pos[el[q].lbn] = q /\ el[p].lbn = l /\ pos[k] \in Pos /\ el[pos[k]].lbn = k
    BY <1>2 DEF Inverse
  <2>4. pos[k] \in Int /\ nEl \in Int /\ p \in Int
    BY <1>2, <2>3 DEF Pos
  <2>5. CASE k = el[q].lbn
    <3>1. pos'[k] = p /\ pos[k] = nEl + 1
      BY <2>1, <2>3, <2>5
    <3>2. p <= nEl + 1 <=> k = l
      BY <1>1, <2>3, <2>4, <3>1
    <3> QED
      BY <1>1, <2>2, <2>4, <3>1, <3>2
  <2>6. CASE k # el[q].lbn
    <3>1. pos[k] # nEl + 1
      BY <2>3, <2>6
    <3> QED
      BY <1>1, <2>1, <2>2, <2>3, <2>4, <2>6, <3>1
  <2> QED
    BY <2>5, <2>6
<1> HIDE DEF p, q
<1>5. \A k \in Blk : Value(pos[k])' = Value(pos[k])
  BY <1>4 DEF Value
<1>6. \A k \in Blk : InHeap(k)' <=> InHeap(k) \/ k = l
  BY <1>4 DEF InHeap
<1>7. ~InHeap(l)
  BY DEF Insert
<1>8. Count' = Count
  BY <1>5 DEF Count
<1>9. Inserted' = Inserted \cup {l}
  BY <1>6 DEF Inserted
<1> QED
  BY <1>1, <1>7, <1>8, <1>9 DEF Pool!Insert, Count, Inserted

(* A step that only gives the element of one block another count. *)
LEMMA OneCountChanges ==
    ASSUME HeapInv, NEW l \in Blk, NEW w \in 0 .. Full,
           el' = [el EXCEPT ![pos[l]].value = w], UNCHANGED <<pos, nEl>>
    PROVE  Count' = [Count EXCEPT ![l] = w] /\ Inserted' = Inserted
<1> USE ArraysHave
<1>1. ASSUME NEW k \in Blk
      PROVE  el'[pos[k]].value = IF k = l THEN w ELSE el[pos[k]].value
  <2>1. pos[k] = pos[l] => k = l
    BY DEF Inverse
  <2>2. pos[k] \in Pos /\ pos[l] \in Pos /\ el[pos[l]] \in Element
    OBVIOUS
  <2> QED
    BY <2>1, <2>2 DEF Element
<1>2. \A k \in Blk : Value(pos[k])' = IF k = l THEN w ELSE Value(pos[k])
  BY <1>1 DEF Value
<1>3. Count' = [Count EXCEPT ![l] = w]
  BY <1>2 DEF Count
<1>4. \A k \in Blk : InHeap(k)' <=> InHeap(k)
  BY DEF InHeap
<1> QED
  BY <1>3, <1>4 DEF Inserted

LEMMA DecrementRefines ==
    ASSUME HeapInv, NEW l \in Blk, NEW n \in 1 .. Full, Decrement(l, n)
    PROVE  Pool!Decrement(l, n)
<1> USE HeapAssumption
<1>1. /\ ~hung
      /\ n <= Count[l]
      /\ el' = [el EXCEPT ![pos[l]].value = @ - n]
      /\ UNCHANGED <<pos, nEl, hung>>
  BY DEF Decrement, Ready, Count
<1>2. Count[l] \in 0 .. Full /\ Count[l] = el[pos[l]].value /\ pos[l] \in Pos /\ el \in [Pos -> Element]
  BY ArraysHave
<1>3. PICK w \in 0 .. Full : w = Count[l] - n
  BY <1>1, <1>2
<1>4. el' = [el EXCEPT ![pos[l]].value = w]
  BY <1>1, <1>2, <1>3
<1>5. Count' = [Count EXCEPT ![l] = w] /\ Inserted' = Inserted
  BY <1>1, <1>4, OneCountChanges
<1>6. Count' = [Count EXCEPT ![l] = @ - n]
  BY <1>2, <1>3, <1>5
<1> QED
  BY <1>1, <1>5, <1>6 DEF Pool!Decrement, Count, Inserted

LEMMA SetRefines ==
    ASSUME HeapInv, NEW l \in Blk, NEW w \in 0 .. Full, Set(l, w)
    PROVE  Pool!Set(l, w)
<1>1. /\ ~hung
      /\ ~InHeap(l)
      /\ el' = [el EXCEPT ![pos[l]].value = w]
      /\ UNCHANGED <<pos, nEl, hung>>
  BY DEF Set, Ready
<1>2. Count' = [Count EXCEPT ![l] = w] /\ Inserted' = Inserted
  BY <1>1, OneCountChanges
<1> QED
  BY <1>1, <1>2 DEF Pool!Set, Count, Inserted

(* A stop is reached by a block that has been inserted, or has a count of  *)
(* 0.                                                                      *)
LEMMA StopRefines ==
    ASSUME NEW l \in Blk, DecrementZero(l) \/ SetInserted(l)
    PROVE  Pool!Stop
<1>1. ~hung /\ hung' = TRUE /\ UNCHANGED <<el, pos, nEl>>
  BY DEF DecrementZero, SetInserted, Ready
<1>2. Inserted # {} \/ \E k \in Blk : Count[k] = 0
  BY DEF DecrementZero, SetInserted, Inserted, Count
<1>3. Count' = Count /\ Inserted' = Inserted
  BY <1>1 DEF Count, Inserted, Value, InHeap
<1> QED
  BY <1>1, <1>2, <1>3 DEF Pool!Stop, Count, Inserted

LEMMA RemoveRefines ==
    ASSUME HeapInv, Remove
    PROVE  Pool!Remove
<1> USE HeapAssumption
<1> USE ArraysHave
<1> DEFINE e == [el EXCEPT ![1].value = Full]
           l == el[1].lbn
<1>1. /\ Ready
      /\ ~hung
      /\ nEl > 0
      /\ Swap(e, 1, nEl)
      /\ nEl' = nEl - 1
      /\ UNCHANGED hung
  BY DEF Remove, Ready
<1>2. 1 \in Pos /\ nEl \in Pos /\ el[1] \in Element /\ l \in Blk
  <2>1. 1 \in Pos /\ nEl \in Pos
    BY <1>1 DEF Pos
  <2>2. el[1] \in Element
    BY <2>1
  <2> QED
    BY <2>1, <2>2 DEF Element
<1>3. e \in [Pos -> Element] /\ \A r \in Pos : e[r].lbn = el[r].lbn
  BY <1>2 DEF Element
<1>4. \A r \in Pos : e[r].value = IF r = 1 THEN Full ELSE el[r].value
  BY <1>2 DEF Element
<1>5. Inverse(e, pos)
  BY <1>3 DEF Inverse
<1> HIDE DEF e
<1>6. el' = SwappedEl(e, 1, nEl) /\ pos' = SwappedPos(e, 1, nEl)
  BY <1>1 DEF Swap
<1>7. pos[l] = 1
  BY <1>2 DEF Inverse
<1>8. ASSUME NEW k \in Blk
      PROVE  /\ el'[pos'[k]].value = IF k = l THEN Full ELSE el[pos[k]].value
             /\ pos'[k] <= nEl' <=> pos[k] <= nEl /\ k # l
  <2>10. /\ SwappedPos(e, 1, nEl)[k] =
                IF k = e[nEl].lbn THEN 1 ELSE IF k = e[1].lbn THEN nEl ELSE pos[k]
         /\ SwappedEl(e, 1, nEl)[SwappedPos(e, 1, nEl)[k]] = e[pos[k]]
    BY <1>2, <1>3, <1>5, SwapMovesElements
  <2>1. pos'[k] = IF k = e[nEl].lbn THEN 1 ELSE IF k = e[1].lbn THEN nEl ELSE pos[k]
    BY <1>6, <2>10
  <2>2. el'[pos'[k]] = e[pos[k]]
    BY <1>6, <2>10
  <2>3. pos[k] \in Pos /\ el[pos[k]].lbn = k /\ pos[el[nEl].lbn] = nEl
    BY <1>2 DEF Inverse
  <2>4. pos[k] = 1 <=> k = l
    BY <1>7, <2>3
  <2>5. el'[pos'[k]].value = IF k = l THEN Full ELSE el[pos[k]].value
    BY <1>4, <2>2, <2>3, <2>4
  <2>6. e[nEl].lbn = el[nEl].lbn /\ e[1].lbn = l
    BY <1>2, <1>3
  <2> HIDE DEF l
  <2>7. pos[k] \in Int /\ pos[k] >= 1 /\ nEl \in Int
    BY <2>3 DEF Pos
  <2>8. CASE k = el[nEl].lbn
    <3>1. pos'[k] = 1 /\ pos[k] = nEl
      BY <2>1, <2>3, <2>6, <2>8
    <3>2. k = l <=> nEl = 1
      BY <2>4, <3>1
    <3> QED
      BY <1>1, <2>5, <2>7, <3>1, <3>2
  <2>9. CASE k # el[nEl].lbn
    <3>1. pos[k] # nEl
      BY <2>3, <2>9
    <3>2. pos'[k] = IF k = l THEN nEl ELSE pos[k]
      BY <2>1, <2>6, <2>9
    <3> QED
      BY <1>1, <2>5, <2>7, <3>1, <3>2
  <2> QED
    BY <2>8, <2>9
<1>9. ASSUME NEW k \in Inserted PROVE Count[l] <= Count[k]
  <2>1. \A r \in 2 .. nEl : Values[r \div 2] <= Values[r]
    BY <1>1, OrderedAtRest DEF HeapInv, Ordering, Ready, Still
  <2>2. Values \in [Pos -> 0 .. Full] /\ \A r \in Pos : Values[r] = el[r].value
    BY DEF Values, Value, Element
  <2>3. k \in Blk /\ pos[k] \in 1 .. nEl
    BY <1>9 DEF Inserted, InHeap, Pos
  <2>4. Values[1] <= Values[pos[k]]
    BY <2>1, <2>2, <2>3, RootIsLeast
  <2> QED
    BY <1>2, <1>7, <2>2, <2>3, <2>4 DEF Pos
<1>10. l \in Inserted
  BY <1>1, <1>2, <1>7 DEF Inserted, InHeap
<1> HIDE DEF l
<1>11. \A k \in Blk : Value(pos[k])' = IF k = l THEN Full ELSE Value(pos[k])
  BY <1>8 DEF Value
<1>12. \A k \in Blk : InHeap(k)' <=> InHeap(k) /\ k # l
  BY <1>8 DEF InHeap
<1>13. Count' = [Count EXCEPT ![l] = Full]
  BY <1>2, <1>11 DEF Count
<1>14. Inserted' = Inserted \ {l}
  BY <1>12 DEF Inserted
<1> QED
  BY <1>1, <1>9, <1>10, <1>13, <1>14 DEF Pool!Remove, Count, Inserted

(* An iteration of either loop is not to be seen from outside. *)
LEMMA BubblingIsHidden ==
    ASSUME HeapInv, BubbleUp \/ BubbleDown
    PROVE  Count' = Count /\ Inserted' = Inserted /\ hung' = hung
<1> USE HeapAssumption
<1>1. CASE Stops
  BY <1>1 DEF BubbleUp, BubbleDown, Stops, Count, Inserted, Value, InHeap
<1>2. CASE BubbleUp /\ ~Stops
  <2> DEFINE p == bubble.at
             f == p \div 2
  <2>1. p > 1 /\ Swap(el, p, f) /\ nEl' = nEl /\ hung' = hung /\ bubble.dir = "up"
    BY <1>2 DEF BubbleUp
  <2>2. p \in 1 .. nEl /\ p \in Nat /\ nEl \in Nat
    BY <2>1, ArraysHave DEF HeapInv, Ordering, Pos
  <2>3. f \in 1 .. nEl
    BY <2>1, <2>2, Halves
  <2> QED
    BY <2>1, <2>2, <2>3, SwapIsHidden
<1>3. CASE BubbleDown /\ ~Stops
  <2> DEFINE f == bubble.at
             c == Child(f)
  <2>1. /\ 2 * f <= nEl
        /\ Swap(el, f, c)
        /\ nEl' = nEl
        /\ hung' = hung
    BY <1>3 DEF BubbleDown
  <2>2. f \in Nat \ {0} /\ nEl \in Nat
    BY ArraysHave DEF Pos
  <2>3. f \in 1 .. nEl /\ c \in 1 .. nEl
    BY <2>1, <2>2 DEF Child
  <2> QED
    BY <2>1, <2>3, SwapIsHidden
<1> QED
  BY <1>1, <1>2, <1>3

(* heap.c implements the pool log.c and garbage_collection.c rely on, for  *)
(* every number of blocks: an operation changes the counts and the blocks  *)
(* inserted as it should, the block taken away has a least count, no swap  *)
(* is to be seen from outside, and the while(1) is reached only by a count *)
(* that would pass 0 or is set under a block inserted.                     *)
THEOREM HeapIsAPool == Spec => ImplementsPool
<1>1. Init => HeapInv
  BY ArraysInit, OrderingInit DEF HeapInv
<1>2. HeapInv /\ [Next]_vars => HeapInv'
  BY ArraysNext, OrderingNext DEF HeapInv
<1>3. Init => Pool!Init
  <2> SUFFICES ASSUME Init PROVE Pool!Init
    OBVIOUS
  <2>1. \A l \in Blk : l + 1 \in Pos /\ l + 1 > 0
    BY HeapAssumption DEF Blk, Pos
  <2>4. \A l \in Blk : pos[l] = l + 1
    BY DEF Init
  <2>5. \A p \in Pos : el[p].value = Full
    BY DEF Init
  <2>2. \A l \in Blk : Value(pos[l]) = Full /\ ~InHeap(l)
    <3>1. nEl = 0
      BY DEF Init
    <3> QED
      BY <2>1, <2>4, <2>5, <3>1 DEF Value, InHeap, Blk
  <2>3. hung = FALSE
    BY DEF Init
  <2> QED
    BY <2>2, <2>3 DEF Pool!Init
<1>4. HeapInv /\ [Next]_vars => [Pool!Next]_(Pool!vars)
  <2> SUFFICES ASSUME HeapInv, [Next]_vars PROVE [Pool!Next]_(Pool!vars)
    OBVIOUS
  <2>1. CASE \E l \in Blk : Insert(l)
    BY <2>1, InsertRefines DEF Pool!Next
  <2>2. CASE \E l \in Blk : \E n \in 1 .. Full : Decrement(l, n)
    BY <2>2, DecrementRefines DEF Pool!Next
  <2>3. CASE \E l \in Blk : DecrementZero(l) \/ SetInserted(l)
    BY <2>3, StopRefines DEF Pool!Next
  <2>4. CASE \E l \in Blk : \E w \in 0 .. Full : Set(l, w)
    BY <2>4, SetRefines DEF Pool!Next
  <2>5. CASE Remove
    BY <2>5, RemoveRefines DEF Pool!Next
  <2>6. CASE BubbleUp \/ BubbleDown
    BY <2>6, BubblingIsHidden DEF Pool!vars, Count, Inserted
  <2>7. CASE UNCHANGED vars
    BY <2>7 DEF vars, Pool!vars, Value, InHeap
  <2> QED
    BY <2>1, <2>2, <2>3, <2>4, <2>5, <2>6, <2>7 DEF Next
<1> QED
  BY <1>1, <1>2, <1>3, <1>4, PTL DEF Spec, ImplementsPool, Pool!Spec
=============================================================================

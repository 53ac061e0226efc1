------------------------ MODULE IntrusiveList_proofs ------------------------
(***************************************************************************)
(* For every set of nodes and lists: the hooks stay doubly linked, no ring *)
(* is without a head, and a walk that removes as it goes misses no node.   *)
(***************************************************************************)
EXTENDS IntrusiveList, FiniteSetTheorems, WellFoundedInduction, TLAPS

Pointers == [Cell -> Cell \cup {Null}]
Owners == [Node -> Head \cup {Null}]

(* The neighbours of a linked cell are cells of the same list. *)
LEMMA Neighbours ==
  ASSUME NEW nx \in Pointers, NEW pv \in Pointers, NEW ow \in Owners,
         Agree(nx, pv, ow), NEW x \in Cell, ListIn(ow, x) # Null
  PROVE  /\ nx[x] \in Cell /\ pv[x] \in Cell
         /\ pv[nx[x]] = x /\ nx[pv[x]] = x
         /\ ListIn(ow, nx[x]) = ListIn(ow, x)
         /\ ListIn(ow, pv[x]) = ListIn(ow, x)
<1>1. /\ nx[x] # Null /\ pv[nx[x]] = x
      /\ pv[x] # Null /\ nx[pv[x]] = x
      /\ ListIn(ow, nx[x]) = ListIn(ow, x)
  BY DEF Agree
<1>2. nx[x] \in Cell /\ pv[x] \in Cell
  BY <1>1 DEF Pointers
<1>3. ListIn(ow, pv[x]) # Null
  BY <1>1, <1>2, NullAssumption DEF Agree, Cell
<1>4. ListIn(ow, nx[pv[x]]) = ListIn(ow, pv[x])
  BY <1>2, <1>3 DEF Agree
<1> QED
  BY <1>1, <1>2, <1>4

(* insert of a node that is on no list, after a head. *)
LEMMA InsertAgrees ==
  ASSUME NEW nx \in Pointers, NEW pv \in Pointers, NEW ow \in Owners,
         Agree(nx, pv, ow), NEW n \in Node, ow[n] = Null, NEW h \in Head
  PROVE  /\ InsertNext(nx, n, h) \in Pointers
         /\ InsertPrev(nx, pv, n, h) \in Pointers
         /\ [ow EXCEPT ![n] = h] \in Owners
         /\ Agree(InsertNext(nx, n, h), InsertPrev(nx, pv, n, h),
                  [ow EXCEPT ![n] = h])
<1> DEFINE nx2 == InsertNext(nx, n, h)
           pv2 == InsertPrev(nx, pv, n, h)
           ow2 == [ow EXCEPT ![n] = h]
<1> USE HeadAssumption, NullAssumption DEF Cell
<1>1. n \notin Head /\ n # h /\ n \in Cell /\ h \in Cell
  OBVIOUS
<1>2. /\ nx[h] \in Cell /\ pv[nx[h]] = h
      /\ ListIn(ow, nx[h]) = h /\ ListIn(ow, pv[h]) = h
      /\ pv[h] \in Cell /\ nx[pv[h]] = h
  BY <1>1, Neighbours DEF ListIn
<1>3. nx[h] # n /\ pv[h] # n
  BY <1>1, <1>2 DEF ListIn
<1>4. nx2 \in Pointers /\ pv2 \in Pointers /\ ow2 \in Owners
  BY <1>1, <1>2 DEF InsertNext, InsertPrev, Pointers, Owners
<1>5. /\ nx2[n] = nx[h] /\ nx2[h] = n
      /\ \A x \in Cell \ {n, h} : nx2[x] = nx[x]
  BY <1>1 DEF InsertNext, Pointers
<1>6. /\ pv2[n] = h /\ pv2[nx[h]] = n
      /\ \A x \in Cell \ {n, nx[h]} : pv2[x] = pv[x]
  BY <1>1, <1>2, <1>3 DEF InsertPrev, Pointers
<1>7. /\ ListIn(ow2, n) = h
      /\ \A x \in Cell \ {n} : ListIn(ow2, x) = ListIn(ow, x)
  BY <1>1 DEF ListIn, Owners
<1>8. ASSUME NEW x \in Cell, ListIn(ow2, x) = Null
      PROVE  nx2[x] = Null /\ pv2[x] = Null
  <2>1. x # n /\ x # h /\ x # nx[h] /\ ListIn(ow, x) = Null
    BY <1>1, <1>2, <1>3, <1>7, <1>8 DEF ListIn
  <2> QED
    BY <2>1, <1>5, <1>6 DEF Agree
<1>9. ASSUME NEW x \in Cell, ListIn(ow2, x) # Null
      PROVE  /\ nx2[x] # Null /\ pv2[nx2[x]] = x
             /\ pv2[x] # Null /\ nx2[pv2[x]] = x
             /\ ListIn(ow2, nx2[x]) = ListIn(ow2, x)
  <2>1. CASE x = n
    BY <2>1, <1>1, <1>2, <1>3, <1>5, <1>6, <1>7
  <2>2. CASE x # n
    <3>1. ListIn(ow, x) # Null
      BY <2>2, <1>7, <1>9
    <3>2. /\ nx[x] \in Cell /\ pv[x] \in Cell
          /\ pv[nx[x]] = x /\ nx[pv[x]] = x
          /\ ListIn(ow, nx[x]) = ListIn(ow, x)
          /\ ListIn(ow, pv[x]) = ListIn(ow, x)
      BY <3>1, Neighbours
    <3>3. nx[x] # n /\ pv[x] # n
      BY <3>1, <3>2, <1>1 DEF ListIn
    <3>4. nx2[x] # Null /\ pv2[nx2[x]] = x /\ ListIn(ow2, nx2[x]) = ListIn(ow2, x)
      <4>1. CASE x = h
        BY <4>1, <1>1, <1>5, <1>6, <1>7 DEF ListIn
      <4>2. CASE x # h
        <5>1. nx2[x] = nx[x] /\ nx[x] # nx[h]
          BY <4>2, <2>2, <1>2, <1>5, <3>2
        <5> QED
          BY <5>1, <2>2, <3>2, <3>3, <1>6, <1>7
      <4> QED
        BY <4>1, <4>2
    <3>5. pv2[x] # Null /\ nx2[pv2[x]] = x
      <4>1. CASE x = nx[h]
        BY <4>1, <1>1, <1>5, <1>6
      <4>2. CASE x # nx[h]
        <5>1. pv2[x] = pv[x] /\ pv[x] # h
          BY <4>2, <2>2, <1>6, <3>2
        <5> QED
          BY <5>1, <3>2, <3>3, <1>5
      <4> QED
        BY <4>1, <4>2
    <3> QED
      BY <3>4, <3>5
  <2> QED
    BY <2>1, <2>2
<1> QED
  BY <1>4, <1>8, <1>9 DEF Agree

(* detach of a node that is on a list. *)
LEMMA DetachAgrees ==
  ASSUME NEW nx \in Pointers, NEW pv \in Pointers, NEW ow \in Owners,
         Agree(nx, pv, ow), NEW n \in Node, ow[n] # Null
  PROVE  /\ DetachNext(nx, pv, n) \in Pointers
         /\ DetachPrev(nx, pv, n) \in Pointers
         /\ [ow EXCEPT ![n] = Null] \in Owners
         /\ Agree(DetachNext(nx, pv, n), DetachPrev(nx, pv, n),
                  [ow EXCEPT ![n] = Null])
<1> DEFINE nx2 == DetachNext(nx, pv, n)
           pv2 == DetachPrev(nx, pv, n)
           ow2 == [ow EXCEPT ![n] = Null]
           before == pv[n]
           after == nx[n]
<1> USE HeadAssumption, NullAssumption DEF Cell
<1>1. n \notin Head /\ n \in Cell /\ ListIn(ow, n) = ow[n] /\ ow[n] \in Head
  BY DEF ListIn, Owners
<1>2. /\ after \in Cell /\ before \in Cell
      /\ pv[after] = n /\ nx[before] = n
      /\ ListIn(ow, after) = ow[n] /\ ListIn(ow, before) = ow[n]
  BY <1>1, Neighbours
<1>3. after = n <=> before = n
  BY <1>2
<1>4. nx2 \in Pointers /\ pv2 \in Pointers /\ ow2 \in Owners
  BY <1>1, <1>2 DEF DetachNext, DetachPrev, Pointers, Owners
<1>5. /\ nx2[n] = Null /\ (before # n => nx2[before] = after)
      /\ \A x \in Cell \ {n, before} : nx2[x] = nx[x]
  BY <1>1, <1>2 DEF DetachNext, Pointers
<1>6. /\ pv2[n] = Null /\ (after # n => pv2[after] = before)
      /\ \A x \in Cell \ {n, after} : pv2[x] = pv[x]
  BY <1>1, <1>2 DEF DetachPrev, Pointers
<1>7. /\ ListIn(ow2, n) = Null
      /\ \A x \in Cell \ {n} : ListIn(ow2, x) = ListIn(ow, x)
  BY <1>1 DEF ListIn, Owners
<1>8. ASSUME NEW x \in Cell, ListIn(ow2, x) = Null
      PROVE  nx2[x] = Null /\ pv2[x] = Null
  <2>1. CASE x = n
    BY <2>1, <1>5, <1>6
  <2>2. CASE x # n
    <3>1. ListIn(ow, x) = Null /\ x # before /\ x # after
      BY <2>2, <1>1, <1>2, <1>7, <1>8
    <3> QED
      BY <2>2, <3>1, <1>5, <1>6 DEF Agree
  <2> QED
    BY <2>1, <2>2
<1>9. ASSUME NEW x \in Cell, ListIn(ow2, x) # Null
      PROVE  /\ nx2[x] # Null /\ pv2[nx2[x]] = x
             /\ pv2[x] # Null /\ nx2[pv2[x]] = x
             /\ ListIn(ow2, nx2[x]) = ListIn(ow2, x)
  <2>1. x # n /\ ListIn(ow, x) # Null /\ ListIn(ow2, x) = ListIn(ow, x)
    BY <1>7, <1>9
  <2>2. /\ nx[x] \in Cell /\ pv[x] \in Cell
        /\ pv[nx[x]] = x /\ nx[pv[x]] = x
        /\ ListIn(ow, nx[x]) = ListIn(ow, x)
        /\ ListIn(ow, pv[x]) = ListIn(ow, x)
    BY <2>1, Neighbours
  <2>3. nx2[x] # Null /\ pv2[nx2[x]] = x /\ ListIn(ow2, nx2[x]) = ListIn(ow2, x)
    <3>1. CASE x = before
      BY <3>1, <2>1, <1>2, <1>3, <1>5, <1>6, <1>7
    <3>2. CASE x # before
      <4>1. nx2[x] = nx[x] /\ nx[x] # n /\ nx[x] # after
        BY <3>2, <2>1, <2>2, <1>2, <1>5
      <4> QED
        BY <4>1, <2>1, <2>2, <1>6, <1>7
    <3> QED
      BY <3>1, <3>2
  <2>4. pv2[x] # Null /\ nx2[pv2[x]] = x
    <3>1. CASE x = after
      BY <3>1, <2>1, <1>2, <1>3, <1>5, <1>6
    <3>2. CASE x # after
      <4>1. pv2[x] = pv[x] /\ pv[x] # n /\ pv[x] # before
        BY <3>2, <2>1, <2>2, <1>2, <1>6
      <4> QED
        BY <4>1, <2>2, <1>5
    <3> QED
      BY <3>1, <3>2
  <2> QED
    BY <2>3, <2>4
<1> QED
  BY <1>4, <1>8, <1>9 DEF Agree

-----------------------------------------------------------------------------
(* No ring without a head: the nodes can be ranked along m_next.           *)

RankedBy(rank, nx) ==
  /\ rank \in [Node -> Nat]
  /\ \A n \in Node : nx[n] \in Node => rank[n] < rank[nx[n]]

Ranked(nx) == \E rank : RankedBy(rank, nx)

LEMMA InsertRanked ==
  ASSUME NEW nx \in Pointers, NEW pv \in Pointers, NEW ow \in Owners,
         Agree(nx, pv, ow), NEW n \in Node, ow[n] = Null, NEW h \in Head,
         Ranked(nx)
  PROVE  Ranked(InsertNext(nx, n, h))
<1>1. PICK rank : RankedBy(rank, nx)
  BY DEF Ranked
<1> DEFINE rank2 == [x \in Node |-> IF x = n THEN 0 ELSE rank[x] + 1]
<1>2. rank2 \in [Node -> Nat]
  BY <1>1 DEF RankedBy
<1>3. ASSUME NEW x \in Node, InsertNext(nx, n, h)[x] \in Node
      PROVE  rank2[x] < rank2[InsertNext(nx, n, h)[x]]
  <2>1. h \notin Node /\ n \in Cell /\ h \in Cell /\ x \in Cell
    BY HeadAssumption DEF Cell
  <2>2. ASSUME NEW y \in Cell, ListIn(ow, y) # Null PROVE nx[y] # n
    BY <2>2, Neighbours, HeadAssumption DEF ListIn
  <2>3. CASE x = n
    <3>1. InsertNext(nx, n, h)[x] = nx[h]
      BY <2>1, <2>3 DEF InsertNext, Pointers
    <3>2. nx[h] # n
      BY <2>1, <2>2, NullAssumption DEF ListIn
    <3> QED
      BY <3>1, <3>2, <2>3, <1>1, <1>3 DEF RankedBy
  <2>4. CASE x # n
    <3>1. InsertNext(nx, n, h)[x] = nx[x]
      BY <2>1, <2>4 DEF InsertNext, Pointers
    <3>2. ListIn(ow, x) # Null
      BY <2>1, <3>1, <1>3, NullAssumption DEF Agree
    <3>3. nx[x] # n
      BY <3>2, <2>1, <2>2
    <3> QED
      BY <3>1, <3>3, <2>4, <1>1, <1>3 DEF RankedBy
  <2> QED
    BY <2>3, <2>4
<1> QED
  BY <1>2, <1>3 DEF RankedBy, Ranked

LEMMA DetachRanked ==
  ASSUME NEW nx \in Pointers, NEW pv \in Pointers, NEW ow \in Owners,
         Agree(nx, pv, ow), NEW n \in Node, ow[n] # Null, Ranked(nx)
  PROVE  Ranked(DetachNext(nx, pv, n)) /\ nx[n] # n /\ pv[n] # n
<1>1. PICK rank : RankedBy(rank, nx)
  BY DEF Ranked
<1>2. n \in Cell /\ ListIn(ow, n) # Null /\ n \notin Head
  BY HeadAssumption DEF Cell, ListIn
<1>3. nx[n] \in Cell /\ pv[n] \in Cell /\ nx[pv[n]] = n /\ pv[nx[n]] = n
  BY <1>2, Neighbours
<1>4. nx[n] # n /\ pv[n] # n
  BY <1>1, <1>3 DEF RankedBy
<1>5. ASSUME NEW x \in Node, DetachNext(nx, pv, n)[x] \in Node
      PROVE  rank[x] < rank[DetachNext(nx, pv, n)[x]]
  <2>1. /\ DetachNext(nx, pv, n)[n] = Null
        /\ DetachNext(nx, pv, n)[pv[n]] = nx[n]
        /\ \A y \in Cell \ {n, pv[n]} : DetachNext(nx, pv, n)[y] = nx[y]
    BY <1>2, <1>3, <1>4 DEF DetachNext, Pointers
  <2>2. CASE x = pv[n]
    BY <2>1, <2>2, <1>1, <1>3, <1>5 DEF RankedBy
  <2>3. CASE x # pv[n]
    BY <2>1, <2>3, <1>1, <1>5, NullAssumption DEF RankedBy, Cell
  <2> QED
    BY <2>2, <2>3
<1> QED
  BY <1>1, <1>4, <1>5 DEF RankedBy, Ranked

LEMMA LeastNatural ==
  ASSUME NEW T \in SUBSET Nat, T # {}
  PROVE  \E x \in T : \A y \in T : ~(y < x)
<1>1. \E x \in T : \A y \in T : <<y, x>> \notin OpToRel(<, Nat)
  BY NatLessThanWellFounded, WFMin, Zenon
<1> QED
  BY <1>1 DEF OpToRel

(* A set of nodes that m_prev never leaves is empty. *)
LEMMA NoEndlessPrev ==
  ASSUME NEW nx \in Pointers, NEW pv \in Pointers, NEW S \in SUBSET Node,
         Ranked(nx), \A n \in S : pv[n] \in S /\ nx[pv[n]] = n
  PROVE  S = {}
<1> SUFFICES ASSUME S # {} PROVE FALSE
  OBVIOUS
<1>1. PICK rank : RankedBy(rank, nx)
  BY DEF Ranked
<1> DEFINE T == {rank[n] : n \in S}
<1>2. T \in SUBSET Nat /\ T # {}
  BY <1>1 DEF RankedBy
<1>3. PICK n \in S : \A y \in T : ~(y < rank[n])
  <2> HIDE DEF T
  <2>1. PICK x \in T : \A y \in T : ~(y < x)
    BY <1>2, LeastNatural
  <2> QED
    BY <2>1 DEF T
<1>4. pv[n] \in S /\ nx[pv[n]] = n
  OBVIOUS
<1>5. rank[pv[n]] < rank[n]
  BY <1>1, <1>4 DEF RankedBy
<1> QED
  BY <1>3, <1>4, <1>5

-----------------------------------------------------------------------------
(* The inductive invariant.                                                *)

(* While a walk is under way, its iterator is on the walked list, and what *)
(* is due is the rest of that list: the node the iterator is at, and each  *)
(* other one together with the nodes before it back to the iterator.       *)
WalkInv ==
  it # Null =>
    /\ ListOf(it) = Woken
    /\ it \in Node => it \in due
    /\ due \subseteq Members(Woken)
    /\ \A d \in due : next[d] \in due \cup {Woken}
    /\ \A d \in due \ {it} : prev[d] \in due

IInv == TypeOK /\ DoublyLinked /\ Ranked(next) /\ WalkInv

LEMMA InitEstablishes == Init => IInv
<1> SUFFICES ASSUME Init PROVE IInv
  OBVIOUS
<1>1. TypeOK /\ DoublyLinked
  BY HeadAssumption, NullAssumption
     DEF Init, TypeOK, DoublyLinked, Agree, ListIn, Cell
<1>2. Ranked(next)
  <2>1. RankedBy([n \in Node |-> 0], next)
    BY HeadAssumption, NullAssumption DEF Init, RankedBy, Cell
  <2> QED
    BY <2>1 DEF Ranked
<1>3. WalkInv
  BY DEF Init, WalkInv
<1> QED
  BY <1>1, <1>2, <1>3 DEF IInv

(* The facts about the state that the steps below start from. *)
LEMMA Facts ==
  ASSUME IInv
  PROVE  /\ next \in Pointers /\ prev \in Pointers /\ owner \in Owners
         /\ Agree(next, prev, owner)
         /\ \A d \in due : it # Null => owner[d] = Woken /\ d \in Node
BY DEF IInv, TypeOK, DoublyLinked, Pointers, Owners, WalkInv, Members

LEMMA PushBackPreserves ==
  ASSUME IInv, NEW n \in Node, NEW h \in Head, PushBack(h, n)
  PROVE  IInv'
<1> USE HeadAssumption, NullAssumption DEF Cell
<1>1. /\ next' \in Pointers /\ prev' \in Pointers /\ owner' \in Owners
      /\ Agree(next', prev', owner')
  BY Facts, InsertAgrees DEF PushBack
<1>2. Ranked(next')
  BY Facts, InsertRanked DEF PushBack, IInv
<1>3. WalkInv'
  <2> SUFFICES ASSUME it # Null PROVE WalkInv'
    BY DEF WalkInv, PushBack
  <2>1. it \in Cell /\ it # n /\ n \notin due
    BY Facts DEF IInv, TypeOK, WalkInv, ListOf, ListIn, PushBack
  <2>2. ListOf(it)' = Woken
    BY <2>1 DEF IInv, TypeOK, WalkInv, ListOf, ListIn, PushBack
  <2>3. \A d \in due : next'[d] = next[d]
    BY <2>1, Facts DEF PushBack, InsertNext, Pointers
  <2>4. ASSUME NEW d \in due \ {it} PROVE prev'[d] = prev[d]
    <3>1. next[h] \in Cell /\ prev[next[h]] = h /\ ListIn(owner, next[h]) = h
      BY Facts, Neighbours DEF ListIn
    <3>2. d # next[h]
      BY <3>1, <2>4, Facts DEF IInv, WalkInv
    <3> QED
      BY <3>1, <3>2, <2>1, Facts DEF PushBack, InsertPrev, Pointers
  <2>5. due' \subseteq Members(Woken)'
    BY <2>1, Facts DEF Members, Owners, PushBack
  <2> QED
    BY <2>2, <2>3, <2>4, <2>5 DEF IInv, WalkInv, PushBack
<1> QED
  BY <1>1, <1>2, <1>3
     DEF IInv, TypeOK, DoublyLinked, Pointers, Owners, PushBack

LEMMA RemovePreserves ==
  ASSUME IInv, NEW n \in Node, Remove(n)
  PROVE  IInv'
<1> USE HeadAssumption, NullAssumption DEF Cell
<1>1. /\ next' \in Pointers /\ prev' \in Pointers /\ owner' \in Owners
      /\ Agree(next', prev', owner')
  BY Facts, DetachAgrees DEF Remove
<1>2. Ranked(next') /\ next[n] # n /\ prev[n] # n
  BY Facts, DetachRanked DEF Remove, IInv
<1>3. WalkInv'
  <2> SUFFICES ASSUME it # Null PROVE WalkInv'
    BY DEF WalkInv, Remove
  <2>1. it \in Cell /\ it # n
    BY DEF IInv, TypeOK, Remove
  <2>2. ListOf(it)' = Woken
    BY <2>1 DEF IInv, TypeOK, WalkInv, ListOf, ListIn, Remove
  <2>3. /\ next[n] \in Cell /\ prev[n] \in Cell
        /\ prev[next[n]] = n /\ next[prev[n]] = n
    BY Facts, Neighbours DEF ListIn, Remove
  <2>4. /\ next'[prev[n]] = next[n]
        /\ \A x \in Cell \ {n, prev[n]} : next'[x] = next[x]
        /\ prev'[next[n]] = prev[n]
        /\ \A x \in Cell \ {n, next[n]} : prev'[x] = prev[x]
    BY <1>2, <2>3, Facts DEF Remove, DetachNext, DetachPrev, Pointers
  <2>5. due' = due \ {n} /\ it' = it
    BY DEF Remove
  <2>6. ASSUME NEW d \in due' PROVE next'[d] \in due' \cup {Woken}
    <3>1. d \in due /\ d # n /\ d \in Cell
      BY <2>5, <2>6, Facts
    <3>2. CASE d = prev[n]
      BY <3>1, <3>2, <2>3, <2>4, <2>5, <1>2 DEF IInv, WalkInv
    <3>3. CASE d # prev[n]
      <4>1. next'[d] = next[d] /\ next[d] \in due \cup {Woken}
        BY <3>1, <3>3, <2>4 DEF IInv, WalkInv
      <4>2. prev[next[d]] = d
        BY <3>1, Facts, Neighbours DEF ListIn
      <4> QED
        BY <4>1, <4>2, <3>3, <2>5
    <3> QED
      BY <3>2, <3>3
  <2>7. ASSUME NEW d \in due' \ {it} PROVE prev'[d] \in due'
    <3>1. d \in due /\ d # n /\ d # it /\ d \in Cell /\ prev[d] \in due
      BY <2>5, <2>7, Facts DEF IInv, WalkInv
    <3>2. CASE d = next[n]
      <4>1. prev'[d] = prev[n] /\ n \in due
        BY <3>1, <3>2, <2>3, <2>4
      <4> QED
        BY <4>1, <2>1, <2>5, <1>2 DEF IInv, WalkInv
    <3>3. CASE d # next[n]
      <4>1. prev'[d] = prev[d]
        BY <3>1, <3>3, <2>4
      <4>2. next[prev[d]] = d
        BY <3>1, Facts, Neighbours DEF ListIn
      <4> QED
        BY <4>1, <4>2, <3>1, <3>3, <2>5
    <3> QED
      BY <3>2, <3>3
  <2>8. due' \subseteq Members(Woken)'
    BY <2>5, Facts DEF Members, Owners, Remove
  <2>9. it' \in Node => it' \in due'
    BY <2>1, <2>5 DEF IInv, WalkInv
  <2> QED
    BY <2>2, <2>5, <2>6, <2>7, <2>8, <2>9 DEF WalkInv
<1> QED
  BY <1>1, <1>2, <1>3
     DEF IInv, TypeOK, DoublyLinked, Pointers, Owners, Remove

LEMMA ClearPreserves ==
  ASSUME IInv, NEW h \in Head, Clear(h)
  PROVE  IInv'
<1> USE HeadAssumption, NullAssumption DEF Cell
<1>1. TypeOK'
  BY DEF IInv, TypeOK, Clear
<1>2. \A x \in Cell : /\ ListIn(owner', x) = IF x \in Node /\ ListOf(x) = h
                                            THEN Null ELSE ListOf(x)
                      /\ ListOf(x)' = ListIn(owner', x)
  BY DEF IInv, TypeOK, ListOf, ListIn, Clear
<1>3. \A x \in Node : ListOf(x) = h => next'[x] = Null /\ prev'[x] = Null
  BY DEF Clear, Members, ListOf, ListIn
<1>4. next'[h] = h /\ prev'[h] = h /\ h \in Cell /\ ListOf(h) = h
  BY DEF Clear, Members, ListOf, ListIn
<1>5. \A x \in Cell : ListOf(x) # h => next'[x] = next[x] /\ prev'[x] = prev[x]
  BY DEF Clear, Members, ListOf, ListIn
<1>6. ASSUME NEW x \in Cell, ListOf(x) # Null
      PROVE  /\ next[x] \in Cell /\ prev[x] \in Cell
             /\ prev[next[x]] = x /\ next[prev[x]] = x
             /\ ListOf(next[x]) = ListOf(x) /\ ListOf(prev[x]) = ListOf(x)
  BY <1>6, Facts, Neighbours DEF ListOf
<1>7. DoublyLinked'
  <2> SUFFICES ASSUME NEW x \in Cell
               PROVE  IF ListOf(x)' = Null
                      THEN next'[x] = Null /\ prev'[x] = Null
                      ELSE /\ next'[x] # Null /\ prev'[next'[x]] = x
                           /\ prev'[x] # Null /\ next'[prev'[x]] = x
                           /\ ListIn(owner', next'[x]) = ListOf(x)'
    BY DEF DoublyLinked, Agree, ListOf
  <2>1. CASE ListOf(x) = h /\ x \in Node
    BY <2>1, <1>2, <1>3
  <2>2. CASE x = h
    BY <2>2, <1>4, <1>2 DEF ListOf
  <2>3. CASE ListOf(x) # h /\ ListOf(x) = Null
    BY <2>3, Facts, <1>2, <1>5 DEF Agree, ListOf
  <2>4. CASE ListOf(x) # h /\ ListOf(x) # Null
    <3>1. /\ next'[x] = next[x] /\ prev'[x] = prev[x]
          /\ prev'[next[x]] = x /\ next'[prev[x]] = x
      BY <2>4, <1>5, <1>6
    <3>2. ListIn(owner', next[x]) = ListOf(x) /\ ListOf(x)' = ListOf(x)
      BY <2>4, <1>2, <1>6
    <3>3. next[x] # Null /\ prev[x] # Null
      BY <2>4, <1>6
    <3> QED
      BY <3>1, <3>2, <3>3, <2>4 DEF ListOf
  <2> QED
    BY <2>1, <2>2, <2>3, <2>4 DEF ListOf, ListIn
<1>8. Ranked(next')
  <2>1. PICK rank : RankedBy(rank, next)
    BY DEF IInv, Ranked
  <2>2. \A x \in Node : next'[x] \in Node => next'[x] = next[x]
    BY <1>3, <1>5
  <2>3. RankedBy(rank, next')
    BY <2>1, <2>2 DEF RankedBy
  <2> QED
    BY <2>3 DEF Ranked
<1>9. WalkInv'
  <2> SUFFICES ASSUME it # Null PROVE WalkInv'
    BY DEF WalkInv, Clear
  <2>1. h # Woken /\ it' = it /\ due' = due /\ it \in Cell
    BY DEF Clear, IInv, TypeOK
  <2>2. \A d \in due : next'[d] = next[d] /\ prev'[d] = prev[d]
    BY <2>1, <1>5, Facts DEF ListOf, ListIn
  <2>3. due \subseteq Members(Woken)'
    BY <2>1, Facts DEF Clear, Members
  <2>4. ListOf(it)' = Woken
    BY <2>1, <1>2 DEF IInv, WalkInv, ListOf
  <2> QED
    BY <2>1, <2>2, <2>3, <2>4 DEF IInv, WalkInv
<1> QED
  BY <1>1, <1>7, <1>8, <1>9 DEF IInv

LEMMA WalkBeginPreserves ==
  ASSUME IInv, WalkBegin
  PROVE  IInv'
<1> USE HeadAssumption, NullAssumption DEF Cell
<1>1. /\ next[Woken] \in Cell /\ prev[next[Woken]] = Woken
      /\ ListIn(owner, next[Woken]) = Woken
  BY Facts, Neighbours DEF ListIn
<1>2. ASSUME NEW d \in Members(Woken)
      PROVE  /\ next[d] \in Members(Woken) \cup {Woken}
             /\ prev[d] \in Members(Woken) \cup {Woken}
             /\ next[prev[d]] = d
  BY Facts, Neighbours DEF ListIn, Members
<1>3. WalkInv'
  <2>1. next[Woken] \in Node => next[Woken] \in Members(Woken)
    BY <1>1 DEF ListIn, Members
  <2>2. \A d \in Members(Woken) \ {next[Woken]} : prev[d] \in Members(Woken)
    BY <1>2
  <2> QED
    BY <1>1, <1>2, <2>1, <2>2 DEF WalkBegin, WalkInv, Members, ListOf, ListIn
<1>4. it' \in Node \cup {Woken, Null}
  BY <1>1 DEF ListIn, WalkBegin
<1>5. TypeOK'
  BY <1>4 DEF IInv, TypeOK, Members, WalkBegin
<1> QED
  BY <1>3, <1>5 DEF IInv, DoublyLinked, WalkBegin

LEMMA WalkStepPreserves ==
  ASSUME IInv, WalkStep
  PROVE  IInv'
<1> USE HeadAssumption, NullAssumption DEF Cell
<1> DEFINE nx == DetachNext(next, prev, it)
           pv == DetachPrev(next, prev, it)
           ow == [owner EXCEPT ![it] = Null]
<1>1. it \in Node /\ it \in Cell /\ it # Null /\ owner[it] = Woken
  BY DEF WalkStep, IInv, WalkInv, ListOf, ListIn
<1>2. /\ it' = next[it] /\ next[it] \in Cell /\ prev[it] \in Cell
      /\ prev[next[it]] = it /\ next[prev[it]] = it
      /\ ListIn(owner, next[it]) = Woken
  BY <1>1, Facts, Neighbours DEF WalkStep, ListIn
<1>3. /\ nx \in Pointers /\ pv \in Pointers /\ ow \in Owners
      /\ Agree(nx, pv, ow) /\ Ranked(nx) /\ next[it] # it /\ prev[it] # it
  BY <1>1, Facts, DetachAgrees, DetachRanked DEF IInv
<1>4. ow[it] = Null /\ \A x \in Node \ {it} : ow[x] = owner[x]
  BY <1>1, Facts DEF Owners
<1>5. /\ nx[prev[it]] = next[it] /\ pv[next[it]] = prev[it]
      /\ \A x \in Cell \ {it, prev[it]} : nx[x] = next[x]
      /\ \A x \in Cell \ {it, next[it]} : pv[x] = prev[x]
  BY <1>1, <1>2, <1>3, Facts DEF DetachNext, DetachPrev, Pointers
<1> HIDE DEF nx, pv, ow
(* What the walk sees of the pointers, in both outcomes. *)
<1>6. /\ next' \in Pointers /\ prev' \in Pointers /\ owner' \in Owners
      /\ Agree(next', prev', owner') /\ Ranked(next')
      /\ \A x \in Node \ {it} : /\ owner'[x] = owner[x]
                                /\ next'[x] = nx[x]
                                /\ owner[x] = Woken => prev'[x] = pv[x]
  <2>1. CASE next' = nx /\ prev' = pv /\ owner' = ow
    BY <2>1, <1>3, <1>4
  <2>2. ASSUME NEW h \in Head \ {Woken},
               next' = InsertNext(nx, it, h),
               prev' = InsertPrev(nx, pv, it, h),
               owner' = [owner EXCEPT ![it] = h]
        PROVE  /\ next' \in Pointers /\ prev' \in Pointers
               /\ owner' \in Owners
               /\ Agree(next', prev', owner') /\ Ranked(next')
               /\ \A x \in Node \ {it} : /\ owner'[x] = owner[x]
                                         /\ next'[x] = nx[x]
                                         /\ owner[x] = Woken => prev'[x] = pv[x]
    <3>1. owner' = [ow EXCEPT ![it] = h]
      BY <1>1, <2>2, Facts DEF Owners, ow
    <3>2. /\ next' \in Pointers /\ prev' \in Pointers /\ owner' \in Owners
          /\ Agree(next', prev', owner') /\ Ranked(next')
      <4>1. h \in Head
        BY <2>2
      <4>2. /\ InsertNext(nx, it, h) \in Pointers
            /\ InsertPrev(nx, pv, it, h) \in Pointers
            /\ [ow EXCEPT ![it] = h] \in Owners
            /\ Agree(InsertNext(nx, it, h), InsertPrev(nx, pv, it, h),
                     [ow EXCEPT ![it] = h])
        BY <4>1, <1>1, <1>3, <1>4, InsertAgrees
      <4>3. Ranked(InsertNext(nx, it, h))
        BY <4>1, <1>1, <1>3, <1>4, InsertRanked
      <4> QED
        BY <4>2, <4>3, <3>1, <2>2
    <3>3. nx[h] \in Cell /\ ListIn(ow, nx[h]) = h
      BY <1>3, Neighbours DEF ListIn
    <3>4. ASSUME NEW x \in Node \ {it} PROVE owner'[x] = owner[x] /\ next'[x] = nx[x]
      BY <2>2, <1>1, <1>3, Facts DEF InsertNext, Pointers, Owners
    <3>5. ASSUME NEW x \in Node \ {it}, owner[x] = Woken PROVE prev'[x] = pv[x]
      <4>1. x # nx[h]
        BY <3>3, <3>5, <1>4 DEF ListIn
      <4> QED
        BY <4>1, <2>2, <1>1, <1>3 DEF InsertPrev, Pointers
    <3> QED
      BY <3>2, <3>4, <3>5
  <2> QED
    BY <2>1, <2>2 DEF WalkStep, nx, pv, ow
<1>7. due' = due \ {it} /\ \A d \in due' : d \in Node \ {it} /\ owner[d] = Woken
  BY <1>1, Facts DEF WalkStep
<1>8. WalkInv'
  <2>1. ListOf(it)' = Woken
    BY <1>2, <1>3, <1>6 DEF ListOf, ListIn
  <2>2. it' \in Node => it' \in due'
    BY <1>1, <1>2, <1>3, <1>7 DEF IInv, WalkInv
  <2>3. due' \subseteq Members(Woken)'
    BY <1>6, <1>7 DEF Members
  <2>4. ASSUME NEW d \in due' PROVE next'[d] \in due' \cup {Woken}
    <3>1. d \in due /\ d \in Cell /\ d # it /\ next'[d] = nx[d]
      BY <1>6, <1>7, <2>4
    <3>2. CASE d = prev[it]
      BY <3>1, <3>2, <1>1, <1>3, <1>5, <1>7 DEF IInv, WalkInv
    <3>3. CASE d # prev[it]
      <4>1. next'[d] = next[d] /\ next[d] \in due \cup {Woken}
        BY <3>1, <3>3, <1>1, <1>5 DEF IInv, WalkInv
      <4>2. prev[next[d]] = d
        BY <3>1, <1>1, <1>7, <2>4, Facts, Neighbours DEF ListIn
      <4> QED
        BY <4>1, <4>2, <3>3, <1>7
    <3> QED
      BY <3>2, <3>3
  <2>5. ASSUME NEW d \in due' \ {it'} PROVE prev'[d] \in due'
    <3>1. /\ d \in due /\ d \in Cell /\ d # it /\ d # next[it]
          /\ prev'[d] = prev[d] /\ prev[d] \in due
      BY <1>1, <1>2, <1>5, <1>6, <1>7, <2>5 DEF IInv, WalkInv
    <3>2. next[prev[d]] = d
      BY <3>1, <1>7, <2>5, Facts, Neighbours DEF ListIn
    <3> QED
      BY <3>1, <3>2, <1>7
  <2> QED
    BY <2>1, <2>2, <2>3, <2>4, <2>5 DEF WalkInv
<1>9. TypeOK'
  <2>1. it' \in Node \cup {Woken, Null}
    BY <1>2, <1>8, HeadAssumption DEF WalkInv, ListOf, ListIn, Cell
  <2> QED
    BY <2>1, <1>6, <1>7 DEF IInv, TypeOK, Pointers, Owners
<1> QED
  BY <1>6, <1>8, <1>9 DEF IInv, DoublyLinked

LEMMA StepPreserves == IInv /\ [Next]_vars => IInv'
<1> SUFFICES ASSUME IInv, [Next]_vars PROVE IInv'
  OBVIOUS
<1>1. CASE WalkEnd
  BY <1>1, NullAssumption DEF IInv, TypeOK, DoublyLinked, WalkInv, WalkEnd
<1>2. CASE UNCHANGED vars
  BY <1>2 DEF IInv, TypeOK, DoublyLinked, WalkInv, Members, ListOf, vars
<1> QED
  BY <1>1, <1>2, PushBackPreserves, RemovePreserves, ClearPreserves,
     WalkBeginPreserves, WalkStepPreserves DEF Next

(* At the end of the list nothing is due: m_prev from a node that is due   *)
(* leads to another one that is due, and cannot do so for ever.            *)
LEMMA NothingDueAtEnd == IInv => WalkMissesNothing
<1> SUFFICES ASSUME IInv PROVE WalkMissesNothing
  OBVIOUS
<1>1. it # Null => ListOf(it) = Woken
  BY DEF IInv, WalkInv
<1>2. ASSUME it = Woken PROVE due = {}
  <2>1. it # Null /\ it \notin Node
    BY <1>2, HeadAssumption, NullAssumption
  <2>2. \A d \in due : prev[d] \in due /\ next[prev[d]] = d
    <3> SUFFICES ASSUME NEW d \in due
                 PROVE  prev[d] \in due /\ next[prev[d]] = d
      OBVIOUS
    <3>1. d \in Node /\ d \notin Head /\ owner[d] = Woken /\ d # it
      BY <2>1, Facts, HeadAssumption
    <3>2. next[prev[d]] = d
      BY <3>1, Facts, Neighbours, HeadAssumption, NullAssumption DEF ListIn, Cell
    <3> QED
      BY <3>1, <3>2, <2>1 DEF IInv, WalkInv
  <2> QED
    BY <2>2, Facts, NoEndlessPrev DEF IInv, TypeOK
<1> QED
  BY <1>1, <1>2 DEF WalkMissesNothing

-----------------------------------------------------------------------------
(* Following m_next from a head.                                           *)

(* w has what AfterSteps(h) has at each step up to n. *)
WalksTo(w, n, h) ==
  w = [k \in 0..n |-> IF k = 0 THEN h ELSE next[w[k - 1]]]

(* Pointers can be followed for as many steps as one likes. *)
LEMMA WalkExists ==
  ASSUME NEW h, NEW n \in Nat
  PROVE  \E w : WalksTo(w, n, h)
<1> DEFINE T == {k \in Nat : ~\E w : WalksTo(w, k, h)}
<1>1. ASSUME T # {} PROVE FALSE
  <2>1. T \in SUBSET Nat
    OBVIOUS
  <2>2. PICK x \in T : \A y \in T : ~(y < x)
    <3> HIDE DEF T
    <3> QED
      BY <1>1, <2>1, LeastNatural
  <2>3. x \in Nat /\ ~\E w : WalksTo(w, x, h)
    OBVIOUS
  <2>4. CASE x = 0
    <3>1. WalksTo([k \in 0..0 |-> h], 0, h)
      <4>1. \A k \in 0..0 : k = 0
        OBVIOUS
      <4> QED
        BY <4>1 DEF WalksTo
    <3> QED
      BY <2>3, <2>4, <3>1
  <2>5. CASE x # 0
    <3>1. x - 1 \in Nat /\ x - 1 < x
      BY <2>3, <2>5
    <3>2. x - 1 \notin T
      BY <2>2, <3>1
    <3>3. PICK w : WalksTo(w, x - 1, h)
      BY <3>1, <3>2
    <3> DEFINE v == [k \in 0..x |-> IF k = x THEN next[w[x - 1]] ELSE w[k]]
    <3>4. ASSUME NEW k \in 0..x
          PROVE  v[k] = IF k = 0 THEN h ELSE next[v[k - 1]]
      <4>1. CASE k = 0
        <5>1. 0 \in 0..(x - 1) /\ k # x
          BY <2>3, <2>5, <4>1
        <5>2. w[0] = h
          BY <3>3, <5>1 DEF WalksTo
        <5> QED
          BY <4>1, <5>1, <5>2
      <4>2. CASE k # 0
        <5>1. k - 1 \in 0..x /\ k - 1 # x
          BY <2>3, <4>2
        <5>2. v[k - 1] = w[k - 1]
          BY <5>1
        <5>3. CASE k = x
          BY <4>2, <5>2, <5>3
        <5>4. CASE k # x
          <6>1. k \in 0..(x - 1)
            BY <2>3, <5>4
          <6>2. w[k] = next[w[k - 1]]
            BY <3>3, <4>2, <6>1 DEF WalksTo
          <6> QED
            BY <4>2, <5>2, <5>4, <6>2
        <5> QED
          BY <5>3, <5>4
      <4> QED
        BY <4>1, <4>2
    <3>5. WalksTo(v, x, h)
      <4>1. v = [k \in 0..x |-> v[k]]
        OBVIOUS
      <4> HIDE DEF v
      <4> QED
        BY <3>4, <4>1 DEF WalksTo
    <3> QED
      BY <2>3, <3>5
  <2> QED
    BY <2>4, <2>5
<1> QED
  BY <1>1

(* So AfterSteps is what its definition says. *)
LEMMA AfterStepsWalks ==
  ASSUME NEW h
  PROVE  LET n == Cardinality(Node) + 1
             w == AfterSteps(h)
         IN  /\ n - 1 \in Nat /\ w[0] = h
             /\ \A k \in 1..n : w[k] = next[w[k - 1]]
<1> DEFINE n == Cardinality(Node) + 1
           w == AfterSteps(h)
<1>1. n \in Nat /\ n - 1 \in Nat
  BY NodeAssumption, FS_CardinalityType
<1>2. w = CHOOSE v : WalksTo(v, n, h)
  BY DEF AfterSteps, WalksTo
<1>3. WalksTo(w, n, h)
  <2> HIDE DEF n
  <2>1. PICK v : WalksTo(v, n, h)
    BY <1>1, WalkExists
  <2>2. WalksTo(CHOOSE u : WalksTo(u, n, h), n, h)
    BY <2>1
  <2> QED
    BY <1>2, <2>2
<1> HIDE DEF n, w
<1>4. 0 \in 0..n /\ \A k \in 1..n : k \in 0..n /\ k # 0
  BY <1>1
<1>5. w[0] = h /\ \A k \in 1..n : w[k] = next[w[k - 1]]
  BY <1>3, <1>4 DEF WalksTo
<1> QED
  BY <1>1, <1>5 DEF n, w

(* m_next leads from a head and the nodes of its list to those again, and  *)
(* m_prev back.                                                            *)
LEMMA RingCloses ==
  ASSUME IInv, NEW h \in Head, NEW x \in Members(h) \cup {h}
  PROVE  /\ next[x] \in Members(h) \cup {h} /\ prev[next[x]] = x
         /\ prev[x] \in Members(h) \cup {h} /\ next[prev[x]] = x
<1>1. x \in Cell /\ ListIn(owner, x) = h /\ h # Null
  BY HeadAssumption, NullAssumption DEF Members, ListIn, Cell
<1>2. /\ next[x] \in Cell /\ prev[x] \in Cell
      /\ prev[next[x]] = x /\ next[prev[x]] = x
      /\ ListIn(owner, next[x]) = h /\ ListIn(owner, prev[x]) = h
  BY <1>1, Facts, Neighbours
<1>3. \A y \in Cell : ListIn(owner, y) = h => y \in Members(h) \cup {h}
  BY DEF Members, ListIn, Cell
<1> QED
  BY <1>2, <1>3

(* Following m_next from a head visits each node of that list exactly once *)
(* before it comes back to the head.                                       *)
LEMMA RingIsVisited == IInv => RingVisitsMembers
<1> SUFFICES ASSUME IInv, NEW h \in Head
             PROVE  LET size == Cardinality(Members(h))
                        walk == AfterSteps(h)
                    IN  /\ {walk[k] : k \in 1..size} = Members(h)
                        /\ walk[size + 1] = h
  BY DEF RingVisitsMembers
<1> DEFINE M == Members(h)
           size == Cardinality(M)
           w == AfterSteps(h)
<1>1. /\ IsFiniteSet(M) /\ size \in Nat /\ size <= Cardinality(Node)
      /\ Cardinality(Node) \in Nat /\ M \subseteq Node /\ h \notin M
  <2>1. M \in SUBSET Node /\ h \notin M
    BY HeadAssumption DEF Members
  <2> QED
    BY <2>1, NodeAssumption, FS_Subset, FS_CardinalityType
<1>2. w[0] = h /\ \A k \in 1..(size + 1) : w[k] = next[w[k - 1]]
  <2>1. /\ w[0] = h
        /\ \A k \in 1..(Cardinality(Node) + 1) : w[k] = next[w[k - 1]]
    BY AfterStepsWalks
  <2>2. 1..(size + 1) \subseteq 1..(Cardinality(Node) + 1)
    BY <1>1
  <2> HIDE DEF size, w
  <2> QED
    BY <2>1, <2>2
<1>3. \A x \in M \cup {h} : /\ next[x] \in M \cup {h} /\ prev[next[x]] = x
                            /\ prev[x] \in M \cup {h} /\ next[prev[x]] = x
  BY RingCloses
<1>4. size = Cardinality(M)
  OBVIOUS
<1> HIDE DEF M, size, w
(* The walk stays on the list. *)
<1>5. \A k \in 0..(size + 1) : w[k] \in M \cup {h}
  <2> DEFINE T == {k \in 0..(size + 1) : w[k] \notin M \cup {h}}
  <2> SUFFICES ASSUME T # {} PROVE FALSE
    OBVIOUS
  <2>1. T \in SUBSET Nat
    OBVIOUS
  <2>2. PICK x \in T : \A y \in T : ~(y < x)
    <3> HIDE DEF T
    <3> QED
      BY <2>1, LeastNatural
  <2>3. x \in 1..(size + 1) /\ x - 1 \in 0..(size + 1) /\ x - 1 < x
    BY <1>1, <1>2
  <2>4. w[x - 1] \in M \cup {h}
    BY <2>2, <2>3
  <2> QED
    BY <1>2, <1>3, <2>3, <2>4
(* It meets no node twice before it comes back to the head. *)
<1>6. ASSUME NEW j \in 0..(size + 1), \A k \in 1..j : w[k] \in M
      PROVE  \A i, k \in 1..j : i < k => w[i] # w[k]
  <2> DEFINE T == {i \in 1..j : \E k \in 1..j : i < k /\ w[i] = w[k]}
  <2> SUFFICES ASSUME T # {} PROVE FALSE
    OBVIOUS
  <2>1. T \in SUBSET Nat
    OBVIOUS
  <2>2. PICK i \in T : \A y \in T : ~(y < i)
    <3> HIDE DEF T
    <3> QED
      BY <2>1, LeastNatural
  <2>3. PICK k \in 1..j : i < k /\ w[i] = w[k]
    OBVIOUS
  <2>4. /\ i \in 1..(size + 1) /\ i - 1 \in 0..(size + 1) /\ i \in 1..j
        /\ k \in 1..(size + 1) /\ k - 1 \in 1..j /\ k - 1 \in 0..(size + 1)
        /\ i - 1 < k - 1 /\ i - 1 < i
    BY <1>1, <2>3
  <2>5. w[i - 1] = w[k - 1]
    <3>1. prev[w[i]] = w[i - 1] /\ prev[w[k]] = w[k - 1]
      BY <1>2, <1>3, <1>5, <2>4
    <3> QED
      BY <2>3, <3>1
  <2>6. CASE i = 1
    BY <1>1, <1>2, <1>6, <2>4, <2>5, <2>6
  <2>7. CASE i # 1
    <3>1. i - 1 \in 1..j
      BY <2>4, <2>7
    <3>2. i - 1 \in T
      BY <2>4, <2>5, <3>1
    <3> QED
      BY <2>2, <2>4, <3>2
  <2> QED
    BY <2>6, <2>7
(* It comes back: there are not so many nodes that it need not. *)
<1>7. \E k \in 1..(size + 1) : w[k] = h
  <2> SUFFICES ASSUME \A k \in 1..(size + 1) : w[k] # h PROVE FALSE
    OBVIOUS
  <2> DEFINE n == size + 1
             f == [k \in 1..n |-> w[k]]
  <2>1. n \in 0..(size + 1) /\ n \in Int /\ n > 0 /\ n > size
    BY <1>1
  <2>2. \A k \in 1..n : w[k] \in M
    BY <1>1, <1>5
  <2>3. f \in [1..n -> M]
    BY <2>2
  <2>4. IsFiniteSet(1..n) /\ Cardinality(1..n) = n
    <3> HIDE DEF n
    <3> QED
      BY <2>1, FS_Interval
  <2>5. Cardinality(M) < Cardinality(1..n)
    BY <1>1, <1>4, <2>1, <2>4
  <2>6. PICK x, y \in 1..n : x # y /\ f[x] = f[y]
    <3> HIDE DEF f, n
    <3> QED
      BY <1>1, <2>3, <2>4, <2>5, FS_PigeonHole
  <2>7. w[x] = w[y] /\ (x < y \/ y < x)
    BY <2>1, <2>6
  <2> HIDE DEF n
  <2> QED
    BY <1>6, <2>1, <2>2, <2>7
<1>8. PICK l \in 1..(size + 1) : w[l] = h /\ \A k \in 1..(l - 1) : w[k] \in M
  <2> DEFINE T == {k \in 1..(size + 1) : w[k] = h}
  <2>1. T \in SUBSET Nat /\ T # {}
    BY <1>7
  <2>2. PICK x \in T : \A y \in T : ~(y < x)
    <3> HIDE DEF T
    <3> QED
      BY <2>1, LeastNatural
  <2>3. ASSUME NEW k \in 1..(x - 1)
        PROVE  w[k] \in M
    <3>1. k \in 1..(size + 1) /\ k < x /\ k \in 0..(size + 1)
      BY <1>1
    <3> QED
      BY <1>5, <2>2, <3>1
  <2> QED
    BY <2>3
(* Nothing is left: m_prev would lead from it to more that is left. *)
<1> DEFINE V == {w[k] : k \in 1..(l - 1)}
<1>9. V = M
  <2> DEFINE S == M \ V
  <2>1. ASSUME NEW n \in S
        PROVE  prev[n] \in S /\ next[prev[n]] = n
    <3>1. n \in M /\ prev[n] \in M \cup {h} /\ next[prev[n]] = n
      BY <1>3
    <3>2. ASSUME NEW k \in 0..(l - 1), prev[n] = w[k]
          PROVE  FALSE
      <4>1. k + 1 \in 1..(size + 1) /\ (k + 1) - 1 = k
        BY <1>1
      <4>2. n = w[k + 1]
        BY <1>2, <3>1, <3>2, <4>1
      <4>3. k + 1 = l \/ k + 1 \in 1..(l - 1)
        BY <1>1
      <4> QED
        BY <1>1, <1>8, <3>1, <4>2, <4>3
    <3>3. 0 \in 0..(l - 1) /\ 1..(l - 1) \subseteq 0..(l - 1)
      BY <1>1
    <3> QED
      BY <1>2, <3>1, <3>2, <3>3
  <2>2. S \in SUBSET Node /\ Ranked(next) /\ next \in Pointers /\ prev \in Pointers
    BY <1>1, Facts DEF IInv
  <2>3. S = {}
    <3> HIDE DEF S
    <3> QED
      BY <2>1, <2>2, NoEndlessPrev
  <2> QED
    BY <1>8, <2>3
<1>10. l - 1 = size
  <2>1. l - 1 \in Nat /\ l - 1 <= size
    BY <1>1
  <2> DEFINE n == l - 1
             f == [k \in 1..n |-> w[k]]
  <2>2. f \in Surjection(1..n, M)
    BY <1>8, <1>9 DEF Surjection
  <2>3. size <= n
    <3>1. ExistsSurjection(1..n, M) /\ n \in Nat
      BY <2>1, <2>2 DEF ExistsSurjection
    <3> HIDE DEF n
    <3> QED
      BY <1>4, <3>1, FS_SurjCardinalityBound
  <2> QED
    BY <1>1, <2>1, <2>3
<1>11. w[size + 1] = h /\ {w[k] : k \in 1..size} = M
  <2>1. l = size + 1
    BY <1>1, <1>10
  <2> QED
    BY <1>8, <1>9, <1>10, <2>1
<1> QED
  BY <1>11 DEF M, size, w

-----------------------------------------------------------------------------

(* Every pointer of every hook is a hook or null, whatever the operations. *)
THEOREM TypeCorrect == Spec => []TypeOK
<1>1. IInv => TypeOK
  BY DEF IInv
<1> QED
  BY <1>1, InitEstablishes, StepPreserves, PTL DEF Spec

(* The hooks of all lists stay doubly linked under push_back, remove,      *)
(* clear and the walk, for any number of nodes and lists.                  *)
THEOREM AlwaysDoublyLinked == Spec => []DoublyLinked
<1>1. IInv => DoublyLinked
  BY DEF IInv
<1> QED
  BY <1>1, InitEstablishes, StepPreserves, PTL DEF Spec

(* The loop of win32_run.cpp:136-147 reaches the end of m_woken_sleepers   *)
(* only after every node that was there when it began.                     *)
THEOREM WalkIsComplete == Spec => []WalkMissesNothing
<1> QED
  BY NothingDueAtEnd, InitEstablishes, StepPreserves, PTL DEF Spec

(* Following m_next from the head of any list visits each of its nodes     *)
(* exactly once and comes back to the head, whatever has been pushed,      *)
(* removed and cleared: no node is cut off, and none is on two lists.      *)
THEOREM RingsAreWhole == Spec => []RingVisitsMembers
<1> QED
  BY RingIsVisited, InitEstablishes, StepPreserves, PTL DEF Spec
=============================================================================

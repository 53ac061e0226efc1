--------------------------- MODULE IntrusiveList ---------------------------
(***************************************************************************)
(* The intrusive doubly linked list of src/src/intrusive_list.h, as its    *)
(* users work with it: nodes move between several lists (m_sleepers and    *)
(* m_woken_sleepers of src/src/win32_run.cpp), remove does not say which   *)
(* list the node is on, and the loop of win32_run.cpp:136-147 walks one    *)
(* list while the callbacks it makes push and remove nodes.                *)
(*                                                                         *)
(* A cell is an intrusive_hook: a node's, or the m_head of a list.         *)
(***************************************************************************)
EXTENDS Naturals, FiniteSets

CONSTANTS Node,     \* the objects that can be on a list
          Head,     \* one per list: the address of its m_head
          Woken,    \* the list that is walked
          Null      \* nullptr

ASSUME HeadAssumption == /\ Head \cap Node = {}
                         /\ Woken \in Head
ASSUME NullAssumption == Null \notin Node \cup Head
ASSUME NodeAssumption == IsFiniteSet(Node)  \* a program makes so many

VARIABLES next,     \* m_next of each cell
          prev,     \* m_prev of each cell
          owner,    \* the list a node is on, or Null (history)
          it,       \* the iterator of the walk, or Null when none is under way
          due       \* what the walk still has to visit (history)

vars == <<next, prev, owner, it, due>>

Cell == Node \cup Head

TypeOK ==
  /\ next \in [Cell -> Cell \cup {Null}]
  /\ prev \in [Cell -> Cell \cup {Null}]
  /\ owner \in [Node -> Head \cup {Null}]
  /\ it \in Node \cup {Woken, Null}
  /\ due \subseteq Node

Init ==
  /\ next = [x \in Cell |-> IF x \in Head THEN x ELSE Null]
  /\ prev = [x \in Cell |-> IF x \in Head THEN x ELSE Null]
  /\ owner = [n \in Node |-> Null]
  /\ it = Null
  /\ due = {}

Members(h) == {n \in Node : owner[n] = h}

-----------------------------------------------------------------------------
(* The pointer assignments of insert(n, where) and detach, applied to the  *)
(* pointers nx and pv.                                                     *)

InsertNext(nx, n, where) == [nx EXCEPT ![n] = nx[where], ![where] = n]
InsertPrev(nx, pv, n, where) == [pv EXCEPT ![n] = where, ![nx[where]] = n]

(* Mutation: the next neighbour keeps its pointer to the node. *)
DetachPrevHalf(nx, pv, n) == [pv EXCEPT ![n] = Null]

DetachNext(nx, pv, n) == [nx EXCEPT ![pv[n]] = nx[n], ![n] = Null]
DetachPrev(nx, pv, n) == [pv EXCEPT ![nx[n]] = pv[n], ![n] = Null]

(* Mutation: push_back inserts before the head. *)
PushBackAtEnd(h, n) ==
  /\ owner[n] = Null
  /\ next' = [next EXCEPT ![n] = h, ![prev[h]] = n]
  /\ prev' = [prev EXCEPT ![n] = prev[h], ![h] = n]
  /\ owner' = [owner EXCEPT ![n] = h]
  /\ UNCHANGED <<it, due>>

(* insert puts the node after its argument, so push_back, which passes     *)
(* end(), puts it at the front.                                            *)
PushBack(h, n) ==
  /\ owner[n] = Null
  /\ next' = InsertNext(next, n, h)
  /\ prev' = InsertPrev(next, prev, n, h)
  /\ owner' = [owner EXCEPT ![n] = h]
  /\ UNCHANGED <<it, due>>

(* remove of a node other than the one the walk is at. *)
Remove(n) ==
  /\ owner[n] # Null
  /\ n # it
  /\ next' = DetachNext(next, prev, n)
  /\ prev' = DetachPrev(next, prev, n)
  /\ owner' = [owner EXCEPT ![n] = Null]
  /\ due' = due \ {n}
  /\ UNCHANGED it

(* clear of a list that is not being walked. *)
Clear(h) ==
  /\ h = Woken => it = Null
  /\ LET Emptied(ptr) == [x \in Cell |-> IF x \in Members(h) THEN Null
                                         ELSE IF x = h THEN h
                                         ELSE ptr[x]]
     IN  next' = Emptied(next) /\ prev' = Emptied(prev)
  /\ owner' = [n \in Node |-> IF owner[n] = h THEN Null ELSE owner[n]]
  /\ UNCHANGED <<it, due>>

-----------------------------------------------------------------------------
(* The walk.                                                               *)

(* it = begin() *)
WalkBegin ==
  /\ it = Null
  /\ it' = next[Woken]
  /\ due' = Members(Woken)
  /\ UNCHANGED <<next, prev, owner>>

(* Mutations: the iterator is advanced by remove and by the loop; it is     *)
(* read from the node after the node was pushed on another list.           *)
WalkStepTwice ==
  /\ it \in Node
  /\ it' = IF next[it] \in Node THEN next[next[it]] ELSE next[it]
  /\ due' = due \ {it}
  /\ next' = DetachNext(next, prev, it)
  /\ prev' = DetachPrev(next, prev, it)
  /\ owner' = [owner EXCEPT ![it] = Null]

WalkStepAfterPush ==
  /\ it \in Node
  /\ due' = due \ {it}
  /\ LET nx == DetachNext(next, prev, it)
         pv == DetachPrev(next, prev, it)
     IN  \E h \in Head \ {Woken} :
           /\ next' = InsertNext(nx, it, h)
           /\ prev' = InsertPrev(nx, pv, it, h)
           /\ owner' = [owner EXCEPT ![it] = h]
  /\ it' = next'[it]

(* The callback of the node is over: it = remove(node), and the node is    *)
(* deleted, or pushed on another list to be scheduled again.               *)
WalkStep ==
  /\ it \in Node
  /\ it' = next[it]
  /\ due' = due \ {it}
  /\ LET nx == DetachNext(next, prev, it)
         pv == DetachPrev(next, prev, it)
     IN  \/ /\ next' = nx
            /\ prev' = pv
            /\ owner' = [owner EXCEPT ![it] = Null]
         \/ \E h \in Head \ {Woken} :
              /\ next' = InsertNext(nx, it, h)
              /\ prev' = InsertPrev(nx, pv, it, h)
              /\ owner' = [owner EXCEPT ![it] = h]

(* it == end() *)
WalkEnd ==
  /\ it = Woken
  /\ it' = Null
  /\ UNCHANGED <<next, prev, owner, due>>

Next ==
  \/ \E n \in Node : Remove(n) \/ \E h \in Head : PushBack(h, n)
  \/ \E h \in Head : Clear(h)
  \/ WalkBegin \/ WalkStep \/ WalkEnd

(* A callback returns: the walk goes on, whatever the callbacks push. *)
Fairness == WF_vars(WalkStep \/ WalkEnd)

Spec == Init /\ [][Next]_vars /\ Fairness

-----------------------------------------------------------------------------
(* Safety.                                                                 *)

(* The list that cell x is on when ow says where the nodes are. *)
ListIn(ow, x) == IF x \in Head THEN x ELSE ow[x]
ListOf(x) == ListIn(owner, x)

(* The pointers nx and pv agree with ow. *)
Agree(nx, pv, ow) ==
  \A x \in Cell :
    IF ListIn(ow, x) = Null
    THEN nx[x] = Null /\ pv[x] = Null
    ELSE /\ nx[x] # Null /\ pv[nx[x]] = x
         /\ pv[x] # Null /\ nx[pv[x]] = x
         /\ ListIn(ow, nx[x]) = ListIn(ow, x)

(* The two pointers of a hook are both null or both set, each is the       *)
(* other's inverse, the heads are always linked, and neighbours are on the *)
(* same list: no operation on a node that is on a list follows a null      *)
(* pointer, and remove need not be told which list that is.                *)
DoublyLinked == Agree(next, prev, owner)

(* Following m_next from a head visits each node of that list exactly once *)
(* and comes back to the head: no node is cut off, none is on two lists.   *)
AfterSteps(h) ==
  LET walk[k \in 0..Cardinality(Node) + 1] ==
        IF k = 0 THEN h ELSE next[walk[k - 1]]
  IN  walk

RingVisitsMembers ==
  \A h \in Head :
    LET size == Cardinality(Members(h))
        walk == AfterSteps(h)
    IN  /\ {walk[k] : k \in 1..size} = Members(h)
        /\ walk[size + 1] = h

(* The iterator always stands on a node of the walked list or at its end,  *)
(* and when it gets there every node that was on the list when the walk    *)
(* began has been called back or was removed by someone else.              *)
WalkMissesNothing ==
  /\ it # Null => ListOf(it) = Woken
  /\ it = Woken => due = {}

-----------------------------------------------------------------------------
(* Liveness.                                                               *)

(* A walk comes to an end although its callbacks may push nodes on the     *)
(* list for ever: what is pushed goes to the front, behind the iterator.   *)
WalkEnds == (it # Null) ~> (it = Null)

=============================================================================

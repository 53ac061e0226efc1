-------------------------- MODULE LinuxRun_proofs --------------------------
(***************************************************************************)
(* For every set of leaves, descriptors and addresses: the scheduler never *)
(* holds a pointer to a deleted item, keeps one item for each pending leaf *)
(* and loses a wakeup only where the kernel refused an EPOLL_CTL_ADD for   *)
(* that descriptor or where it was closed.                                 *)
(***************************************************************************)
EXTENDS LinuxRun, TLAPS

(* Items held and a kernel list registered that serve the pending leaves P *)
(* when R is the set of leaves whose EPOLL_CTL_ADD has failed and D that   *)
(* of the descriptors that have been closed: a refused leaf is registered  *)
(* nowhere, and takes another's registration down only by its own end.     *)
Serves(held, registered, P, R, D) ==
  /\ held \in [Addr -> Item \cup {NoItem}]
  /\ registered \in [Fd -> Addr \cup {Null}]
  /\ \A a \in Addr : held[a] # NoItem => \E l \in P : held[a] = ItemOf(l)
  /\ \A l \in P : \E a \in Addr : held[a] = ItemOf(l)
  /\ \A a, b \in Addr : held[a] # NoItem /\ held[a] = held[b] => a = b
  /\ \A f \in Fd : registered[f] # Null =>
       \E l \in P \ R : FdOf[l] = f /\ held[registered[f]] = ItemOf(l)
  /\ \A l \in P \ R : \/ FdOf[l] \in D
                      \/ \E m \in R \ P : FdOf[m] = FdOf[l]
                      \/ /\ registered[FdOf[l]] # Null
                         /\ held[registered[FdOf[l]]] = ItemOf(l)

LEMMA ItemsDiffer ==
  /\ \A l \in Leaf : ItemOf(l) # NoItem /\ ItemOf(l) \in Item
                     /\ ItemOf(l).sink = l /\ ItemOf(l).fd = FdOf[l]
                     /\ FdOf[l] \in Fd
  /\ \A l, m \in Leaf : ItemOf(l) = ItemOf(m) => l = m
BY NullAssumption, LeafAssumption DEF ItemOf, NoItem, Item

(* Deleting the item of l and whatever is registered for its descriptor.   *)
LEMMA Removal ==
  ASSUME NEW held, NEW registered, NEW P \in SUBSET Leaf, NEW R \in SUBSET Leaf,
         NEW D \in SUBSET Fd, Serves(held, registered, P, R, D),
         NEW l \in P, NEW a \in Addr, held[a] = ItemOf(l)
  PROVE  Serves([held EXCEPT ![a] = NoItem],
                [registered EXCEPT ![FdOf[l]] = Null], P \ {l}, R, D)
<1> DEFINE held2 == [held EXCEPT ![a] = NoItem]
           registered2 == [registered EXCEPT ![FdOf[l]] = Null]
<1>1. /\ held2 \in [Addr -> Item \cup {NoItem}]
      /\ registered2 \in [Fd -> Addr \cup {Null}]
  BY ItemsDiffer DEF Serves
<1>2. /\ held2[a] = NoItem
      /\ \A b \in Addr \ {a} : held2[b] = held[b]
      /\ \A f \in Fd \ {FdOf[l]} : registered2[f] = registered[f]
      /\ registered2[FdOf[l]] = Null
  BY ItemsDiffer DEF Serves
<1> HIDE DEF held2, registered2
<1>3. ASSUME NEW b \in Addr, held2[b] # NoItem
      PROVE  \E m \in P \ {l} : held2[b] = ItemOf(m)
  <2>1. b # a /\ held2[b] = held[b]
    BY <1>2, <1>3
  <2>2. PICK m \in P : held[b] = ItemOf(m)
    BY <1>3, <2>1 DEF Serves
  <2>3. m # l
    BY <2>1, <2>2, ItemsDiffer DEF Serves
  <2> QED
    BY <2>1, <2>2, <2>3
<1>4. ASSUME NEW m \in P \ {l}
      PROVE  \E b \in Addr : held2[b] = ItemOf(m)
  <2>1. PICK b \in Addr : held[b] = ItemOf(m)
    BY DEF Serves
  <2>2. b # a
    BY <2>1, ItemsDiffer
  <2> QED
    BY <1>2, <2>1, <2>2
<1>5. \A b, c \in Addr : held2[b] # NoItem /\ held2[b] = held2[c] => b = c
  BY <1>2 DEF Serves
<1>6. ASSUME NEW f \in Fd, registered2[f] # Null
      PROVE  \E m \in (P \ {l}) \ R :
               FdOf[m] = f /\ held2[registered2[f]] = ItemOf(m)
  <2>1. f # FdOf[l] /\ registered2[f] = registered[f] /\ registered[f] \in Addr
    BY <1>2, <1>6 DEF Serves
  <2>2. PICK m \in P \ R : FdOf[m] = f /\ held[registered[f]] = ItemOf(m)
    BY <1>6, <2>1 DEF Serves
  <2>3. m # l /\ registered[f] # a
    BY <2>1, <2>2, ItemsDiffer
  <2> QED
    BY <1>2, <2>1, <2>2, <2>3
<1>7. ASSUME NEW m \in (P \ {l}) \ R, FdOf[m] \notin D,
             \A k \in R \ (P \ {l}) : FdOf[k] # FdOf[m]
      PROVE  /\ registered2[FdOf[m]] # Null
             /\ held2[registered2[FdOf[m]]] = ItemOf(m)
  <2>1. /\ registered[FdOf[m]] # Null /\ registered[FdOf[m]] \in Addr
        /\ held[registered[FdOf[m]]] = ItemOf(m)
    BY <1>7, ItemsDiffer DEF Serves
  <2>2. FdOf[l] # FdOf[m]
    <3> SUFFICES ASSUME FdOf[l] = FdOf[m] PROVE FALSE
      OBVIOUS
    <3>1. l \notin R
      BY <1>7
    <3>2. \A k \in R \ P : FdOf[k] # FdOf[l]
      BY <1>7
    <3>3. held[registered[FdOf[l]]] = ItemOf(l)
      BY <1>7, <3>1, <3>2 DEF Serves
    <3> QED
      BY <2>1, <3>3, <1>7, ItemsDiffer
  <2>3. registered[FdOf[m]] # a
    BY <2>1, ItemsDiffer
  <2> QED
    BY <1>2, <2>1, <2>2, <2>3, ItemsDiffer
<1> QED
  BY <1>1, <1>3, <1>4, <1>5, <1>6, <1>7 DEF Serves, held2, registered2

(* add_fd for a leaf l that has no item and was not refused before. *)
LEMMA Addition ==
  ASSUME NEW held, NEW registered, NEW P \in SUBSET Leaf, NEW R \in SUBSET Leaf,
         NEW D \in SUBSET Fd, Serves(held, registered, P, R, D),
         NEW l \in Leaf \ (P \cup R), NEW a \in Addr, held[a] = NoItem,
         NEW registered2, NEW R2,
         \/ /\ registered[FdOf[l]] = Null
            /\ registered2 = [registered EXCEPT ![FdOf[l]] = a]
            /\ R2 = R
         \/ /\ registered2 = registered
            /\ R2 = R \cup {l}
  PROVE  Serves([held EXCEPT ![a] = ItemOf(l)], registered2, P \cup {l}, R2, D)
<1> DEFINE held2 == [held EXCEPT ![a] = ItemOf(l)]
<1>1. /\ held2 \in [Addr -> Item \cup {NoItem}]
      /\ registered2 \in [Fd -> Addr \cup {Null}]
      /\ held2[a] = ItemOf(l)
      /\ \A b \in Addr \ {a} : held2[b] = held[b]
  BY ItemsDiffer DEF Serves
<1>2. /\ \A f \in Fd \ {FdOf[l]} : registered2[f] = registered[f]
      /\ l \notin R2 => registered2[FdOf[l]] = a
      /\ registered[FdOf[l]] # Null => registered2 = registered
      /\ registered2[FdOf[l]] # registered[FdOf[l]] =>
           registered2[FdOf[l]] = a /\ l \notin R2
      /\ R \subseteq R2 /\ R2 \subseteq R \cup {l}
  BY ItemsDiffer, NullAssumption DEF Serves
<1> HIDE DEF held2
<1>3. \A b \in Addr : held2[b] # NoItem => \E m \in P \cup {l} : held2[b] = ItemOf(m)
  BY <1>1 DEF Serves
<1>4. ASSUME NEW m \in P \cup {l} PROVE \E b \in Addr : held2[b] = ItemOf(m)
  <2>1. CASE m = l
    BY <2>1, <1>1
  <2>2. CASE m \in P
    BY <2>2, <1>1, ItemsDiffer DEF Serves
  <2> QED
    BY <2>1, <2>2
<1>5. \A b \in Addr : held[b] # ItemOf(l)
  BY ItemsDiffer DEF Serves
<1>6. \A b, c \in Addr : held2[b] # NoItem /\ held2[b] = held2[c] => b = c
  BY <1>1, <1>5 DEF Serves
<1>7. ASSUME NEW f \in Fd, registered2[f] # Null
      PROVE  \E m \in (P \cup {l}) \ R2 :
               FdOf[m] = f /\ held2[registered2[f]] = ItemOf(m)
  <2>1. CASE registered[f] # Null
    <3>1. PICK m \in P \ R : FdOf[m] = f /\ held[registered[f]] = ItemOf(m)
      BY <2>1 DEF Serves
    <3>2. registered2[f] = registered[f] /\ registered[f] \in Addr
      BY <2>1, <1>2 DEF Serves
    <3>3. registered[f] # a
      BY <3>1, ItemsDiffer
    <3>4. m \notin R2
      BY <1>2, <3>1
    <3> QED
      BY <1>1, <3>1, <3>2, <3>3, <3>4
  <2>2. CASE registered[f] = Null
    BY <2>2, <1>1, <1>2, <1>7
  <2> QED
    BY <2>1, <2>2
<1>8. ASSUME NEW m \in (P \cup {l}) \ R2, FdOf[m] \notin D,
             \A k \in R2 \ (P \cup {l}) : FdOf[k] # FdOf[m]
      PROVE  /\ registered2[FdOf[m]] # Null
             /\ held2[registered2[FdOf[m]]] = ItemOf(m)
  <2>1. CASE m = l
    BY <2>1, <1>1, <1>2, <1>8, NullAssumption
  <2>2. CASE m # l
    <3>1. m \in P \ R /\ \A k \in R \ P : FdOf[k] # FdOf[m]
      BY <2>2, <1>2, <1>8
    <3>2. /\ registered[FdOf[m]] # Null /\ registered[FdOf[m]] \in Addr
          /\ held[registered[FdOf[m]]] = ItemOf(m)
      BY <3>1, <1>8, ItemsDiffer DEF Serves
    <3>3. registered2[FdOf[m]] = registered[FdOf[m]]
      BY <3>1, <3>2, <1>2, ItemsDiffer
    <3>4. registered[FdOf[m]] # a
      BY <2>2, <3>2, ItemsDiffer
    <3> QED
      BY <1>1, <3>2, <3>3, <3>4
  <2> QED
    BY <2>1, <2>2
<1> QED
  BY <1>1, <1>3, <1>4, <1>6, <1>7, <1>8 DEF Serves, held2

-----------------------------------------------------------------------------
(* The inductive invariant: the lists serve the pending leaves, a refused  *)
(* leaf has been started, and a task that has completed has none pending.  *)
IInv ==
  /\ TypeOK
  /\ \A l \in refused : phase[l] \in {"pending", "gone"}
  /\ Serves(items, interest, Pending, refused, closed)
  /\ updated /\ ctl # "start" => Pending = {}
  /\ fault # "remove_fd"

LEMMA InitEstablishes == Init => IInv
<1> SUFFICES ASSUME Init PROVE IInv
  OBVIOUS
<1>1. Pending = {}
  BY DEF Init, Pending
<1>2. items \in [Addr -> Item \cup {NoItem}] /\ \A a \in Addr : items[a] = NoItem
  BY DEF Init
<1>3. interest \in [Fd -> Addr \cup {Null}] /\ \A f \in Fd : interest[f] = Null
  BY DEF Init
<1>4. Serves(items, interest, Pending, refused, closed)
  BY <1>1, <1>2, <1>3 DEF Serves, Init
<1>5. TypeOK
  <2>1. /\ phase \in [Leaf -> {"unborn", "fresh", "pending", "gone"}]
        /\ told \in [Leaf -> Nat]
    BY DEF Init
  <2>2. again \in 0..MaxAgain
    BY BoundAssumption DEF Init
  <2> QED
    BY <1>2, <1>3, <2>1, <2>2 DEF Init, TypeOK
<1> QED
  BY <1>1, <1>4, <1>5 DEF IInv, Init

LEMMA StartPreserves ==
  ASSUME IInv, NEW l \in Leaf, LeafStart(l)
  PROVE  IInv'
<1>1. /\ l \in Leaf \ (Pending \cup refused) /\ Pending' = Pending \cup {l}
      /\ Pending \in SUBSET Leaf
  BY DEF LeafStart, Pending, IInv, TypeOK
<1>2. PICK a \in Addr :
        /\ items[a] = NoItem
        /\ items' = [items EXCEPT ![a] = ItemOf(l)]
        /\ \/ /\ interest[FdOf[l]] = Null
              /\ interest' = [interest EXCEPT ![FdOf[l]] = a]
              /\ refused' = refused
           \/ /\ interest' = interest
              /\ refused' = refused \cup {l}
  BY DEF LeafStart, AddFd
<1>3. Serves(items', interest', Pending', refused', closed')
  <2>1. closed' = closed
    BY DEF LeafStart
  <2> QED
    BY <1>1, <1>2, <2>1, Addition DEF IInv, TypeOK
<1>4. TypeOK'
  BY <1>2, <1>3, ItemsDiffer DEF ctlVars, LeafStart, IInv, TypeOK, Serves
<1>5. (updated /\ ctl # "start" => Pending = {})' /\ fault' # "remove_fd"
  BY DEF ctlVars, LeafStart, InProgram, IInv, TypeOK
<1>6. \A m \in refused' : phase'[m] \in {"pending", "gone"}
  BY <1>2 DEF LeafStart, IInv, TypeOK
<1> QED
  BY <1>3, <1>4, <1>5, <1>6 DEF IInv

LEMMA CancelPreserves ==
  ASSUME IInv, NEW l \in Leaf, LeafCancel(l)
  PROVE  IInv'
<1>1. l \in Pending /\ Pending' = Pending \ {l} /\ Pending \in SUBSET Leaf
  BY DEF LeafCancel, Pending, IInv, TypeOK
<1>2. \E a \in Addr : items[a] = ItemOf(l)
  BY <1>1 DEF IInv, Serves
<1>3. PICK a \in Addr : /\ items[a] = ItemOf(l)
                        /\ items' = [items EXCEPT ![a] = NoItem]
                        /\ interest' = [interest EXCEPT ![FdOf[l]] = Null]
                        /\ fault' = fault
  BY <1>2 DEF LeafCancel, RemoveFd
<1>4. refused' = refused /\ closed' = closed
  BY DEF LeafCancel
<1>5. Serves(items', interest', Pending', refused', closed')
  BY <1>1, <1>3, <1>4, Removal DEF IInv, TypeOK
<1>6. TypeOK'
  BY <1>3, <1>5 DEF ctlVars, LeafCancel, IInv, TypeOK, Serves
<1>7. (updated /\ ctl # "start" => Pending = {})' /\ fault' # "remove_fd"
  BY <1>3 DEF ctlVars, LeafCancel, InProgram, IInv, TypeOK
<1>8. \A m \in refused' : phase'[m] \in {"pending", "gone"}
  BY <1>4 DEF LeafCancel, IInv, TypeOK
<1> QED
  BY <1>5, <1>6, <1>7, <1>8 DEF IInv

(* What epoll reports is the item of a pending leaf on that descriptor. *)
LEMMA ReportedLeaf ==
  ASSUME IInv, NEW f \in Fd, Reported(f)
  PROVE  /\ SinkOf(f) \in Pending \ refused /\ FdOf[SinkOf(f)] = f
         /\ interest[f] \in Addr /\ items[interest[f]] = ItemOf(SinkOf(f))
         /\ InterestWithout(f) = [interest EXCEPT ![f] = Null]
         /\ Pending \in SUBSET Leaf
         /\ refused \in SUBSET Leaf /\ closed \in SUBSET Fd
         /\ Serves(ItemsWithout(f), InterestWithout(f), Pending \ {SinkOf(f)},
                   refused, closed)
<1>1. /\ interest[f] \in Addr /\ Pending \in SUBSET Leaf
      /\ refused \in SUBSET Leaf /\ closed \in SUBSET Fd
  BY DEF Reported, IInv, TypeOK, Pending
<1>2. PICK l \in Pending \ refused : FdOf[l] = f /\ items[interest[f]] = ItemOf(l)
  BY DEF Reported, IInv, Serves
<1>3. SinkOf(f) = l /\ items[interest[f]].fd = f
  BY <1>1, <1>2, ItemsDiffer DEF SinkOf
<1>4. Serves(ItemsWithout(f), InterestWithout(f), Pending \ {l}, refused,
             closed)
  BY <1>1, <1>2, <1>3, Removal DEF ItemsWithout, InterestWithout, IInv
<1> QED
  BY <1>1, <1>2, <1>3, <1>4 DEF InterestWithout

LEMMA AnswerPreserves ==
  ASSUME IInv, NEW f \in Fd, DispatchAnswer(f)
  PROVE  IInv'
<1>1. Reported(f)
  BY DEF DispatchAnswer
<1>2. SinkOf(f) \in Leaf /\ Pending' = Pending \ {SinkOf(f)}
  BY <1>1, ReportedLeaf DEF DispatchAnswer, Pending, IInv, TypeOK
<1>3. Serves(items', interest', Pending', refused', closed')
  BY <1>1, <1>2, ReportedLeaf DEF DispatchAnswer
<1>4. TypeOK'
  <2>1. phase' \in [Leaf -> {"unborn", "fresh", "pending", "gone"}]
    BY <1>2 DEF DispatchAnswer, IInv, TypeOK
  <2>2. told' \in [Leaf -> Nat]
    BY <1>2 DEF DispatchAnswer, IInv, TypeOK
  <2> QED
    BY <1>3, <2>1, <2>2 DEF DispatchAnswer, IInv, TypeOK, Serves
<1>5. (updated /\ ctl # "start" => Pending = {})' /\ fault' # "remove_fd"
  BY <1>1 DEF DispatchAnswer, Reported, IInv
<1>6. \A m \in refused' : phase'[m] \in {"pending", "gone"}
  BY <1>2 DEF DispatchAnswer, IInv, TypeOK
<1> QED
  BY <1>3, <1>4, <1>5, <1>6 DEF IInv

LEMMA AgainPreserves ==
  ASSUME IInv, NEW f \in Fd, DispatchAgain(f)
  PROVE  IInv'
<1> DEFINE l == SinkOf(f)
           held == ItemsWithout(f)
           registered == InterestWithout(f)
<1>1. /\ l \in Pending /\ l \in Leaf \ ((Pending \ {l}) \cup refused)
      /\ Pending' = (Pending \ {l}) \cup {l} /\ Pending \ {l} \in SUBSET Leaf
      /\ refused \in SUBSET Leaf /\ closed \in SUBSET Fd
      /\ Serves(held, registered, Pending \ {l}, refused, closed)
  BY ReportedLeaf DEF DispatchAgain, Pending
<1> HIDE DEF l, held, registered
<1>2. AddFd(l, held, registered)
  BY DEF DispatchAgain, l, held, registered
<1>3. PICK a \in Addr :
        /\ held[a] = NoItem
        /\ items' = [held EXCEPT ![a] = ItemOf(l)]
        /\ \/ /\ registered[FdOf[l]] = Null
              /\ interest' = [registered EXCEPT ![FdOf[l]] = a]
              /\ refused' = refused
           \/ /\ interest' = registered
              /\ refused' = refused \cup {l}
  BY <1>2 DEF AddFd
<1>4. Serves(items', interest', Pending', refused', closed')
  <2>1. closed' = closed
    BY DEF DispatchAgain
  <2> QED
    BY <1>1, <1>3, <2>1, Addition
<1>5. TypeOK'
  <2>1. again' \in 0..MaxAgain
    BY BoundAssumption DEF DispatchAgain, IInv, TypeOK
  <2>2. refused' \subseteq Leaf
    BY <1>1, <1>3
  <2> QED
    BY <1>4, <2>1, <2>2 DEF ctlVars, DispatchAgain, IInv, TypeOK, Serves
<1>6. (updated /\ ctl # "start" => Pending = {})' /\ fault' # "remove_fd"
  BY DEF ctlVars, DispatchAgain, Reported, IInv
<1>7. \A m \in refused' : phase'[m] \in {"pending", "gone"}
  BY <1>1, <1>3 DEF DispatchAgain, Pending, IInv
<1> QED
  BY <1>4, <1>5, <1>6, <1>7 DEF IInv

(* Closing a descriptor takes its registration away and nothing else. *)
LEMMA ClosePreserves ==
  ASSUME IInv, NEW f \in Fd, CloseFd(f)
  PROVE  IInv'
<1> USE DEF ctlVars, leafVars
<1>1. /\ Pending' = Pending /\ items' = items /\ refused' = refused
      /\ closed' = closed \cup {f} /\ interest' = [interest EXCEPT ![f] = Null]
  BY DEF CloseFd, Pending
<1>2. /\ interest' \in [Fd -> Addr \cup {Null}] /\ interest'[f] = Null
      /\ \A g \in Fd \ {f} : interest'[g] = interest[g]
  BY <1>1 DEF IInv, TypeOK
<1>3. \A l \in Pending : FdOf[l] \in Fd
  BY ItemsDiffer DEF Pending
<1>4. Serves(items', interest', Pending', refused', closed')
  BY <1>1, <1>2, <1>3 DEF IInv, Serves
<1>5. TypeOK'
  BY <1>1, <1>2 DEF CloseFd, IInv, TypeOK
<1>6. (updated /\ ctl # "start" => Pending = {})' /\ fault' # "remove_fd"
  BY <1>1 DEF CloseFd, IInv
<1>7. \A m \in refused' : phase'[m] \in {"pending", "gone"}
  BY <1>1 DEF CloseFd, IInv
<1> QED
  BY <1>4, <1>5, <1>6, <1>7 DEF IInv

LEMMA StepPreserves == IInv /\ [Next]_vars => IInv'
<1> SUFFICES ASSUME IInv, [Next]_vars PROVE IInv'
  OBVIOUS
<1> USE DEF ctlVars, epollVars, leafVars
<1>1. ASSUME NEW l \in Leaf, LeafMake(l) \/ LeafDismiss(l) \/ LeafStartFails(l)
      PROVE  IInv'
  <2>1. Pending' = Pending
    BY <1>1 DEF LeafMake, LeafDismiss, LeafStartFails, Pending, IInv, TypeOK
  <2> QED
    BY <1>1, <2>1 DEF LeafMake, LeafDismiss, LeafStartFails, IInv, TypeOK
<1>2. CASE RootComplete \/ StartWaits \/ StartReturns \/ CallbackReturns
           \/ LoopAgain
  <2>1. Pending' = Pending
    BY <1>2 DEF RootComplete, StartWaits, StartReturns, CallbackReturns,
                LoopAgain, Pending
  <2>2. UNCHANGED <<epollVars, leafVars, fault>>
    BY <1>2 DEF RootComplete, StartWaits, StartReturns, CallbackReturns, LoopAgain
  <2>3. /\ Serves(items, interest, Pending, refused, closed)'
        /\ (fault # "remove_fd")'
        /\ (\A l \in refused : phase[l] \in {"pending", "gone"})'
    BY <2>1, <2>2 DEF IInv, Serves
  <2>4. TypeOK'
    BY <1>2, <2>2 DEF RootComplete, StartWaits, StartReturns, CallbackReturns,
                      LoopAgain, IInv, TypeOK
  <2>5. (updated /\ ctl # "start" => Pending = {})'
    BY <1>2, <2>1 DEF RootComplete, StartWaits, StartReturns, CallbackReturns,
                      LoopAgain, IInv
  <2> QED
    BY <2>3, <2>4, <2>5 DEF IInv
<1>3. CASE Interrupted \/ NoMemory \/ Terminated \/ UNCHANGED vars
           \/ \E f \in Fd : BecomeReady(f)
  <2>1. Pending' = Pending
    BY <1>3 DEF Interrupted, NoMemory, Terminated, vars, BecomeReady, Pending
  <2> QED
    BY <1>3, <2>1 DEF Interrupted, NoMemory, Terminated, vars, BecomeReady, IInv,
                      TypeOK
<1> QED
  BY <1>1, <1>2, <1>3, StartPreserves, CancelPreserves, AnswerPreserves,
     AgainPreserves, ClosePreserves DEF Next

-----------------------------------------------------------------------------

(* Types. *)
THEOREM TypeCorrect == Spec => []TypeOK
<1>1. IInv => TypeOK
  BY DEF IInv
<1> QED
  BY <1>1, InitEstablishes, StepPreserves, PTL DEF Spec

(* epoll never hands back a pointer to a deleted item or a dead leaf. *)
THEOREM NeverDangles == Spec => []NoDanglingRegistration
<1>1. IInv => NoDanglingRegistration
  BY DEF IInv, Serves, NoDanglingRegistration
<1> QED
  BY <1>1, InitEstablishes, StepPreserves, PTL DEF Spec

(* One epoll_item for each pending leaf and none besides. *)
THEOREM OneItemEach == Spec => []OneItemPerPendingLeaf
<1>1. IInv => OneItemPerPendingLeaf
  <2> SUFFICES ASSUME IInv PROVE OneItemPerPendingLeaf
    OBVIOUS
  <2>1. ASSUME NEW l \in Pending
        PROVE  \E a \in Addr : /\ items[a] = ItemOf(l)
                               /\ \A b \in Addr : items[b].sink = l => b = a
    <3>1. PICK a \in Addr : items[a] = ItemOf(l)
      BY DEF IInv, Serves
    <3>2. ASSUME NEW b \in Addr, items[b].sink = l PROVE b = a
      <4>1. l \in Leaf
        BY DEF Pending
      <4>2. items[b] # NoItem
        BY <3>2, <4>1, NullAssumption DEF NoItem
      <4>3. PICK m \in Pending : items[b] = ItemOf(m)
        BY <4>2 DEF IInv, Serves
      <4>4. m = l
        BY <4>3, <3>2, ItemsDiffer DEF Pending
      <4> QED
        BY <4>2, <4>3, <4>4, <3>1 DEF IInv, Serves
    <3> QED
      BY <3>1, <3>2
  <2>2. \A a \in Addr : items[a] # NoItem => \E l \in Pending : items[a] = ItemOf(l)
    BY DEF IInv, Serves
  <2> QED
    BY <2>1, <2>2 DEF OneItemPerPendingLeaf
<1> QED
  BY <1>1, InitEstablishes, StepPreserves, PTL DEF Spec

(* A started leaf stays registered unless the kernel refused to add it,    *)
(* one that it refused on the same descriptor was cancelled, or the stream *)
(* was destroyed.                                                          *)
THEOREM LostOnlyWhenRefused == Spec => []LostOnlyIfRefusedOrClosed
<1>1. IInv => LostOnlyIfRefusedOrClosed
  BY DEF IInv, Serves, Registered, LostOnlyIfRefusedOrClosed
<1> QED
  BY <1>1, InitEstablishes, StepPreserves, PTL DEF Spec

(* remove_fd always finds the item it is asked to remove. *)
THEOREM RemoveFdNeverFails == Spec => []RemoveFdFindsItem
<1>1. IInv => RemoveFdFindsItem
  BY DEF IInv, RemoveFdFindsItem
<1> QED
  BY <1>1, InitEstablishes, StepPreserves, PTL DEF Spec

(* start_command is called again only when nothing is outstanding. *)
THEOREM RestartsClean == Spec => RestartOnlyWhenComplete
<1>1. ASSUME IInv, [Next]_vars
      PROVE  [ctl = "wait" /\ ctl' = "start" => Pending = {}]_vars
  <2> SUFFICES ASSUME ctl = "wait", ctl' = "start" PROVE Pending = {}
    OBVIOUS
  <2>1. LoopAgain
    BY <1>1 DEF Next, vars, LeafMake, LeafStart, LeafCancel, LeafDismiss,
                RootComplete, StartWaits, StartReturns, CallbackReturns,
                DispatchAnswer, DispatchAgain, BecomeReady, Interrupted,
                Terminated, LeafStartFails, CloseFd, NoMemory, ctlVars
  <2> QED
    BY <1>1, <2>1 DEF LoopAgain, IInv
<1> QED
  BY <1>1, InitEstablishes, StepPreserves, PTL DEF Spec, RestartOnlyWhenComplete

(* Every leaf keeps the contract of module Command. *)
THEOREM LeavesRefine == Spec => LeavesImplementCommand
<1>1. Init => \A l \in Leaf : LeafCommand(l)!Init
  BY DEF Init, LeafCommand!Init
<1>2. ASSUME IInv, [Next]_vars
      PROVE  [\A l \in Leaf : LeafCommand(l)!Next
                              \/ UNCHANGED <<phase[l], told[l]>>]_<<phase, told>>
  <2> SUFFICES ASSUME NEW l \in Leaf
               PROVE  LeafCommand(l)!Next \/ UNCHANGED <<phase[l], told[l]>>
    OBVIOUS
  <2> USE DEF ctlVars, leafVars, LeafCommand!Next, LeafCommand!Make,
              LeafCommand!StartAnswers, LeafCommand!StartWaits,
              LeafCommand!Notify, LeafCommand!Cancel, LeafCommand!Dismiss
  <2>1. /\ phase \in [Leaf -> {"unborn", "fresh", "pending", "gone"}]
        /\ told \in [Leaf -> Nat]
    BY <1>2 DEF IInv, TypeOK
  <2>2. ASSUME NEW m \in Leaf, LeafMake(m) \/ LeafStart(m) \/ LeafCancel(m)
                               \/ LeafDismiss(m) \/ LeafStartFails(m)
        PROVE  LeafCommand(l)!Next \/ UNCHANGED <<phase[l], told[l]>>
    BY <2>1, <2>2 DEF LeafMake, LeafStart, LeafCancel, LeafDismiss, LeafStartFails
  <2>3. ASSUME NEW f \in Fd, DispatchAnswer(f)
        PROVE  LeafCommand(l)!Next \/ UNCHANGED <<phase[l], told[l]>>
    <3>1. SinkOf(f) \in Leaf /\ phase[SinkOf(f)] = "pending"
      BY <1>2, <2>3, ReportedLeaf DEF DispatchAnswer, Pending
    <3> QED
      BY <2>1, <2>3, <3>1 DEF DispatchAnswer
  <2>4. ASSUME NEW f \in Fd, DispatchAgain(f) \/ BecomeReady(f) \/ CloseFd(f)
        PROVE  UNCHANGED <<phase[l], told[l]>>
    BY <2>4 DEF DispatchAgain, BecomeReady, CloseFd
  <2>5. CASE RootComplete \/ StartWaits \/ StartReturns \/ CallbackReturns
             \/ LoopAgain \/ Interrupted \/ NoMemory \/ Terminated \/ UNCHANGED vars
    BY <2>5 DEF RootComplete, StartWaits, StartReturns, CallbackReturns,
                LoopAgain, Interrupted, NoMemory, Terminated, vars
  <2> QED
    BY <1>2, <2>2, <2>3, <2>4, <2>5 DEF Next
<1> QED
  BY <1>1, <1>2, InitEstablishes, StepPreserves, PTL
     DEF Spec, LeavesImplementCommand

(* A leaf under the Linux scheduler answers once at most, and only once it *)
(* has come to its end, whatever epoll reports and in what order.          *)
THEOREM AnswersOnce ==
  Spec => [](\A l \in Leaf : LeafCommand(l)!AtMostOneAnswer)
<1>1. (\A l \in Leaf : LeafCommand(l)!Init)
        => \A l \in Leaf : LeafCommand(l)!AtMostOneAnswer
  <2>1. \A l \in Leaf : told[l] = 0 => told[l] # 1 /\ told[l] \in {0, 1}
    OBVIOUS
  <2> QED
    BY <2>1 DEF LeafCommand!Init, LeafCommand!AtMostOneAnswer
<1>2. ASSUME \A l \in Leaf : LeafCommand(l)!AtMostOneAnswer,
             [\A l \in Leaf : LeafCommand(l)!Next
                \/ UNCHANGED <<phase[l], told[l]>>]_<<phase, told>>
      PROVE  (\A l \in Leaf : LeafCommand(l)!AtMostOneAnswer)'
  BY <1>2 DEF LeafCommand!AtMostOneAnswer, LeafCommand!Next, LeafCommand!Make,
              LeafCommand!StartAnswers, LeafCommand!StartWaits, LeafCommand!Notify,
              LeafCommand!Cancel, LeafCommand!Dismiss
<1> QED
  BY <1>1, <1>2, LeavesRefine, PTL DEF LeavesImplementCommand
=============================================================================

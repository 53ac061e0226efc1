--------------------------- MODULE Win32Run_proofs ---------------------------
(***************************************************************************)
(* For any leaves and any size of the array of handles: the nodes of the   *)
(* sleepers and the entries of the handles follow the life of their        *)
(* commands, a walk is owed only to sleepers woken during a cancellation,  *)
(* and every leaf keeps the contract of module Command, but for the second *)
(* answer of a connect_impl whose WSAEnumNetworkEvents failed.             *)
(***************************************************************************)
EXTENDS Win32Run, TLAPS

(* How far a sleeper's operation is when its command has not started, when *)
(* its node is woken, when it is being cancelled and when its callback is  *)
(* on the stack.                                                           *)
Operations ==
  /\ \A l \in Leaf : phase[l] # "gone" => told[l] = 0
  /\ \A l \in Sleeper : phase[l] \in {"unborn", "fresh"} =>
       io[l] = "idle" /\ l \notin cancelled
  /\ \A l \in woken : io[l] = "done"
  /\ waitfor # Null => /\ phase[waitfor] = "pending"
                       /\ waitfor \in cancelled
                       /\ ctl \in {"start", "handle", "sleeper"}
  /\ current # Null => ctl = "sleeper" /\ phase[current] = "gone"

(* A node that the walk under way will not visit, or that no walk is to    *)
(* visit, was woken inside wait_for_sleeper.                               *)
WalkVisitsTheRest ==
  /\ ctl \in {"start", "wait"} => woken \subseteq missed
  /\ ctl \in {"walk", "sleeper"} => woken \subseteq ahead \cup missed

Upkeep == /\ NodesFollowTheirLeaves
          /\ HandlesArePending
          /\ OperationEndsBeforeCommand
          /\ Operations
          /\ WalkVisitsTheRest

(* What a program that stopped had done: the sink of a sleeper is freed    *)
(* only if it was cancelled, its OVERLAPPED only if start failed after the *)
(* operation was accepted; a connect_impl answers twice, or adds a handle  *)
(* after its end, only where WSAEnumNetworkEvents failed for it;           *)
(* remove_handle is never called for what is not there.                    *)
Causes ==
  /\ fault # "remove_handle"
  /\ fault = "freed_sink" => \E l \in woken \cap cancelled : phase[l] = "gone"
  /\ fault = "freed_overlapped" =>
       \E l \in Sleeper \ cancelled : phase[l] = "gone" /\ told[l] = 1
  /\ fault = "answered_twice" => failing \in Connect /\ told[failing] = 2
  /\ fault = "freed_handle" => failing \in Connect /\ phase[failing] = "gone"

(* The answers given: no leaf has given two but the one that a failing     *)
(* connect_impl stopped the program with, and none is given before a leaf  *)
(* has come to its end.  One that goes on after its failure has ended.     *)
AnswersGiven ==
  \A l \in Leaf : \/ LeafCommand(l)!AtMostOneAnswer
                  \/ l = failing /\ told[l] = 2 /\ fault = "answered_twice"

FailingIsOver ==
  failing # Null => /\ phase[failing] = "gone"
                    /\ Running => ctl = "handle" /\ told[failing] = 1

IInv == Upkeep /\ Causes /\ AnswersGiven /\ FailingIsOver

-----------------------------------------------------------------------------
(* The array of handles as a set of leaves.                                *)

Entries(s) == {s[i] : i \in 1..Len(s)}
Distinct(s) == \A i, j \in 1..Len(s) : s[i] = s[j] => i = j

(* add_handle puts one leaf more into the array. *)
LEMMA AppendAdds ==
  ASSUME NEW S, NEW s \in Seq(S), Distinct(s), NEW l \in S, l \notin Entries(s)
  PROVE  /\ Append(s, l) \in Seq(S)
         /\ Len(Append(s, l)) = Len(s) + 1
         /\ Entries(Append(s, l)) = Entries(s) \cup {l}
         /\ Distinct(Append(s, l))
<1>1. /\ Append(s, l) \in Seq(S)
      /\ Len(Append(s, l)) = Len(s) + 1 /\ Len(s) \in Nat
      /\ \A i \in 1..Len(s) : Append(s, l)[i] = s[i]
      /\ Append(s, l)[Len(s) + 1] = l
  OBVIOUS
<1> DEFINE t == Append(s, l)
<1> HIDE DEF t
<1>2. \A i \in 1..Len(t) : t[i] = IF i = Len(s) + 1 THEN l ELSE s[i]
  BY <1>1 DEF t
<1>3. Len(t) = Len(s) + 1 /\ Len(s) \in Nat
  BY <1>1 DEF t
<1>4. Entries(t) = Entries(s) \cup {l}
  BY <1>2, <1>3 DEF Entries
<1>5. Distinct(t)
  BY <1>2, <1>3 DEF Entries, Distinct
<1> QED
  BY <1>1, <1>4, <1>5 DEF t

(* Swapping an entry with the last one and shortening the array takes that *)
(* leaf out of it and no other.                                            *)
LEMMA SwapRemoveDrops ==
  ASSUME NEW S, NEW s \in Seq(S), Distinct(s), NEW i \in 1..Len(s)
  PROVE  /\ SwapRemove(s, i) \in Seq(S)
         /\ Len(SwapRemove(s, i)) = Len(s) - 1
         /\ Entries(SwapRemove(s, i)) = Entries(s) \ {s[i]}
         /\ Distinct(SwapRemove(s, i))
<1> DEFINE t == SwapRemove(s, i)
<1>1. Len(s) \in Nat /\ Len(s) - 1 \in Nat /\ \A j \in 1..Len(s) : s[j] \in S
  OBVIOUS
<1>2. t \in [1..Len(s) - 1 -> S]
  BY <1>1 DEF SwapRemove
<1>3. t \in Seq(S) /\ Len(t) = Len(s) - 1
  BY <1>1, <1>2
<1>4. \A j \in 1..Len(s) - 1 : t[j] = IF j = i THEN s[Len(s)] ELSE s[j]
  BY DEF SwapRemove
<1> HIDE DEF t
<1>5. Entries(t) = Entries(s) \ {s[i]}
  <2>1. ASSUME NEW j \in 1..Len(t)
        PROVE  t[j] \in Entries(s) \ {s[i]}
    BY <1>1, <1>3, <1>4 DEF Entries, Distinct
  <2>2. ASSUME NEW j \in 1..Len(s), j # i
        PROVE  s[j] \in Entries(t)
    <3>1. CASE j = Len(s)
      BY <1>1, <1>3, <1>4, <2>2, <3>1 DEF Entries
    <3>2. CASE j # Len(s)
      BY <1>1, <1>3, <1>4, <2>2, <3>2 DEF Entries
    <3> QED
      BY <3>1, <3>2
  <2> QED
    BY <2>1, <2>2 DEF Entries
<1>6. Distinct(t)
  BY <1>1, <1>3, <1>4 DEF Distinct
<1> QED
  BY <1>3, <1>5, <1>6 DEF t

(* HandlesArePending in these terms. *)
HandlesMatch ==
  /\ handles \in Seq(Waiter)
  /\ Entries(handles) = {l \in Waiter : phase[l] = "pending"}
  /\ Distinct(handles)
  /\ Len(handles) <= Limit

LEMMA HandlesInTheseTerms ==
  ASSUME handles \in Seq(Waiter), fault # "freed_handle"
  PROVE  HandlesArePending <=> HandlesMatch
BY DEF HandlesArePending, HandlesMatch, Entries, Distinct

(* What does not touch the waiters does not touch the array. *)
LEMMA SleepersLeaveHandles ==
  ASSUME HandlesArePending, UNCHANGED handles,
         fault # "freed_handle" \/ UNCHANGED fault,
         \A l \in Waiter : phase'[l] = "pending" <=> phase[l] = "pending"
  PROVE  HandlesArePending'
BY DEF HandlesArePending
-----------------------------------------------------------------------------
(* The steps.  Each is shown to keep what is said of the sleepers and what *)
(* is said of the handles, which share only the phases.                    *)

SleepersInv == /\ NodesFollowTheirLeaves
               /\ OperationEndsBeforeCommand
               /\ Operations
               /\ WalkVisitsTheRest

LEMMA InitUpkeep == Init => Upkeep
<1> SUFFICES ASSUME Init PROVE Upkeep
  OBVIOUS
<1>1. SleepersInv
  <2> USE LeafAssumption, BoundAssumption DEF Init, Leaf
  <2>1. /\ phase \in [Leaf -> {"unborn", "fresh", "pending", "gone"}]
        /\ told \in [Leaf -> Nat]
        /\ \A l \in Leaf : phase[l] = "unborn" /\ told[l] = 0
    OBVIOUS
  <2>2. /\ io \in [Sleeper -> {"idle", "issued", "queued", "done"}]
        /\ \A l \in Sleeper : io[l] = "idle"
        /\ handles \in Seq(Waiter)
    OBVIOUS
  <2>3. TypeOK
    <3>1. /\ ctl = "start" /\ sleepers = {} /\ woken = {} /\ ahead = {}
          /\ current = Null /\ waitfor = Null /\ signalled = {}
          /\ cancelled = {} /\ missed = {} /\ fault = "none" /\ failing = Null
      OBVIOUS
    <3>2. updated \in BOOLEAN
      OBVIOUS
    <3>3. again \in 0..MaxAgain
      OBVIOUS
    <3> HIDE DEF Init, Leaf
    <3> QED
      BY <2>1, <2>2, <3>1, <3>2, <3>3 DEF TypeOK
  <2>4. NodesFollowTheirLeaves
    BY <2>1, <2>2, <2>3 DEF NodesFollowTheirLeaves
  <2> QED
    BY <2>1, <2>2, <2>4 DEF SleepersInv, OperationEndsBeforeCommand,
                            Operations, WalkVisitsTheRest
<1>2. HandlesArePending
  BY BoundAssumption, LeafAssumption DEF Init, HandlesArePending, Leaf
<1> QED
  BY <1>1, <1>2 DEF Upkeep, SleepersInv

(* A leaf is made, or dismissed before it starts. *)
LEMMA MakePreserves ==
  ASSUME Upkeep, NEW l \in Leaf, LeafMake(l) \/ LeafDismiss(l)
  PROVE  Upkeep'
<1> USE LeafAssumption DEF loopVars, nodeVars, handleVars
<1>1. SleepersInv'
  <2> USE DEF SleepersInv, Upkeep, NodesFollowTheirLeaves, TypeOK,
              OperationEndsBeforeCommand, Operations, WalkVisitsTheRest, Leaf
  <2>1. CASE LeafMake(l)
    BY <2>1 DEF LeafMake, InProgram
  <2>2. CASE LeafDismiss(l)
    BY <2>2 DEF LeafDismiss, InProgram
  <2> QED
    BY <2>1, <2>2
<1>2. HandlesArePending'
  BY SleepersLeaveHandles
     DEF LeafMake, LeafDismiss, Upkeep, NodesFollowTheirLeaves, TypeOK, Leaf
<1> QED
  BY <1>1, <1>2 DEF Upkeep, SleepersInv

(* The answer of a leaf is one more for it and none for the others. *)
LEMMA AnswerTypes ==
  ASSUME Upkeep, NEW l \in Leaf, Answers(l)
  PROVE  /\ phase' \in [Leaf -> {"unborn", "fresh", "pending", "gone"}]
         /\ told' \in [Leaf -> Nat]
         /\ phase'[l] = "gone" /\ told'[l] = told[l] + 1
         /\ \A k \in Leaf \ {l} : phase'[k] = phase[k] /\ told'[k] = told[k]
BY DEF Upkeep, NodesFollowTheirLeaves, TypeOK, Answers

(* A sleeper starts, or is asked to stop. *)
LEMMA SleeperPreserves ==
  ASSUME Upkeep, NEW l \in Sleeper,
         SleeperStart(l) \/ SleeperStartFails(l) \/ SleeperCancel(l)
  PROVE  Upkeep'
<1> USE LeafAssumption
    DEF loopVars, leafVars, nodeVars, handleVars, InProgram, Answers
<1>1. HandlesArePending'
  BY SleepersLeaveHandles
     DEF SleeperStart, SleeperStartFails, SleeperCancel, Upkeep,
         NodesFollowTheirLeaves, TypeOK, Leaf
<1>3. CASE SleeperStartFails(l)
  <2> HIDE DEF Answers, InProgram
  <2>a. Answers(l) /\ phase[l] = "fresh" /\ l \in Leaf
    BY <1>3 DEF SleeperStartFails, Leaf
  <2>b. told[l] = 0 /\ io[l] = "idle" /\ l \notin cancelled
    BY <2>a DEF Upkeep, Operations
  <2>1. /\ phase' \in [Leaf -> {"unborn", "fresh", "pending", "gone"}]
        /\ told' \in [Leaf -> Nat]
        /\ phase'[l] = "gone" /\ told'[l] = 1
        /\ phase[l] = "fresh" /\ io[l] = "idle" /\ l \notin cancelled
        /\ \A k \in Leaf \ {l} : phase'[k] = phase[k] /\ told'[k] = told[k]
    BY <2>a, <2>b, AnswerTypes
  <2>2. /\ io' \in [Sleeper -> {"idle", "issued", "queued", "done"}]
        /\ io'[l] \in {"idle", "issued"}
        /\ \A k \in Sleeper \ {l} : io'[k] = io[k]
    BY <1>3, <2>1 DEF SleeperStartFails, Upkeep, NodesFollowTheirLeaves, TypeOK
  <2>3. UNCHANGED <<loopVars, nodeVars, handleVars, waitfor, cancelled, fault>>
    BY <1>3 DEF SleeperStartFails
  <2>4. Sleeper \subseteq Leaf /\ l \notin woken /\ l \notin sleepers
    BY <2>1 DEF Leaf, Upkeep, Operations, NodesFollowTheirLeaves
  <2>5. NodesFollowTheirLeaves'
    BY <2>1, <2>2, <2>3, <2>4 DEF Upkeep, NodesFollowTheirLeaves, TypeOK
  <2>6. OperationEndsBeforeCommand'
    BY <2>1, <2>2, <2>3, <2>4 DEF Upkeep, OperationEndsBeforeCommand
  <2>7. Operations'
    <3>1. waitfor # l /\ current # l
      BY <2>1, <2>4 DEF Upkeep, Operations
    <3>2. waitfor \in Sleeper \cup {Null} /\ current \in Sleeper \cup {Null}
      BY DEF Upkeep, NodesFollowTheirLeaves, TypeOK
    <3>3. \A k \in Leaf : phase'[k] # "gone" => told'[k] = 0
      BY <2>1 DEF Upkeep, Operations
    <3>4. \A k \in Sleeper : phase'[k] \in {"unborn", "fresh"} =>
            io'[k] = "idle" /\ k \notin cancelled'
      BY <2>1, <2>2, <2>3, <2>4 DEF Upkeep, Operations
    <3>5. \A k \in woken' : io'[k] = "done"
      BY <2>2, <2>3, <2>4 DEF Upkeep, Operations, NodesFollowTheirLeaves, TypeOK
    <3> QED
      BY <2>1, <2>3, <2>4, <3>1, <3>2, <3>3, <3>4, <3>5 DEF Upkeep, Operations
  <2>8. WalkVisitsTheRest'
    BY <2>3 DEF Upkeep, WalkVisitsTheRest
  <2> QED
    BY <1>1, <2>5, <2>6, <2>7, <2>8 DEF Upkeep
<1> USE DEF SleepersInv, Upkeep, NodesFollowTheirLeaves, TypeOK,
            OperationEndsBeforeCommand, Operations, WalkVisitsTheRest, Leaf
<1>2. CASE SleeperStart(l)
  BY <1>1, <1>2 DEF SleeperStart
<1>4. CASE SleeperCancel(l)
  BY <1>1, <1>4 DEF SleeperCancel
<1> QED
  BY <1>2, <1>3, <1>4

(* Routines run, in the wait of the loop or in that of a cancellation. *)
LEMMA RoutinesPreserve ==
  ASSUME Upkeep, WaitWoken \/ WaitForSleeper
  PROVE  Upkeep'
<1> USE LeafAssumption DEF loopVars, leafVars, nodeVars, handleVars
<1>1. HandlesArePending'
  BY SleepersLeaveHandles DEF WaitWoken, WaitForSleeper, Upkeep, Running
<1> USE DEF SleepersInv, Upkeep, NodesFollowTheirLeaves, TypeOK, RunRoutines,
            Queued, OperationEndsBeforeCommand, Operations, WalkVisitsTheRest,
            Leaf
<1>2. CASE WaitWoken
  BY <1>1, <1>2 DEF WaitWoken
<1>3. CASE WaitForSleeper
  BY <1>1, <1>3 DEF WaitForSleeper
<1> QED
  BY <1>2, <1>3

(* A cancellation is over. *)
LEMMA CancelReturnsPreserves == Upkeep /\ SleeperCancelReturns => Upkeep'
<1> SUFFICES ASSUME Upkeep, SleeperCancelReturns PROVE Upkeep'
  OBVIOUS
<1> USE LeafAssumption DEF loopVars, nodeVars, handleVars, SleeperCancelReturns
<1>1. HandlesArePending'
  BY SleepersLeaveHandles DEF Upkeep, NodesFollowTheirLeaves, TypeOK, Leaf
<1>2. SleepersInv'
  BY DEF SleepersInv, Upkeep, NodesFollowTheirLeaves, TypeOK,
         OperationEndsBeforeCommand, Operations, WalkVisitsTheRest, Leaf
<1> QED
  BY <1>1, <1>2 DEF Upkeep, SleepersInv

(* The walk calls a sleeper back and goes on. *)
LEMMA WalkPreserves ==
  ASSUME Upkeep, SleeperReturns \/ WalkEnds \/ \E l \in Sleeper : WalkVisit(l)
  PROVE  Upkeep'
<1> USE LeafAssumption DEF loopVars, leafVars, nodeVars, handleVars, Answers
<1>1. HandlesArePending'
  BY SleepersLeaveHandles
     DEF WalkVisit, SleeperReturns, WalkEnds, Upkeep, NodesFollowTheirLeaves,
         TypeOK, Leaf, Running
<1>5. ASSUME NEW l \in Sleeper, WalkVisit(l), phase[l] = "pending"
      PROVE  /\ phase' \in [Leaf -> {"unborn", "fresh", "pending", "gone"}]
             /\ told' \in [Leaf -> Nat]
  BY <1>5, AnswerTypes DEF WalkVisit, Leaf
<1> USE DEF SleepersInv, Upkeep, NodesFollowTheirLeaves, TypeOK,
            OperationEndsBeforeCommand, Operations, WalkVisitsTheRest, Leaf
<1>2. ASSUME NEW l \in Sleeper, WalkVisit(l) PROVE Upkeep'
  <2>1. CASE phase[l] = "pending"
    <3>1. /\ io[l] = "done" /\ waitfor = Null /\ current = Null
          /\ l \in woken /\ l \notin sleepers /\ l # Null
      BY <1>2, <2>1 DEF WalkVisit
    <3> QED
      <4> USE <1>2, <2>1, <3>1 DEF WalkVisit
      <4>1. /\ phase' \in [Leaf -> {"unborn", "fresh", "pending", "gone"}]
            /\ told' \in [Leaf -> Nat]
            /\ phase' = [phase EXCEPT ![l] = "gone"]
            /\ told' = [told EXCEPT ![l] = @ + 1]
        BY <1>5
      <4>2. NodesFollowTheirLeaves'
        BY <4>1
      <4>3. OperationEndsBeforeCommand' /\ WalkVisitsTheRest'
        BY <4>1
      <4>4. Operations'
        BY <4>1
      <4> QED
        BY <1>1, <4>2, <4>3, <4>4
  <2>2. CASE phase[l] # "pending"
    BY <1>1, <1>2, <2>2 DEF WalkVisit
  <2> QED
    BY <2>1, <2>2
<1>3. CASE SleeperReturns
  BY <1>1, <1>3 DEF SleeperReturns
<1>4. CASE WalkEnds
  BY <1>1, <1>4 DEF WalkEnds
<1> QED
  BY <1>2, <1>3, <1>4

(* A waiter starts, is cancelled, or has its handle reported. *)
LEMMA WaiterPreserves ==
  ASSUME Upkeep,
         \/ \E l \in Waiter : WaiterStart(l) \/ WaiterCancel(l)
         \/ \E i \in 1..Len(handles) :
              HandleAnswer(i) \/ ConnectAgain(i) \/ ConnectFails(i)
  PROVE  Upkeep'
<1> USE LeafAssumption DEF loopVars, leafVars, nodeVars, handleVars
<1>1. HandlesMatch /\ phase \in [Leaf -> {"unborn", "fresh", "pending", "gone"}]
  <2>1. fault # "freed_handle"
    BY DEF WaiterStart, WaiterCancel, HandleAnswer, ConnectAgain, ConnectFails,
           HandleReported, InProgram, Running
  <2> QED
    BY <2>1, HandlesInTheseTerms DEF Upkeep, NodesFollowTheirLeaves, TypeOK
<1>2. ASSUME HandlesMatch', SleepersInv' PROVE Upkeep'
  <2>1. (handles \in Seq(Waiter))'
    BY <1>2 DEF HandlesMatch
  <2> QED
    BY <1>2, <2>1 DEF Upkeep, SleepersInv, HandlesMatch, HandlesArePending,
                      Entries, Distinct
<1>3. \A l \in Waiter : l \in Leaf /\ l \notin Sleeper
  BY DEF Leaf
<1>4. ASSUME NEW i \in 1..Len(handles)
      PROVE  /\ handles[i] \in Waiter /\ phase[handles[i]] = "pending"
             /\ SwapRemove(handles, i) \in Seq(Waiter)
             /\ Len(SwapRemove(handles, i)) = Len(handles) - 1
             /\ Entries(SwapRemove(handles, i)) =
                  Entries(handles) \ {handles[i]}
             /\ Distinct(SwapRemove(handles, i))
  <2>1. handles[i] \in Entries(handles)
    BY DEF Entries
  <2> QED
    BY <1>1, <2>1, SwapRemoveDrops DEF HandlesMatch
<1>5. ASSUME NEW l \in Waiter, phase[l] \in {"fresh", "pending"},
             \/ phase' = [phase EXCEPT ![l] = "pending"] /\ UNCHANGED told
             \/ phase' = [phase EXCEPT ![l] = "gone"] /\ UNCHANGED told
             \/ Answers(l),
             UNCHANGED <<nodeVars, io, waitfor, cancelled>>,
             \/ UNCHANGED loopVars
             \/ /\ ctl = "wait" /\ ctl' = "handle"
                /\ UNCHANGED <<updated, ahead, current>>,
             handles' \in Seq(Waiter),
             signalled' \subseteq Waiter, again' \in 0..MaxAgain,
             failing' \in Connect \cup {Null},
             fault' \in {"none", "remove_handle"}
      PROVE  SleepersInv'
  <2> USE <1>3 DEF Answers
  <2>1. /\ phase' \in [Leaf -> {"unborn", "fresh", "pending", "gone"}]
        /\ told' \in [Leaf -> Nat]
        /\ \A k \in Sleeper : phase'[k] = phase[k] /\ told'[k] = told[k]
        /\ \A k \in Leaf : phase'[k] # "gone" => told'[k] = 0
    <3>1. /\ phase \in [Leaf -> {"unborn", "fresh", "pending", "gone"}]
          /\ told \in [Leaf -> Nat]
          /\ \A k \in Leaf : phase[k] # "gone" => told[k] = 0
          /\ \A k \in Sleeper : k \in Leaf /\ k # l
          /\ l \in Leaf
      BY DEF Upkeep, Operations, NodesFollowTheirLeaves, TypeOK, Leaf
    <3>2. CASE UNCHANGED told
      BY <1>5, <3>1, <3>2
    <3>3. CASE Answers(l)
      BY <3>1, <3>3
    <3> QED
      BY <1>5, <3>2, <3>3
  <2>2. NodesFollowTheirLeaves'
    BY <1>5, <2>1 DEF Upkeep, NodesFollowTheirLeaves, TypeOK
  <2>3. OperationEndsBeforeCommand'
    BY <1>5, <2>1 DEF Upkeep, OperationEndsBeforeCommand
  <2>4. Operations'
    BY <1>5, <2>1 DEF Upkeep, NodesFollowTheirLeaves, TypeOK, Operations
  <2>5. WalkVisitsTheRest'
    BY <1>5 DEF Upkeep, WalkVisitsTheRest
  <2> QED
    BY <2>2, <2>3, <2>4, <2>5 DEF SleepersInv
<1> USE DEF Upkeep, NodesFollowTheirLeaves, TypeOK, InProgram, Running
<1>6. ASSUME NEW l \in Waiter, WaiterStart(l) PROVE Upkeep'
  <2>1. CASE Len(handles) < Limit
    <3>1. handles' = Append(handles, l) /\ l \notin Entries(handles)
      BY <1>1, <1>6, <2>1 DEF WaiterStart, HandlesMatch
    <3>2. HandlesMatch'
      BY <1>1, <1>3, <1>6, <2>1, <3>1, AppendAdds, BoundAssumption
         DEF WaiterStart, HandlesMatch
    <3>3. SleepersInv'
      BY <1>5, <1>6, <2>1, <3>2 DEF WaiterStart, HandlesMatch
    <3> QED
      BY <1>2, <3>2, <3>3
  <2>2. CASE ~(Len(handles) < Limit)
    <3>1. HandlesMatch'
      BY <1>1, <1>3, <1>6, <2>2 DEF WaiterStart, HandlesMatch, Answers
    <3>2. SleepersInv'
      BY <1>5, <1>6, <2>2, <3>1 DEF WaiterStart, HandlesMatch
    <3> QED
      BY <1>2, <3>1, <3>2
  <2> QED
    BY <2>1, <2>2
<1>7. ASSUME NEW l \in Waiter, WaiterCancel(l) PROVE Upkeep'
  <2>1. l \in Entries(handles)
    BY <1>1, <1>7 DEF WaiterCancel, HandlesMatch
  <2>2. PICK i \in 1..Len(handles) :
          /\ handles[i] = l
          /\ handles' = SwapRemove(handles, i)
          /\ phase' = [phase EXCEPT ![l] = "gone"]
          /\ UNCHANGED fault
    BY <1>7, <2>1 DEF WaiterCancel, Entries
  <2>3. HandlesMatch'
    <3>1. {k \in Waiter : phase'[k] = "pending"} =
            {k \in Waiter : phase[k] = "pending"} \ {l}
      BY <1>1, <1>3, <2>2
    <3>2. Len(handles') <= Limit
      BY <1>1, <1>4, <2>2, BoundAssumption DEF HandlesMatch
    <3> QED
      BY <1>1, <1>4, <2>2, <3>1, <3>2 DEF HandlesMatch
  <2>4. SleepersInv'
    BY <1>5, <1>7, <2>2, <2>3 DEF WaiterCancel, HandlesMatch
  <2> QED
    BY <1>2, <2>3, <2>4
<1>8. ASSUME NEW i \in 1..Len(handles), HandleAnswer(i) \/ ConnectFails(i)
      PROVE  Upkeep'
  <2>1. /\ handles' = SwapRemove(handles, i)
        /\ phase' = [phase EXCEPT ![handles[i]] = "gone"]
        /\ Answers(handles[i])
    BY <1>8 DEF HandleAnswer, ConnectFails, Answers
  <2>2. HandlesMatch'
    <3>1. {k \in Waiter : phase'[k] = "pending"} =
            {k \in Waiter : phase[k] = "pending"} \ {handles[i]}
      BY <1>1, <1>3, <1>4, <2>1
    <3>2. Len(handles') <= Limit
      BY <1>1, <1>4, <2>1, BoundAssumption DEF HandlesMatch
    <3> QED
      BY <1>1, <1>4, <2>1, <3>1, <3>2 DEF HandlesMatch
  <2>3. SleepersInv'
    <3>1. handles[i] \in Waiter /\ phase[handles[i]] = "pending"
      BY <1>4
    <3>2. /\ UNCHANGED <<nodeVars, io, waitfor, cancelled, signalled, again>>
          /\ ctl = "wait" /\ ctl' = "handle"
          /\ UNCHANGED <<updated, ahead, current>>
          /\ failing' \in Connect \cup {Null}
          /\ fault' = "none"
      BY <1>8 DEF HandleAnswer, ConnectFails, HandleReported
    <3>3. handles' \in Seq(Waiter)
      BY <2>2 DEF HandlesMatch
    <3> QED
      BY <1>5, <2>1, <3>1, <3>2, <3>3
  <2> QED
    BY <1>2, <2>2, <2>3
<1>9. ASSUME NEW i \in 1..Len(handles), ConnectAgain(i) PROVE Upkeep'
  <2>1. handles' = Append(SwapRemove(handles, i), handles[i])
    BY <1>9 DEF ConnectAgain
  <2>2. handles[i] \notin Entries(SwapRemove(handles, i))
    BY <1>4
  <2>3. HandlesMatch'
    BY <1>1, <1>4, <1>9, <2>1, <2>2, AppendAdds, BoundAssumption
       DEF ConnectAgain, HandlesMatch
  <2>4. SleepersInv'
    BY <1>9, <2>3, BoundAssumption
       DEF ConnectAgain, HandleReported, HandlesMatch, SleepersInv, Operations,
           OperationEndsBeforeCommand, WalkVisitsTheRest
  <2> QED
    BY <1>2, <2>3, <2>4
<1> QED
  BY <1>6, <1>7, <1>8, <1>9

(* on_completion of a failing connect_impl goes on. *)
LEMMA GoesOnPreserves ==
  ASSUME Upkeep, FailingIsOver, ConnectGoesOn
  PROVE  Upkeep'
<1> USE LeafAssumption DEF loopVars, nodeVars, ConnectGoesOn, HandleCalled
<1>1. /\ failing \in Connect /\ failing \in Waiter /\ failing \in Leaf
      /\ failing \notin Sleeper /\ phase[failing] = "gone"
      /\ fault' \in {"answered_twice", "freed_handle"}
      /\ UNCHANGED <<loopVars, phase, nodeVars, signalled, again, failing, io,
                     waitfor, cancelled>>
  BY DEF Upkeep, NodesFollowTheirLeaves, TypeOK, FailingIsOver, Leaf
<1>2. /\ told' \in [Leaf -> Nat] /\ phase' = phase
      /\ \A l \in Leaf \ {failing} : told'[l] = told[l]
  <2>1. told \in [Leaf -> Nat]
    BY DEF Upkeep, NodesFollowTheirLeaves, TypeOK
  <2>2. told' \in {told, [told EXCEPT ![failing] = @ + 1]} /\ phase' = phase
    OBVIOUS
  <2> QED
    BY <1>1, <2>1, <2>2
<1>3. handles' \in Seq(Waiter)
  <2>1. handles \in Seq(Waiter)
    BY DEF Upkeep, NodesFollowTheirLeaves, TypeOK
  <2>2. handles' \in {handles, Append(handles, failing)}
    OBVIOUS
  <2> QED
    BY <1>1, <2>1, <2>2
<1>4. HandlesArePending'
  <2>1. CASE handles' = handles
    BY <2>1, <1>2, SleepersLeaveHandles DEF Upkeep, Running
  <2>2. CASE fault' = "freed_handle"
    BY <2>2 DEF HandlesArePending
  <2> QED
    BY <2>1, <2>2
<1> HIDE DEF ConnectGoesOn
<1>5. NodesFollowTheirLeaves'
  BY <1>1, <1>2, <1>3 DEF Upkeep, NodesFollowTheirLeaves, TypeOK
<1>6. OperationEndsBeforeCommand'
  BY <1>1, <1>2 DEF Upkeep, OperationEndsBeforeCommand, Leaf
<1>7. Operations' /\ WalkVisitsTheRest'
  BY <1>1, <1>2 DEF Upkeep, Operations, WalkVisitsTheRest, Leaf
<1> QED
  BY <1>4, <1>5, <1>6, <1>7 DEF Upkeep

(* The loop goes round, the task completes, Windows moves on: no leaf and  *)
(* no node changes.                                                        *)
LEMMA LoopPreserves ==
  ASSUME Upkeep,
         \/ RootComplete \/ StartWaits \/ StartReturns \/ LoopAgain
         \/ HandleReturns
         \/ \E l \in Sleeper : IoEnds(l)
         \/ \E l \in Waiter : Signal(l)
         \/ Terminated \/ UNCHANGED vars
  PROVE  Upkeep'
<1> USE LeafAssumption
    DEF loopVars, leafVars, nodeVars, handleVars, vars, RootComplete,
        StartWaits, StartReturns, LoopAgain, HandleReturns, HandleCalled,
        IoEnds, Signal, Terminated
<1>1. HandlesArePending'
  BY SleepersLeaveHandles DEF Upkeep
<1> USE DEF SleepersInv, Upkeep, NodesFollowTheirLeaves, TypeOK,
            OperationEndsBeforeCommand, Operations, WalkVisitsTheRest
<1>2. CASE RootComplete \/ StartWaits \/ StartReturns \/ LoopAgain
  <2>1. CASE RootComplete
    BY <1>1, <2>1
  <2>2. CASE StartWaits
    <3>1. /\ ctl = "start" /\ ctl' = "wait" /\ updated' \in BOOLEAN
          /\ UNCHANGED <<ahead, current, leafVars, nodeVars, handleVars, io,
                         waitfor, cancelled, fault>>
          /\ waitfor = Null
      BY <2>2
    <3> HIDE DEF StartWaits
    <3> QED
      BY <1>1, <3>1
  <2>3. CASE StartReturns
    BY <1>1, <2>3
  <2>4. CASE LoopAgain
    BY <1>1, <2>4
  <2> QED
    BY <1>2, <2>1, <2>2, <2>3, <2>4
<1>3. CASE HandleReturns
  BY <1>1, <1>3
<1>4. ASSUME NEW l \in Sleeper, IoEnds(l) PROVE Upkeep'
  BY <1>1, <1>4
<1>5. ASSUME NEW l \in Waiter, Signal(l) PROVE Upkeep'
  BY <1>1, <1>5
<1>6. CASE Terminated \/ UNCHANGED vars
  BY <1>1, <1>6
<1> QED
  BY <1>2, <1>3, <1>4, <1>5, <1>6

LEMMA UpkeepPreserved == IInv /\ [Next]_vars => Upkeep'
BY MakePreserves, SleeperPreserves, RoutinesPreserve, CancelReturnsPreserves,
   WalkPreserves, WaiterPreserves, GoesOnPreserves, LoopPreserves
   DEF Next, IInv

(* Every leaf is a command: each step is one of its steps or none, or the  *)
(* second answer.                                                          *)
LEMMA StepRefines ==
  ASSUME Upkeep, [Next]_vars, NEW l \in Leaf
  PROVE  \/ LeafCommand(l)!Next \/ UNCHANGED <<phase[l], told[l]>>
         \/ SecondAnswer(l)
<1> USE DEF leafVars, Answers, LeafCommand!Next, LeafCommand!Make,
            LeafCommand!StartAnswers, LeafCommand!StartWaits,
            LeafCommand!Notify, LeafCommand!Cancel, LeafCommand!Dismiss
<1>1. /\ phase \in [Leaf -> {"unborn", "fresh", "pending", "gone"}]
      /\ told \in [Leaf -> Nat]
      /\ Sleeper \subseteq Leaf /\ Waiter \subseteq Leaf
  BY DEF Upkeep, NodesFollowTheirLeaves, TypeOK, Leaf
<1>2. ASSUME NEW k \in Leaf, LeafMake(k) \/ LeafDismiss(k)
      PROVE  LeafCommand(l)!Next \/ UNCHANGED <<phase[l], told[l]>>
  BY <1>1, <1>2 DEF LeafMake, LeafDismiss
<1>3. ASSUME NEW k \in Sleeper,
             \/ SleeperStart(k) \/ SleeperStartFails(k) \/ SleeperCancel(k)
             \/ WalkVisit(k) \/ IoEnds(k)
      PROVE  LeafCommand(l)!Next \/ UNCHANGED <<phase[l], told[l]>>
  BY <1>1, <1>3 DEF SleeperStart, SleeperStartFails, SleeperCancel, WalkVisit,
                    IoEnds
<1>4. ASSUME NEW k \in Waiter, WaiterStart(k) \/ WaiterCancel(k) \/ Signal(k)
      PROVE  LeafCommand(l)!Next \/ UNCHANGED <<phase[l], told[l]>>
  BY <1>1, <1>4 DEF WaiterStart, WaiterCancel, Signal
<1>5. CASE SleeperCancelReturns
  <2>1. phase[waitfor] = "pending" /\ waitfor \in Leaf
    BY <1>1, <1>5 DEF SleeperCancelReturns, Upkeep, Operations,
                            NodesFollowTheirLeaves, TypeOK
  <2> QED
    BY <1>1, <1>5, <2>1 DEF SleeperCancelReturns
<1>6. ASSUME NEW i \in 1..Len(handles),
             HandleAnswer(i) \/ ConnectAgain(i) \/ ConnectFails(i)
      PROVE  LeafCommand(l)!Next \/ UNCHANGED <<phase[l], told[l]>>
  <2>1. handles[i] \in Leaf /\ phase[handles[i]] = "pending"
    BY <1>1, <1>6 DEF Upkeep, HandlesArePending, HandleAnswer, ConnectAgain,
                        ConnectFails, HandleReported, Running
  <2> QED
    BY <1>1, <1>6, <2>1 DEF HandleAnswer, ConnectAgain, ConnectFails
<1>7. CASE \/ WaitForSleeper \/ WaitWoken \/ RootComplete \/ StartWaits
           \/ StartReturns \/ LoopAgain \/ HandleReturns \/ SleeperReturns
           \/ WalkEnds \/ Terminated \/ UNCHANGED vars
  BY <1>7 DEF WaitForSleeper, WaitWoken, RootComplete, StartWaits,
              StartReturns, LoopAgain, HandleReturns, SleeperReturns,
              WalkEnds, Terminated, vars
<1>8. CASE ConnectGoesOn
  BY <1>1, <1>8 DEF ConnectGoesOn, SecondAnswer
<1> QED
  BY <1>2, <1>3, <1>4, <1>5, <1>6, <1>7, <1>8 DEF Next

(* A program that has stopped takes no further step. *)
LEMMA StoppedStays == ~Running /\ [Next]_vars => UNCHANGED vars
BY DEF Next, InProgram, LeafMake, LeafDismiss, SleeperStart, SleeperStartFails,
       SleeperCancel, WalkVisit, IoEnds, WaiterStart, WaiterCancel, Signal,
       WaitForSleeper, SleeperCancelReturns, RootComplete, StartWaits,
       StartReturns, LoopAgain, WaitWoken, HandleReturns, ConnectGoesOn,
       HandleCalled, SleeperReturns, WalkEnds, HandleAnswer, ConnectAgain,
       ConnectFails, HandleReported, Terminated

(* Once WSAEnumNetworkEvents has failed, only the end of that on_completion *)
(* concerns its connect_impl any more.                                     *)
LEMMA FailingStays ==
  ASSUME IInv, [Next]_vars, failing # Null
  PROVE  /\ failing' = failing /\ phase'[failing] = "gone"
         /\ \/ fault' = "answered_twice" /\ told'[failing] = 2
            \/ fault' # "answered_twice" /\ fault # "answered_twice"
               /\ told'[failing] = told[failing]
         /\ fault' = "none" => ctl' = "handle" /\ told'[failing] = 1
<1>1. CASE UNCHANGED vars
  BY <1>1 DEF vars, IInv, FailingIsOver, Causes, Running
<1>2. CASE ~UNCHANGED vars
  <2> USE LeafAssumption DEF leafVars, loopVars, nodeVars, handleVars
  <2>1. /\ Running /\ ctl = "handle" /\ phase[failing] = "gone"
        /\ told[failing] = 1 /\ failing \in Leaf /\ fault = "none"
        /\ phase \in [Leaf -> {"unborn", "fresh", "pending", "gone"}]
        /\ told \in [Leaf -> Nat]
    BY <1>2, StoppedStays
       DEF IInv, FailingIsOver, Upkeep, NodesFollowTheirLeaves, TypeOK, Leaf,
           Running
  <2>2. ASSUME NEW l \in Leaf, LeafMake(l) \/ LeafDismiss(l)
        PROVE  /\ failing' = failing /\ phase'[failing] = "gone"
               /\ told' = told /\ fault' = "none" /\ ctl' = "handle"
    BY <2>1, <2>2 DEF LeafMake, LeafDismiss
  <2>3. ASSUME NEW l \in Sleeper,
               \/ SleeperStart(l) \/ SleeperStartFails(l) \/ SleeperCancel(l)
               \/ IoEnds(l)
        PROVE  /\ failing' = failing /\ phase'[failing] = "gone"
               /\ told'[failing] = 1 /\ fault' = "none" /\ ctl' = "handle"
    BY <2>1, <2>3 DEF SleeperStart, SleeperStartFails, SleeperCancel, IoEnds,
                      Answers
  <2>4. ASSUME NEW l \in Waiter, WaiterStart(l) \/ WaiterCancel(l) \/ Signal(l)
        PROVE  /\ failing' = failing /\ phase'[failing] = "gone"
               /\ told'[failing] = 1 /\ fault' # "answered_twice"
               /\ ctl' = "handle"
    BY <2>1, <2>4 DEF WaiterStart, WaiterCancel, Signal, Answers
  <2>5. CASE WaitForSleeper
    BY <2>1, <2>5 DEF WaitForSleeper, RunRoutines
  <2>6. CASE SleeperCancelReturns
    <3>1. phase[waitfor] = "pending"
      BY <2>6 DEF SleeperCancelReturns, IInv, Upkeep, Operations
    <3> QED
      BY <2>1, <2>6, <3>1 DEF SleeperCancelReturns
  <2>7. CASE ConnectGoesOn
    BY <2>1, <2>7 DEF ConnectGoesOn
  <2>8. CASE RootComplete
    BY <2>1, <2>8 DEF RootComplete
  <2>9. ~\E l \in Sleeper : WalkVisit(l)
    BY <2>1 DEF WalkVisit
  <2>10. /\ ~StartWaits /\ ~StartReturns /\ ~LoopAgain /\ ~WaitWoken
         /\ ~HandleReturns /\ ~SleeperReturns /\ ~WalkEnds
    BY <2>1 DEF StartWaits, StartReturns, LoopAgain, WaitWoken, HandleReturns,
                SleeperReturns, WalkEnds
  <2>11. ~\E i \in 1..Len(handles) :
            HandleAnswer(i) \/ ConnectAgain(i) \/ ConnectFails(i)
    BY <2>1 DEF HandleAnswer, ConnectAgain, ConnectFails, HandleReported
  <2>12. ~Terminated
    BY <1>2 DEF Terminated
  <2> QED
    BY <1>2, <2>1, <2>2, <2>3, <2>4, <2>5, <2>6, <2>7, <2>8, <2>9, <2>10,
       <2>11, <2>12 DEF Next
<1> QED
  BY <1>1, <1>2

LEMMA FailingPreserved == IInv /\ [Next]_vars => FailingIsOver'
<1> SUFFICES ASSUME IInv, [Next]_vars PROVE FailingIsOver'
  OBVIOUS
<1>1. CASE failing # Null
  BY <1>1, FailingStays DEF FailingIsOver, Running
<1>2. ASSUME failing = Null, failing' # Null PROVE FailingIsOver'
  <2>1. PICK i \in 1..Len(handles) : ConnectFails(i)
    BY <1>2 DEF Next, vars, leafVars, loopVars, nodeVars, handleVars, LeafMake,
           LeafDismiss, SleeperStart, SleeperStartFails, SleeperCancel,
           WalkVisit, IoEnds, WaiterStart, WaiterCancel, Signal,
           WaitForSleeper, SleeperCancelReturns, RootComplete, StartWaits,
           StartReturns, LoopAgain, WaitWoken, HandleReturns, ConnectGoesOn,
           SleeperReturns, WalkEnds, HandleAnswer, ConnectAgain, Terminated
  <2>2. handles[i] \in Leaf /\ phase[handles[i]] = "pending"
    BY <2>1 DEF ConnectFails, HandleReported, Running, IInv, Upkeep,
                HandlesArePending, Leaf
  <2>3. /\ failing' = handles[i] /\ Answers(handles[i]) /\ ctl' = "handle"
        /\ told[handles[i]] = 0
    BY <2>1, <2>2 DEF ConnectFails, IInv, Upkeep, Operations
  <2> QED
    BY <2>2, <2>3 DEF FailingIsOver, Answers, IInv, Upkeep,
                      NodesFollowTheirLeaves, TypeOK
<1> QED
  BY <1>1, <1>2 DEF FailingIsOver

LEMMA AnswersPreserved == IInv /\ [Next]_vars => AnswersGiven'
<1> SUFFICES ASSUME IInv, [Next]_vars, NEW l \in Leaf
             PROVE  \/ LeafCommand(l)!AtMostOneAnswer'
                    \/ (l = failing /\ told[l] = 2 /\ fault = "answered_twice")'
  BY DEF AnswersGiven
<1> USE DEF LeafCommand!AtMostOneAnswer
<1>1. CASE l = failing
  <2>1. l # Null
    BY LeafAssumption DEF Leaf
  <2> QED
    BY <1>1, <2>1, FailingStays DEF IInv, AnswersGiven, FailingIsOver, Causes
<1>2. CASE l # failing
  <2>1. LeafCommand(l)!AtMostOneAnswer
    BY <1>2 DEF IInv, AnswersGiven
  <2>2. LeafCommand(l)!Next \/ UNCHANGED <<phase[l], told[l]>>
    BY <1>2, StepRefines DEF IInv, SecondAnswer
  <2> QED
    BY <2>1, <2>2 DEF LeafCommand!Next, LeafCommand!Make,
       LeafCommand!StartAnswers, LeafCommand!StartWaits, LeafCommand!Notify,
       LeafCommand!Cancel, LeafCommand!Dismiss
<1> QED
  BY <1>1, <1>2

(* The steps that may stop the program. *)
LEMMA CausesPreserved == IInv /\ [Next]_vars => Causes'
<1> SUFFICES ASSUME IInv, Upkeep, Causes, [Next]_vars PROVE Causes'
  BY DEF IInv
<1> USE DEF Running, InProgram
<1>1. ASSUME RunRoutines, fault = "none", UNCHANGED <<phase, told, cancelled>>
      PROVE  Causes'
  <2>1. fault' = "freed_overlapped" =>
          \E l \in Sleeper : io[l] = "queued" /\ l \notin sleepers
    BY <1>1 DEF RunRoutines, Queued
  <2>2. \A l \in Sleeper : io[l] = "queued" /\ l \notin sleepers =>
          phase[l] = "gone" /\ l \notin cancelled /\ told[l] = 1
    BY DEF Upkeep, NodesFollowTheirLeaves, TypeOK, Operations,
           OperationEndsBeforeCommand, Leaf
  <2>3. fault' \in {"none", "freed_overlapped"}
    BY <1>1 DEF RunRoutines
  <2> QED
    BY <1>1, <2>1, <2>2, <2>3 DEF Causes
<1>2. CASE WaitWoken \/ WaitForSleeper
  BY <1>1, <1>2 DEF WaitWoken, WaitForSleeper, leafVars
<1>3. ASSUME NEW l \in Sleeper, WalkVisit(l) PROVE Causes'
  <2>1. CASE phase[l] = "pending"
    BY <1>3, <2>1 DEF WalkVisit, Causes
  <2>2. CASE phase[l] # "pending"
    <3>1. l \in woken \ {current} /\ l \in Sleeper
      BY <1>3, LeafAssumption
         DEF WalkVisit, Upkeep, Operations, NodesFollowTheirLeaves, TypeOK
    <3>2. l \in cancelled /\ io[l] = "done"
      BY <2>2, <3>1 DEF Upkeep, NodesFollowTheirLeaves, Operations
    <3>3. phase[l] = "gone"
      BY <2>2, <3>1, <3>2
         DEF Upkeep, NodesFollowTheirLeaves, TypeOK, Operations, Leaf
    <3> QED
      BY <1>3, <2>2, <3>1, <3>2, <3>3 DEF WalkVisit, Causes, leafVars, nodeVars
  <2> QED
    BY <2>1, <2>2
<1>4. ASSUME NEW l \in Waiter, WaiterCancel(l) PROVE Causes'
  <2>1. \E i \in 1..Len(handles) : handles[i] = l
    BY <1>4 DEF WaiterCancel, Upkeep, HandlesArePending
  <2> QED
    BY <1>4, <2>1 DEF WaiterCancel, Causes
<1>5. CASE ConnectGoesOn
  <2>1. failing # Null /\ failing \in Connect
    BY <1>5 DEF ConnectGoesOn, Upkeep, NodesFollowTheirLeaves, TypeOK
  <2> QED
    BY <1>5, <2>1, FailingStays DEF ConnectGoesOn, Causes
<1>6. CASE Terminated \/ UNCHANGED vars
  BY <1>6 DEF Terminated, vars, Causes
<1>7. ASSUME fault = "none", UNCHANGED fault PROVE Causes'
  BY <1>7 DEF Causes
<1>8. ASSUME NEW l \in Leaf, LeafMake(l) \/ LeafDismiss(l) PROVE Causes'
  BY <1>7, <1>8 DEF LeafMake, LeafDismiss
<1>9. ASSUME NEW l \in Sleeper,
             SleeperStart(l) \/ SleeperStartFails(l) \/ SleeperCancel(l) \/ IoEnds(l)
      PROVE  Causes'
  BY <1>7, <1>9 DEF SleeperStart, SleeperStartFails, SleeperCancel, IoEnds
<1>10. ASSUME NEW l \in Waiter, WaiterStart(l) \/ Signal(l) PROVE Causes'
  BY <1>7, <1>10 DEF WaiterStart, Signal
<1>11. ASSUME NEW i \in 1..Len(handles),
              HandleAnswer(i) \/ ConnectAgain(i) \/ ConnectFails(i)
       PROVE  Causes'
  BY <1>7, <1>11 DEF HandleAnswer, ConnectAgain, ConnectFails, HandleReported
<1>12. CASE \/ SleeperCancelReturns \/ RootComplete \/ StartWaits
            \/ StartReturns \/ LoopAgain \/ HandleReturns \/ SleeperReturns
            \/ WalkEnds
  BY <1>7, <1>12 DEF SleeperCancelReturns, RootComplete, StartWaits,
                     StartReturns, LoopAgain, HandleReturns, HandleCalled,
                     SleeperReturns, WalkEnds
<1> QED
  BY <1>2, <1>3, <1>4, <1>5, <1>6, <1>8, <1>9, <1>10, <1>11, <1>12 DEF Next

LEMMA InitEstablishes == Init => IInv
<1> SUFFICES ASSUME Init PROVE IInv
  OBVIOUS
<1>1. Causes /\ FailingIsOver
  BY DEF Init, Causes, FailingIsOver
<1>2. AnswersGiven
  <2>1. \A l \in Leaf : told[l] = 0
    BY DEF Init
  <2> QED
    BY <2>1 DEF AnswersGiven, LeafCommand!AtMostOneAnswer
<1> QED
  BY InitUpkeep, <1>1, <1>2 DEF IInv

LEMMA StepPreserves == IInv /\ [Next]_vars => IInv'
BY UpkeepPreserved, CausesPreserved, AnswersPreserved, FailingPreserved DEF IInv

-----------------------------------------------------------------------------

(* A node is where the life of its sleeper says, whatever cancels what. *)
THEOREM NodesFollow == Spec => []NodesFollowTheirLeaves
<1>1. IInv => NodesFollowTheirLeaves
  BY DEF IInv, Upkeep
<1> QED
  BY <1>1, InitEstablishes, StepPreserves, PTL DEF Spec

(* m_handles and the waiters correspond one to one, within the limit. *)
THEOREM HandlesFollow == Spec => []HandlesArePending
<1>1. IInv => HandlesArePending
  BY DEF IInv, Upkeep
<1> QED
  BY <1>1, InitEstablishes, StepPreserves, PTL DEF Spec

(* A cancelled operation is over before its command is. *)
THEOREM OperationsEndFirst == Spec => []OperationEndsBeforeCommand
<1>1. IInv => OperationEndsBeforeCommand
  BY DEF IInv, Upkeep
<1> QED
  BY <1>1, InitEstablishes, StepPreserves, PTL DEF Spec

(* Only a cancellation can leave a sleeper woken while the loop blocks. *)
THEOREM BlocksWithNothingDue == Spec => []NothingDueWhenBlocking
<1>1. IInv => NothingDueWhenBlocking
  BY DEF IInv, Upkeep, WalkVisitsTheRest, NothingDueWhenBlocking
<1> QED
  BY <1>1, InitEstablishes, StepPreserves, PTL DEF Spec

(* The assertion of remove_handle never fails, and freed memory is only    *)
(* touched after a sleeper was cancelled or failed to start.               *)
THEOREM FaultsHaveTheirCauses == Spec => []Causes
<1>1. IInv => Causes
  BY DEF IInv, Upkeep
<1> QED
  BY <1>1, InitEstablishes, StepPreserves, PTL DEF Spec

(* Every leaf is a command: each step is one of its steps or none, but for *)
(* the second answer of a connect_impl whose WSAEnumNetworkEvents failed.  *)
THEOREM LeavesRefine == Spec => LeavesImplementCommandUnlessEnumFails
<1>1. Init => \A l \in Leaf : LeafCommand(l)!Init
  BY DEF Init, LeafCommand!Init
<1>2. IInv /\ [Next]_vars => [\A l \in Leaf : AnswersOrGoesOn(l)]_<<phase, told>>
  BY StepRefines DEF IInv, AnswersOrGoesOn
<1> QED
  BY <1>1, <1>2, InitEstablishes, StepPreserves, PTL
     DEF Spec, LeavesImplementCommandUnlessEnumFails

(* A leaf under the Win32 scheduler answers once at most, whether by its   *)
(* handle, by an overlapped operation or by the return of its cancel, and  *)
(* only once it has come to its end; the one that has answered twice is a  *)
(* connect_impl that went on after its WSAEnumNetworkEvents failed.        *)
THEOREM AnswersOnceUnlessEnumFails == Spec => []AnswersGiven
<1>1. IInv => AnswersGiven
  BY DEF IInv
<1> QED
  BY <1>1, InitEstablishes, StepPreserves, PTL DEF Spec
=============================================================================

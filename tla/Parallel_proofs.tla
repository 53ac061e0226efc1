-------------------------- MODULE Parallel_proofs --------------------------
(***************************************************************************)
(* For every set of children: a parallel_cmd leaves none of them behind,   *)
(* answers for all of them, never touches one that has ended, and keeps    *)
(* the contract of module Command towards its own owner.                   *)
(***************************************************************************)
EXTENDS Parallel, TLAPS

(* While the program runs: the children held are those handed over that    *)
(* have not ended; only a started parallel_cmd has started children, and   *)
(* until it answers none of them has failed; and what the accumulated task *)
(* holds fits the life of the parallel_cmd.                                *)
Bookkeeping ==
  /\ items = {c \in joined : phase[c] \notin Ended}
  /\ \A c \in Child : phase[c] = "pending" => self = "pending" /\ c \in joined
  /\ \A c \in Child \ joined : phase[c] = "fresh"
  /\ self = "pending" => items # {}
  /\ self = "gone" => items = {}
  /\ acc \in {"command", "parallel"} => items = joined
  /\ self = "pending" => \A c \in joined : phase[c] \in {"fresh", "pending", "value"}
  /\ acc = "command" => self = "unborn"
  /\ acc = "parallel" <=> self = "fresh"
  /\ acc \in {"value", "error", "empty"} =>
       items = {} /\ self \in {"unborn", "gone"} /\ answer = "none"
  /\ acc = "value" => joined = {} /\ self = "unborn"
  /\ acc = "moved" => self \in {"pending", "gone"}
  /\ self # "gone" => told = 0 /\ answer = "none"

IInv == /\ TypeOK
        /\ NoChildLeftBehind
        /\ AnswerIsTheChildrens
        /\ Running => Bookkeeping

LEMMA InitEstablishes == Init => IInv
BY DEF Init, IInv, TypeOK, NoChildLeftBehind, AnswerIsTheChildrens,
       Bookkeeping, Running, Ended

(* What | and |= do. *)
LEMMA OrPreserves ==
  ASSUME IInv,
         \/ \E r \in {"value", "error"} : OrResultOnResult(r)
         \/ OrValueOnCommand \/ OrErrorOnCommand \/ OrOnEmpty
         \/ \E c \in Child : \/ OrCommandOnResult(c) \/ OrCommandJoins(c)
                             \/ OrCommandNoRoom(c) \/ OrCommandNoParallel(c)
  PROVE  IInv'
<1> USE DEF IInv, TypeOK, NoChildLeftBehind, AnswerIsTheChildrens,
            Bookkeeping, Running, Ended, Moved, Unused
<1>1. ASSUME NEW r \in {"value", "error"}, OrResultOnResult(r) PROVE IInv'
  BY <1>1 DEF OrResultOnResult
<1>2. CASE OrValueOnCommand
  BY <1>2 DEF OrValueOnCommand
<1>3. CASE OrErrorOnCommand
  BY <1>3 DEF OrErrorOnCommand, DismissEmptyTask
<1>4. CASE OrOnEmpty
  BY <1>4 DEF OrOnEmpty, DismissEmptyTask
<1>5. ASSUME NEW c \in Child, OrCommandOnResult(c) PROVE IInv'
  BY <1>5 DEF OrCommandOnResult
<1>6. ASSUME NEW c \in Child, OrCommandJoins(c) PROVE IInv'
  BY <1>6 DEF OrCommandJoins
<1>7. ASSUME NEW c \in Child, OrCommandNoRoom(c) PROVE IInv'
  BY <1>7 DEF OrCommandNoRoom
<1>8. ASSUME NEW c \in Child, OrCommandNoParallel(c) PROVE IInv'
  BY <1>8 DEF OrCommandNoParallel, DismissEmptyTask
<1> QED
  BY <1>1, <1>2, <1>3, <1>4, <1>5, <1>6, <1>7, <1>8

(* What the owner does with the parallel_cmd. *)
LEMMA OwnerPreserves ==
  ASSUME IInv, Start \/ Dismiss \/ Cancel \/ \E c \in Child : StartFails(c)
  PROVE  IInv'
<1> USE DEF IInv, TypeOK, NoChildLeftBehind, AnswerIsTheChildrens,
            Bookkeeping, Running, Ended, Moved
<1>1. CASE Start
  BY <1>1 DEF Start
<1>2. CASE Dismiss
  BY <1>2 DEF Dismiss
<1>3. CASE Cancel
  BY <1>3 DEF Cancel, CancelHeld
<1>4. ASSUME NEW c \in Child, StartFails(c) PROVE IInv'
  BY <1>4 DEF StartFails
<1> QED
  BY <1>1, <1>2, <1>3, <1>4

(* A child completes. *)
LEMMA CompletePreserves ==
  ASSUME IInv, NEW c \in Child, Complete(c)
  PROVE  IInv'
<1> USE DEF IInv, TypeOK, NoChildLeftBehind, AnswerIsTheChildrens,
            Bookkeeping, Running, Ended, Moved
<1>1. CASE CompleteValue(c)
  BY <1>1 DEF CompleteValue
<1>2. CASE CompleteError(c)
  BY <1>2 DEF CompleteError, CancelHeld
<1>3. CASE CompleteCommand(c)
  BY <1>3 DEF CompleteCommand
<1> QED
  BY <1>1, <1>2, <1>3 DEF Complete

LEMMA StepPreserves == IInv /\ [Next]_vars => IInv'
<1> SUFFICES ASSUME IInv, [Next]_vars PROVE IInv'
  OBVIOUS
<1>1. CASE UNCHANGED vars \/ Terminated
  BY <1>1 DEF IInv, TypeOK, NoChildLeftBehind, AnswerIsTheChildrens,
              Bookkeeping, Running, vars, Terminated
<1> QED
  BY <1>1, OrPreserves, OwnerPreserves, CompletePreserves DEF Next

-----------------------------------------------------------------------------

(* Types. *)
THEOREM TypeCorrect == Spec => []TypeOK
<1>1. IInv => TypeOK
  BY DEF IInv
<1> QED
  BY <1>1, InitEstablishes, StepPreserves, PTL DEF Spec

(* No child outlives the parallel_cmd, however it ends. *)
THEOREM LeavesNoChildBehind == Spec => []NoChildLeftBehind
<1>1. IInv => NoChildLeftBehind
  BY DEF IInv
<1> QED
  BY <1>1, InitEstablishes, StepPreserves, PTL DEF Spec

(* The answer is value() only when every child succeeded. *)
THEOREM AnswersForAll == Spec => []AnswerIsTheChildrens
<1>1. IInv => AnswerIsTheChildrens
  BY DEF IInv
<1> QED
  BY <1>1, InitEstablishes, StepPreserves, PTL DEF Spec

(* A child that has ended is not touched again. *)
THEOREM EndedIsFinal == Spec => EndedStaysEnded
<1>1. ASSUME IInv, [Next]_vars
      PROVE  [\A c \in Child : phase[c] \in Ended => phase'[c] = phase[c]]_vars
  <2> SUFFICES ASSUME NEW d \in Child, phase[d] \in Ended
               PROVE  phase'[d] = phase[d]
    OBVIOUS
  <2>1. Running => d \in joined /\ d \notin items /\ phase[d] \notin {"fresh", "pending"}
    <3>1. phase[d] \notin {"fresh", "pending"}
      BY DEF Ended
    <3>2. Running => d \in joined
      BY <1>1, <3>1 DEF IInv, Bookkeeping
    <3>3. Running => d \notin items
      BY <1>1 DEF IInv, Bookkeeping
    <3> QED
      BY <3>1, <3>2, <3>3
  <2> USE DEF Moved
  <2>2. ASSUME NEW c \in Child,
               \/ OrCommandOnResult(c) \/ OrCommandJoins(c)
               \/ OrCommandNoRoom(c) \/ OrCommandNoParallel(c)
        PROVE  phase'[d] = phase[d]
    BY <2>1, <2>2 DEF OrCommandOnResult, OrCommandJoins, OrCommandNoRoom,
                      OrCommandNoParallel, Unused
  <2>3. CASE \/ \E r \in {"value", "error"} : OrResultOnResult(r)
             \/ OrValueOnCommand \/ OrErrorOnCommand \/ OrOnEmpty
    BY <2>1, <2>3 DEF OrResultOnResult, OrValueOnCommand, OrErrorOnCommand,
                      OrOnEmpty
  <2>4. CASE Start \/ Dismiss \/ Cancel
    BY <2>1, <2>4 DEF Start, Dismiss, Cancel, CancelHeld
  <2>5. ASSUME NEW c \in Child, StartFails(c) \/ Complete(c)
        PROVE  phase'[d] = phase[d]
    <3>1. CASE StartFails(c)
      BY <2>1, <3>1 DEF StartFails
    <3>2. CASE CompleteValue(c) \/ CompleteCommand(c)
      BY <2>1, <3>2 DEF CompleteValue, CompleteCommand
    <3>3. CASE CompleteError(c)
      <4>1. d # c /\ d \notin items \ {c}
        BY <2>1, <3>3 DEF CompleteError
      <4> QED
        BY <4>1, <3>3 DEF CompleteError, CancelHeld
    <3> QED
      BY <2>5, <3>1, <3>2, <3>3 DEF Complete
  <2>6. CASE UNCHANGED vars \/ Terminated
    BY <2>6 DEF vars, Terminated
  <2> QED
    BY <1>1, <2>2, <2>3, <2>4, <2>5, <2>6 DEF Next
<1> QED
  BY <1>1, InitEstablishes, StepPreserves, PTL DEF Spec, EndedStaysEnded

(* A parallel_cmd is a command: every step of it is a step of Command. *)
THEOREM Refines == Spec => ImplementsCommand
<1>1. Init => AsCommand!Init
  BY DEF Init, AsCommand!Init
<1>2. IInv /\ [Next]_vars => [AsCommand!Next]_(AsCommand!vars)
  <2> SUFFICES ASSUME IInv, [Next]_vars
               PROVE  [AsCommand!Next]_(AsCommand!vars)
    OBVIOUS
  <2> USE DEF AsCommand!Next, AsCommand!vars, AsCommand!Make,
              AsCommand!StartAnswers, AsCommand!StartWaits, AsCommand!Notify,
              AsCommand!Cancel, AsCommand!Dismiss
  <2>1. ASSUME NEW c \in Child, OrCommandJoins(c)
        PROVE  AsCommand!Make \/ UNCHANGED <<self, told>>
    BY <2>1 DEF OrCommandJoins, IInv, Bookkeeping
  <2>2. ASSUME NEW c \in Child, OrCommandNoRoom(c)
        PROVE  AsCommand!Dismiss \/ UNCHANGED <<self, told>>
    BY <2>2 DEF OrCommandNoRoom, IInv, Bookkeeping
  <2>3. CASE OrValueOnCommand
    BY <2>3 DEF OrValueOnCommand, IInv, Bookkeeping
  <2>4. CASE Start
    BY <2>4 DEF Start
  <2>5. CASE Dismiss
    BY <2>5 DEF Dismiss
  <2>6. CASE Cancel
    BY <2>6 DEF Cancel
  <2>7. ASSUME NEW c \in Child, Complete(c)
        PROVE  AsCommand!Notify \/ UNCHANGED <<self, told>>
    <3>1. self = "pending"
      BY <2>7 DEF Complete, CompleteValue, CompleteError, CompleteCommand,
                  IInv, Bookkeeping
    <3> QED
      BY <2>7, <3>1 DEF Complete, CompleteValue, CompleteError, CompleteCommand
  <2>8. ASSUME NEW c \in Child, StartFails(c) PROVE UNCHANGED <<self, told>>
    BY <2>8 DEF StartFails
  <2>9. ASSUME NEW c \in Child, OrCommandOnResult(c) \/ OrCommandNoParallel(c)
        PROVE  UNCHANGED <<self, told>>
    BY <2>9 DEF OrCommandOnResult, OrCommandNoParallel, DismissEmptyTask
  <2>10. ASSUME NEW r \in {"value", "error"}, OrResultOnResult(r)
         PROVE  UNCHANGED <<self, told>>
    BY <2>10 DEF OrResultOnResult
  <2>11. CASE OrErrorOnCommand \/ OrOnEmpty
    BY <2>11 DEF OrErrorOnCommand, OrOnEmpty, DismissEmptyTask
  <2>12. CASE UNCHANGED vars \/ Terminated
    BY <2>12 DEF vars, Terminated
  <2> QED
    BY <2>1, <2>2, <2>3, <2>4, <2>5, <2>6, <2>7, <2>8, <2>9, <2>10, <2>11,
       <2>12 DEF Next
<1> QED
  BY <1>1, <1>2, InitEstablishes, StepPreserves, PTL
     DEF Spec, ImplementsCommand, AsCommand!Spec

(* Whoever starts a parallel_cmd gets one answer at most, from start or    *)
(* from on_completion, and only once it has come to its end.               *)
THEOREM AnswersOnce == Spec => [](AsCommand!AtMostOneAnswer)
<1>1. AsCommand!Init => AsCommand!AtMostOneAnswer
  BY DEF AsCommand!Init, AsCommand!AtMostOneAnswer
<1>2. AsCommand!AtMostOneAnswer /\ [AsCommand!Next]_(AsCommand!vars)
        => AsCommand!AtMostOneAnswer'
  BY DEF AsCommand!AtMostOneAnswer, AsCommand!Next, AsCommand!Make,
         AsCommand!StartAnswers, AsCommand!StartWaits, AsCommand!Notify,
         AsCommand!Cancel, AsCommand!Dismiss, AsCommand!vars
<1> QED
  BY <1>1, <1>2, Refines, PTL DEF ImplementsCommand, AsCommand!Spec

(* As an owner a parallel_cmd dismisses only children that nobody has      *)
(* started, and cancels only those that wait, or that the same call of     *)
(* start has started before another one failed.                            *)
ChildrenInTurn ==
  \A c \in Child :
    phase'[c] # phase[c] =>
      /\ phase'[c] = "dismissed" => phase[c] = "fresh"
      /\ phase'[c] = "cancelled" =>
           phase[c] = "pending" \/ (phase[c] = "fresh" /\ self = "fresh")

(* Whether it is dismissed, emptied by | value() or runs out of memory, no *)
(* accumulation dismisses a child that has been started, and no call of    *)
(* cancel reaches one before it has.  (That it tries to, and stops at the  *)
(* assertion, is the violation of OnlyStartedCancelled.)                   *)
THEOREM KeepsOwnersSide == Spec => [][ChildrenInTurn]_vars
<1>1. ASSUME IInv, [Next]_vars
      PROVE  [ChildrenInTurn]_vars
  <2> USE DEF IInv, TypeOK, Bookkeeping, Running, Ended, Moved, ChildrenInTurn
  <2>1. ASSUME NEW r \in {"value", "error"}, OrResultOnResult(r)
        PROVE  ChildrenInTurn
    BY <2>1 DEF OrResultOnResult
  <2>2. CASE OrValueOnCommand \/ OrErrorOnCommand \/ OrOnEmpty
    BY <1>1, <2>2 DEF OrValueOnCommand, OrErrorOnCommand, OrOnEmpty,
                      DismissEmptyTask
  <2>3. ASSUME NEW c \in Child,
               \/ OrCommandOnResult(c) \/ OrCommandJoins(c)
               \/ OrCommandNoRoom(c) \/ OrCommandNoParallel(c)
        PROVE  ChildrenInTurn
    BY <1>1, <2>3 DEF OrCommandOnResult, OrCommandJoins, OrCommandNoRoom,
                      OrCommandNoParallel, DismissEmptyTask, Unused
  <2>4. CASE Start \/ Dismiss
    BY <1>1, <2>4 DEF Start, Dismiss
  <2>5. CASE Cancel
    BY <1>1, <2>5 DEF Cancel, CancelHeld
  <2>6. ASSUME NEW c \in Child, StartFails(c)
        PROVE  ChildrenInTurn
    BY <1>1, <2>6 DEF StartFails
  <2>7. ASSUME NEW c \in Child, Complete(c)
        PROVE  ChildrenInTurn
    BY <1>1, <2>7 DEF Complete, CompleteValue, CompleteError, CompleteCommand,
                      CancelHeld
  <2>8. CASE Terminated
    BY <2>8 DEF Terminated, vars
  <2> QED
    BY <1>1, <2>1, <2>2, <2>3, <2>4, <2>5, <2>6, <2>7, <2>8 DEF Next
<1> QED
  BY <1>1, InitEstablishes, StepPreserves, PTL DEF Spec
=============================================================================

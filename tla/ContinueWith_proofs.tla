------------------------- MODULE ContinueWith_proofs -------------------------
(***************************************************************************)
(* For every set of commands: continue_with, then and try_run call the     *)
(* function exactly once (then only for a value), lose no command, and     *)
(* the new command keeps the contract of module Command.                   *)
(***************************************************************************)
EXTENDS ContinueWith, TLAPS

(* Which function may be on the stack at which point of the life of the    *)
(* new command.                                                            *)
OnStack ==
  /\ (phase = "unborn") <=> (handler \in {"call", "finished", "failed"})
  /\ handler \in {"start", "dismiss"} => phase = "fresh"
  /\ handler \in {"complete", "cancel"} => phase = "pending"
  /\ handler \in {"cancel", "dismiss"} => at # "child"

(* A continuation goes through three stages: until its first command ends  *)
(* there is no result, then f is called with the result, then f's task is  *)
(* returned; when no function is left on the stack the first stage is that *)
(* of a living command and the third one has answered, or waits forever    *)
(* for an empty task.                                                      *)
Stages ==
  /\ at = "child" =>
       /\ (cmd = Null) <=> (handler \in {"call", "failed"})
       /\ r = "none" /\ u = "none" /\ calls = 0
       /\ phase # "gone" /\ handler # "finished"
       /\ handler \in {"start", "complete"} => child[cmd] = "fresh"
  /\ at = "invoke" =>
       /\ cmd = Null /\ r # "none" /\ u = "none" /\ calls = 0
       /\ handler \notin {"none", "finished", "failed"}
  /\ at = "return" =>
       /\ cmd = Null /\ r # "none" /\ u # "none"
       /\ calls = IF Bypassed THEN 0 ELSE 1
       /\ handler # "failed"
       /\ u \in Cmd /\ handler \notin {"none", "finished"} => child[u] = "fresh"
       /\ handler = "none" =>
            phase = "gone" \/ (phase = "pending" /\ u = "empty")

IInv == /\ NoCommandLeftBehind
        /\ CalledExactlyOnce
        /\ OnStack
        /\ Stages

LEMMA InitEstablishes == Init => IInv
BY CmdAssumption
   DEF Init, IInv, NoCommandLeftBehind, TypeOK, CalledExactlyOnce, OnStack,
       Stages, Outcome, Bypassed, Idle, Running

(* The member function, called for a result or for a command. *)
LEMMA CallPreserves ==
  ASSUME IInv,
         \/ \E o \in Outcome : CallOnResult(o)
         \/ \E c \in Cmd : CallOnCommand(c) \/ NoMemory(c) \/ MoveThrows(c)
         \/ CallReturns \/ DestroyTask
  PROVE  IInv'
<1> USE CmdAssumption
    DEF IInv, NoCommandLeftBehind, TypeOK, CalledExactlyOnce, OnStack, Stages,
        Outcome, Bypassed, Idle, Running, Calling, implVars
<1>1. ASSUME NEW o \in Outcome, CallOnResult(o) PROVE IInv'
  BY <1>1 DEF CallOnResult
<1>2. ASSUME NEW c \in Cmd, CallOnCommand(c) PROVE IInv'
  BY <1>2 DEF CallOnCommand
<1>3. ASSUME NEW c \in Cmd, NoMemory(c) PROVE IInv'
  BY <1>3 DEF NoMemory
<1>4. ASSUME NEW c \in Cmd, MoveThrows(c) PROVE IInv'
  BY <1>4 DEF MoveThrows
<1>5. CASE CallReturns
  BY <1>5 DEF CallReturns, Returning, Handed, TaskBecomes
<1>6. CASE DestroyTask
  BY <1>6 DEF DestroyTask
<1> QED
  BY <1>1, <1>2, <1>3, <1>4, <1>5, <1>6

(* f is called, or then passes an error by. *)
LEMMA InvokePreserves ==
  ASSUME IInv, Bypass \/ Invoke
  PROVE  IInv'
<1> USE CmdAssumption
    DEF IInv, NoCommandLeftBehind, TypeOK, CalledExactlyOnce, OnStack, Stages,
        Outcome, Bypassed, Idle, Running, implVars
<1>1. CASE Bypass
  BY <1>1 DEF Bypass
<1>2. CASE Invoke
  BY <1>2 DEF Invoke
<1> QED
  BY <1>1, <1>2

(* The first command returns from its start, or completes. *)
LEMMA ChildPreserves ==
  ASSUME IInv,
         \/ ChildWaits
         \/ \E o \in Outcome : ChildAnswers(o) \/ Complete(o)
         \/ \E d \in Cmd : ChildSuccessor(d) \/ CompleteSuccessor(d)
  PROVE  IInv'
<1> USE CmdAssumption
    DEF IInv, NoCommandLeftBehind, TypeOK, CalledExactlyOnce, OnStack, Stages,
        Outcome, Bypassed, Idle, Running, Starting, Completing, implVars
<1>1. CASE ChildWaits
  BY <1>1 DEF ChildWaits
<1>2. ASSUME NEW o \in Outcome, ChildAnswers(o) PROVE IInv'
  BY <1>2 DEF ChildAnswers, Ended
<1>3. ASSUME NEW o \in Outcome, Complete(o) PROVE IInv'
  BY <1>3 DEF Complete, Ended
<1>4. ASSUME NEW d \in Cmd, ChildSuccessor(d) PROVE IInv'
  BY <1>4 DEF ChildSuccessor, Succeeded
<1>5. ASSUME NEW d \in Cmd, CompleteSuccessor(d) PROVE IInv'
  BY <1>5 DEF CompleteSuccessor, Succeeded
<1> QED
  BY <1>1, <1>2, <1>3, <1>4, <1>5

(* The owner calls the new command, and its functions return. *)
LEMMA OwnerPreserves ==
  ASSUME IInv,
         \/ Start \/ Return \/ StopReturns
         \/ \E o \in Outcome : Cancel(o) \/ Dismiss(o)
  PROVE  IInv'
<1> USE CmdAssumption
    DEF IInv, NoCommandLeftBehind, TypeOK, CalledExactlyOnce, OnStack, Stages,
        Outcome, Bypassed, Idle, Running, Returning, implVars
<1>1. CASE Start
  BY <1>1 DEF Start
<1>2. CASE Return
  <2>1. CASE u \in Cmd
    BY <1>2, <2>1 DEF Return, Answer, Handed, TaskBecomes
  <2>2. CASE u \notin Cmd
    BY <1>2, <2>2 DEF Return, Answer, Handed, TaskBecomes
  <2> QED
    BY <2>1, <2>2
<1>3. CASE StopReturns
  <2>1. CASE u \in Cmd
    BY <1>3, <2>1 DEF StopReturns, Dismissed, TaskBecomes
  <2>2. CASE u \notin Cmd
    BY <1>3, <2>2 DEF StopReturns, Dismissed, TaskBecomes
  <2> QED
    BY <2>1, <2>2
<1>4. ASSUME NEW o \in Outcome, Cancel(o) PROVE IInv'
  BY <1>4 DEF Cancel, Ended
<1>5. ASSUME NEW o \in Outcome, Dismiss(o) PROVE IInv'
  BY <1>5 DEF Dismiss, Ended
<1> QED
  BY <1>1, <1>2, <1>3, <1>4, <1>5

LEMMA StepPreserves == IInv /\ [Next]_vars => IInv'
<1> SUFFICES ASSUME IInv, [Next]_vars PROVE IInv'
  OBVIOUS
<1>1. CASE UNCHANGED vars \/ Terminated
  BY <1>1 DEF IInv, NoCommandLeftBehind, TypeOK, CalledExactlyOnce, OnStack,
              Stages, Bypassed, Idle, Running, vars, Terminated
<1> QED
  BY <1>1, CallPreserves, InvokePreserves, ChildPreserves, OwnerPreserves
     DEF Next, OnTheStack, FirstCommandAnswers

-----------------------------------------------------------------------------

(* The function is called once, after the first command has ended and      *)
(* before the continuation is over.                                        *)
THEOREM CallsOnce == Spec => []CalledExactlyOnce
<1>1. IInv => CalledExactlyOnce
  BY DEF IInv
<1> QED
  BY <1>1, InitEstablishes, StepPreserves, PTL DEF Spec

(* No command of the task or of the function is lost, not even where the   *)
(* continuation could not be made: then it is alive in the caller's task.  *)
THEOREM LeavesNoCommandBehind == Spec => []NoCommandLeftBehind
<1>1. IInv => NoCommandLeftBehind
  BY DEF IInv
<1> QED
  BY <1>1, InitEstablishes, StepPreserves, PTL DEF Spec

(* The continuation is a command: its steps are steps of Command. *)
THEOREM Refines == Spec => ImplementsCommand
<1>1. Init => Continuation!Init
  BY DEF Init, Continuation!Init
<1>2. IInv /\ [Next]_vars => [Continuation!Next]_<<phase, told>>
  <2> SUFFICES ASSUME IInv, [Next]_vars
               PROVE  [Continuation!Next]_<<phase, told>>
    OBVIOUS
  <2> USE DEF Continuation!Next, Continuation!Make, Continuation!StartAnswers,
              Continuation!StartWaits, Continuation!Notify,
              Continuation!Cancel, Continuation!Dismiss
  <2>1. ASSUME NEW c \in Cmd, CallOnCommand(c) PROVE Continuation!Make
    BY <2>1 DEF CallOnCommand, Calling, IInv, OnStack
  <2>2. CASE ChildWaits
    BY <2>2 DEF ChildWaits, Starting, IInv, OnStack
  <2>3. CASE Return
    BY <2>3 DEF Return, Returning, Answer, IInv, OnStack
  <2>4. CASE StopReturns
    BY <2>4 DEF StopReturns, Returning, IInv, OnStack
  <2>5. CASE \/ Bypass \/ Invoke \/ CallReturns \/ Start \/ Terminated
             \/ DestroyTask \/ UNCHANGED vars
    BY <2>5 DEF Bypass, Invoke, CallReturns, Start, DestroyTask, Terminated, vars, implVars
  <2>6. ASSUME NEW o \in Outcome,
               \/ CallOnResult(o) \/ ChildAnswers(o) \/ Complete(o)
               \/ Cancel(o) \/ Dismiss(o)
        PROVE  UNCHANGED <<phase, told>>
    BY <2>6 DEF CallOnResult, ChildAnswers, Complete, Cancel, Dismiss, implVars
  <2>7. ASSUME NEW c \in Cmd,
               \/ NoMemory(c) \/ MoveThrows(c) \/ ChildSuccessor(c)
               \/ CompleteSuccessor(c)
        PROVE  UNCHANGED <<phase, told>>
    BY <2>7 DEF NoMemory, MoveThrows, ChildSuccessor, CompleteSuccessor, implVars
  <2> QED
    BY <2>1, <2>2, <2>3, <2>4, <2>5, <2>6, <2>7
       DEF Next, OnTheStack, FirstCommandAnswers
<1> QED
  BY <1>1, <1>2, InitEstablishes, StepPreserves, PTL
     DEF Spec, ImplementsCommand

(* Whoever starts a continuation gets one answer at most, and only once it *)
(* has come to its end.                                                    *)
THEOREM AnswersOnce == Spec => [](Continuation!AtMostOneAnswer)
<1>1. Continuation!Init => Continuation!AtMostOneAnswer
  BY DEF Continuation!Init, Continuation!AtMostOneAnswer
<1>2. Continuation!AtMostOneAnswer /\ [Continuation!Next]_<<phase, told>>
        => Continuation!AtMostOneAnswer'
  BY DEF Continuation!AtMostOneAnswer, Continuation!Next, Continuation!Make,
         Continuation!StartAnswers, Continuation!StartWaits, Continuation!Notify,
         Continuation!Cancel, Continuation!Dismiss
<1> QED
  BY <1>1, <1>2, Refines, PTL DEF ImplementsCommand

(* As an owner a continuation keeps the contract of module Command: it     *)
(* starts and dismisses only what nobody has started, and cancels only     *)
(* what waits; the task that f returned is handed on, or dismissed, before *)
(* anybody has started it.                                                 *)
OwnsInTurn ==
  /\ Starting \/ (Idle /\ phase = "fresh") => cmd # Null /\ child[cmd] = "fresh"
  /\ Idle /\ phase = "pending" /\ cmd # Null => child[cmd] = "pending"
  /\ u \in Cmd /\ Returning({"call", "start", "complete", "cancel", "dismiss"})
       => child[u] = "fresh"

(* Unlike a loop (OnlyStartedCancelled of module Loop) a continuation does *)
(* to its commands only what their contract allows, whichever of start,    *)
(* on_completion, cancel and dismiss holds them.                           *)
THEOREM KeepsOwnersSide == Spec => []OwnsInTurn
<1>1. IInv => OwnsInTurn
  BY CmdAssumption
     DEF IInv, NoCommandLeftBehind, TypeOK, OnStack, Stages, OwnsInTurn,
         Starting, Returning, Idle, Running
<1> QED
  BY <1>1, InitEstablishes, StepPreserves, PTL DEF Spec
=============================================================================

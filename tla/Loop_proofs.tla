----------------------------- MODULE Loop_proofs -----------------------------
(***************************************************************************)
(* For any number of bytes and any set of commands: aw::loop runs its      *)
(* tasks one at a time, hands each byte over exactly once, and cmd2 keeps  *)
(* the contract of module Command, whichever function resumes the          *)
(* coroutine.                                                              *)
(***************************************************************************)
EXTENDS Loop, TLAPS

(* Which function may be on the stack at which point of cmd2's life, and   *)
(* what the coroutine holds there: a command exactly while it is turned to *)
(* or waited for, fresh unless cmd2 waits for it or cancels it.            *)
OnStack ==
  /\ (phase = "unborn") <=> (handler \in {"loop", "bad_alloc", "finished"})
  /\ handler = "start" => phase \in {"fresh", "pending"}
  /\ handler = "dismiss" => phase = "fresh"
  /\ handler \in {"cancel", "complete"} => phase = "pending"
  /\ handler \in {"none", "finished"} => at = "end"
  /\ handler \in {"loop", "complete"} => at # "child"
  /\ handler = "finished" => state = "done"

Holds ==
  /\ at \in {"begin", "resume"} => cmd = Null /\ state # "done"
  /\ at = "child" => state = "awaiting_cmd"
  /\ at = "end" => \/ state = "done" /\ cmd = Null
                   \/ /\ state = "awaiting_cmd" /\ cmd # Null
                      /\ handler \in {"loop", "none"}
  /\ cmd # Null => \/ child[cmd] = "fresh"
                   \/ child[cmd] = "pending" /\ handler \in {"none", "cancel"}

(* The result not yet handed to update never exceeds what is left, and     *)
(* position and rest never exceed the buffer.                              *)
Numbers ==
  /\ pos + size <= MaxSize
  /\ count <= size
  /\ (r = "value") <=> (count # 0)

IInv == /\ OneCommandAtATime
        /\ EachByteOnce
        /\ OnStack
        /\ Holds
        /\ Numbers

LEMMA InitEstablishes == Init => IInv
<1> SUFFICES ASSUME Init PROVE IInv
  OBVIOUS
<1> USE SizeAssumption, CmdAssumption DEF Init
<1>1. OneCommandAtATime
  <2>1. {c \in Cmd : child[c] \in {"fresh", "pending"}} = {}
    OBVIOUS
  <2>2. TypeOK
    <3>1. out \in [Byte -> Nat] /\ count \in 0..MaxSize /\ pos \in 0..MaxSize
      OBVIOUS
    <3> QED
      BY <3>1 DEF TypeOK, Outcome
  <2> QED
    BY <2>1, <2>2 DEF OneCommandAtATime
<1>2. EachByteOnce
  BY DEF EachByteOnce, Byte
<1>3. OnStack /\ Holds /\ Numbers
  BY DEF OnStack, Holds, Numbers
<1> QED
  BY <1>1, <1>2, <1>3 DEF IInv

(* A result is constructed only where there is none, neither to hand over  *)
(* nor to return; the bytes it counts are those just written.              *)
LEMMA ConstructCounts ==
  ASSUME TypeOK, EachByteOnce, Numbers, NEW n \in Counts, Construct(n),
         UNCHANGED <<res, ctxVars>>, r = "none", res = "none"
  PROVE  /\ EachByteOnce' /\ Numbers'
         /\ out' \in [Byte -> Nat] /\ failed' \in BOOLEAN
         /\ r' \in Outcome /\ count' \in 0..MaxSize /\ at' = "resume"
<1> USE SizeAssumption DEF Construct, ctxVars
<1>1. n \in Nat /\ n <= size /\ pos \in Nat /\ size \in Nat /\ count = 0
  BY DEF Counts, TypeOK, Numbers
<1>2. \A b \in Byte : b \in Nat /\ out[b] = IF b <= pos THEN 1 ELSE 0
  BY <1>1 DEF EachByteOnce, Byte
<1>3. \A b \in Byte : out'[b] = IF b <= pos + n THEN 1 ELSE 0
  BY <1>1, <1>2 DEF Comes, Byte
<1>4. out' \in [Byte -> Nat]
  BY <1>2 DEF Comes
<1>5. failed' <=> (r' = "error" \/ res = "error")
  BY DEF Comes, EachByteOnce
<1>6. failed' \in BOOLEAN
  BY DEF Comes
<1> QED
  BY <1>1, <1>3, <1>4, <1>5, <1>6 DEF EachByteOnce, Numbers, TypeOK, Outcome

(* process asks start(ctx) for the next task. *)
LEMMA StartPreserves ==
  ASSUME IInv,
         \/ StartEmpty
         \/ \E c \in Cmd : StartCommand(c)
         \/ \E n \in Counts : StartResult(n)
  PROVE  IInv'
<1> USE SizeAssumption, CmdAssumption
    DEF IInv, OneCommandAtATime, TypeOK, EachByteOnce, OnStack, Holds, Numbers,
        Outcome, Byte, Processing, Running, cmd2Vars, ctxVars, worldVars
<1>1. CASE StartEmpty
  BY <1>1 DEF StartEmpty, Done
<1>2. ASSUME NEW c \in Cmd, StartCommand(c) PROVE IInv'
  BY <1>2 DEF StartCommand
<1>3. ASSUME NEW n \in Counts, StartResult(n) PROVE IInv'
  <2>1. r = "none" /\ res = "none"
    BY <1>3 DEF StartResult
  <2>2. Construct(n) /\ UNCHANGED <<res, ctxVars>>
    BY <1>3 DEF StartResult
  <2> HIDE DEF EachByteOnce, Numbers, Byte
  <2> QED
    BY <1>3, <2>1, <2>2, ConstructCounts DEF StartResult
<1> QED
  BY <1>1, <1>2, <1>3

(* process turns to the result of a task. *)
LEMMA ResumePreserves ==
  ASSUME IInv, ResumeError \/ ResumeValue \/ UpdateThrows
  PROVE  IInv'
<1> USE SizeAssumption, CmdAssumption
    DEF IInv, OneCommandAtATime, TypeOK, EachByteOnce, OnStack, Holds, Numbers,
        Outcome, Byte, Processing, Running, cmd2Vars, ctxVars, worldVars,
        coroVars
<1>1. CASE ResumeError
  BY <1>1 DEF ResumeError, Done, DestroyR
<1>2. CASE ResumeValue
  BY <1>2 DEF ResumeValue, Update, DestroyR
<1>3. CASE UpdateThrows
  BY <1>3 DEF UpdateThrows
<1> QED
  BY <1>1, <1>2, <1>3

(* loop and cmd2 enter and leave the coroutine. *)
LEMMA CallPreserves ==
  ASSUME IInv,
         \/ LoopReturnsResult \/ LoopReturnsCommand \/ NoMemory
         \/ Dismiss \/ Start \/ Cancel \/ Return
  PROVE  IInv'
<1> USE SizeAssumption, CmdAssumption
    DEF IInv, OneCommandAtATime, TypeOK, EachByteOnce, OnStack, Holds, Numbers,
        Outcome, Byte, On, Idle, Running, cmd2Vars, ctxVars, worldVars,
        coroVars
<1>1. CASE LoopReturnsResult
  BY <1>1 DEF LoopReturnsResult
<1>2. CASE LoopReturnsCommand
  BY <1>2 DEF LoopReturnsCommand
<1>3. CASE NoMemory
  BY <1>3 DEF NoMemory
<1>4. CASE Dismiss \/ Start \/ Cancel
  BY <1>4 DEF Dismiss, Start, Cancel, Enter
<1>5. CASE Return
  BY <1>5 DEF Return, Tells
<1> QED
  BY <1>1, <1>2, <1>3, <1>4, <1>5

(* The child returns from a call, or completes. *)
LEMMA ChildPreserves ==
  ASSUME IInv,
         \/ ChildWaits
         \/ \E n \in Counts : ChildAnswers(n) \/ Complete(n)
         \/ \E d \in Cmd : ChildSucceeded(d) \/ CompleteSuccessor(d)
  PROVE  IInv'
<1> USE SizeAssumption, CmdAssumption
    DEF IInv, OneCommandAtATime, TypeOK, EachByteOnce, OnStack, Holds, Numbers,
        Outcome, Byte, On, Idle, Running, cmd2Vars, ctxVars, worldVars,
        coroVars
<1>1. CASE ChildWaits
  BY <1>1 DEF ChildWaits
<1>2. ASSUME NEW n \in Counts, ChildAnswers(n) PROVE IInv'
  <2>1. r = "none" /\ res = "none"
    BY <1>2 DEF ChildAnswers
  <2>2. Construct(n) /\ UNCHANGED <<res, ctxVars>>
    BY <1>2 DEF ChildAnswers
  <2> HIDE DEF EachByteOnce, Numbers, Byte
  <2> QED
    BY <1>2, <2>1, <2>2, ConstructCounts DEF ChildAnswers, ChildEnds
<1>3. ASSUME NEW n \in Counts, Complete(n) PROVE IInv'
  <2>1. r = "none" /\ res = "none"
    BY <1>3 DEF Complete
  <2>2. Construct(n) /\ UNCHANGED <<res, ctxVars>>
    BY <1>3 DEF Complete
  <2> HIDE DEF EachByteOnce, Numbers, Byte
  <2> QED
    BY <1>3, <2>1, <2>2, ConstructCounts DEF Complete, ChildEnds
<1>4. ASSUME NEW d \in Cmd, ChildSucceeded(d) PROVE IInv'
  BY <1>4 DEF ChildSucceeded, Succeeded
<1>5. ASSUME NEW d \in Cmd, CompleteSuccessor(d) PROVE IInv'
  BY <1>5 DEF CompleteSuccessor, Succeeded
<1> QED
  BY <1>1, <1>2, <1>3, <1>4, <1>5

LEMMA StepPreserves == IInv /\ [Next]_vars => IInv'
<1> SUFFICES ASSUME IInv, [Next]_vars PROVE IInv'
  OBVIOUS
<1>1. CASE UNCHANGED vars \/ Terminated
  BY <1>1 DEF IInv, OneCommandAtATime, TypeOK, EachByteOnce, OnStack, Holds,
              Numbers, vars, cmd2Vars, coroVars, ctxVars, worldVars, Terminated
<1> QED
  BY <1>1, StartPreserves, ResumePreserves, CallPreserves, ChildPreserves
     DEF Next, OnTheStack, ChildCompletes

-----------------------------------------------------------------------------

(* The loop never has two commands alive, and cmd2 is gone only when its   *)
(* coroutine is done.                                                      *)
THEOREM OneAtATime == Spec => []OneCommandAtATime
<1>1. IInv => OneCommandAtATime
  BY DEF IInv
<1> QED
  BY <1>1, InitEstablishes, StepPreserves, PTL DEF Spec

(* No byte is written twice or left out, and a failure is the answer. *)
THEOREM WritesEachByteOnce == Spec => []EachByteOnce
<1>1. IInv => EachByteOnce
  BY DEF IInv
<1> QED
  BY <1>1, InitEstablishes, StepPreserves, PTL DEF Spec

(* cmd2 is a command: every step of the loop is a step of Command. *)
THEOREM Refines == Spec => ImplementsCommand
<1>1. Init => LoopCommand!Init
  BY DEF Init, LoopCommand!Init
<1>2. IInv /\ [Next]_vars => [LoopCommand!Next]_<<phase, told>>
  <2> SUFFICES ASSUME IInv, [Next]_vars
               PROVE  [LoopCommand!Next]_<<phase, told>>
    OBVIOUS
  <2> USE DEF LoopCommand!Next, LoopCommand!Make, LoopCommand!StartAnswers,
              LoopCommand!StartWaits, LoopCommand!Notify, LoopCommand!Cancel,
              LoopCommand!Dismiss
  <2>1. CASE LoopReturnsCommand
    BY <2>1 DEF LoopReturnsCommand, On, IInv, OnStack
  <2>2. CASE ChildWaits
    BY <2>2 DEF ChildWaits, On, IInv, OnStack
  <2>3. CASE Return
    BY <2>3 DEF Return, Tells, On, IInv, OnStack, OneCommandAtATime, TypeOK
  <2>4. CASE \/ LoopReturnsResult \/ NoMemory \/ Dismiss \/ Start \/ Cancel
             \/ Terminated \/ UNCHANGED vars
    BY <2>4 DEF LoopReturnsResult, NoMemory, Dismiss, Start, Cancel, Enter,
                Terminated, vars, cmd2Vars
  <2>5. CASE StartEmpty \/ ResumeError \/ ResumeValue \/ UpdateThrows
    BY <2>5 DEF StartEmpty, ResumeError, ResumeValue, UpdateThrows, cmd2Vars
  <2>6. ASSUME NEW n \in Counts, StartResult(n) \/ ChildAnswers(n) \/ Complete(n)
        PROVE  UNCHANGED <<phase, told>>
    BY <2>6 DEF StartResult, ChildAnswers, Complete, cmd2Vars
  <2>7. ASSUME NEW c \in Cmd,
               StartCommand(c) \/ ChildSucceeded(c) \/ CompleteSuccessor(c)
        PROVE  UNCHANGED <<phase, told>>
    BY <2>7 DEF StartCommand, ChildSucceeded, CompleteSuccessor, cmd2Vars
  <2> QED
    BY <2>1, <2>2, <2>3, <2>4, <2>5, <2>6, <2>7
       DEF Next, OnTheStack, ChildCompletes
<1> QED
  BY <1>1, <1>2, InitEstablishes, StepPreserves, PTL
     DEF Spec, ImplementsCommand

(* Whoever starts a loop gets one answer at most, and only once it has     *)
(* come to its end, whatever fn returns and its commands answer.           *)
THEOREM AnswersOnce == Spec => [](LoopCommand!AtMostOneAnswer)
<1>1. LoopCommand!Init => LoopCommand!AtMostOneAnswer
  BY DEF LoopCommand!Init, LoopCommand!AtMostOneAnswer
<1>2. LoopCommand!AtMostOneAnswer /\ [LoopCommand!Next]_<<phase, told>>
        => LoopCommand!AtMostOneAnswer'
  BY DEF LoopCommand!AtMostOneAnswer, LoopCommand!Next, LoopCommand!Make,
         LoopCommand!StartAnswers, LoopCommand!StartWaits, LoopCommand!Notify,
         LoopCommand!Cancel, LoopCommand!Dismiss
<1> QED
  BY <1>1, <1>2, Refines, PTL DEF ImplementsCommand

(* As an owner the loop starts and dismisses only commands that nobody has *)
(* started, also those that replace one another in a single call.          *)
StartsInTurn ==
  \A h \in {"start", "dismiss", "bad_alloc"} :
    On(h, "child") => cmd # Null /\ child[cmd] = "fresh"

(* No handler of cmd2 starts a command twice or dismisses one that waits,  *)
(* however many of them start(ctx) and the children give it in one call.   *)
(* (It may cancel one that was never started: OnlyStartedCancelled.)       *)
THEOREM KeepsOwnersSide == Spec => []StartsInTurn
<1>1. IInv => StartsInTurn
  BY DEF IInv, OneCommandAtATime, TypeOK, Holds, StartsInTurn, On
<1> QED
  BY <1>1, InitEstablishes, StepPreserves, PTL DEF Spec
=============================================================================

-------------------------------- MODULE Fiber --------------------------------
(***************************************************************************)
(* Fibers: a function that runs on a stack of its own as a command, and    *)
(* that suspends itself wherever it awaits a task (src/src/linux_fiber.cpp,*)
(* src/src/win32_fiber.cpp, src/include/avakar/await/fiber.h).  What a     *)
(* fiber awaits may be another fiber, so calls of the handlers of          *)
(* fiber_cmd nest.  The function finds the fiber it runs on through        *)
(* g_cur_fiber_data on Linux, which the handlers set when they are         *)
(* entered and not when they switch back to it later; Windows keeps it     *)
(* with the fiber itself.                                                  *)
(***************************************************************************)
EXTENDS Naturals, Sequences

CONSTANTS Fiber,  \* commands made by fiber_impl
          Leaf,   \* other commands that a fiber awaits
          Null

Cmd == Fiber \cup Leaf

ASSUME CmdAssumption == Fiber \cap Leaf = {} /\ Null \notin Cmd

VARIABLES os,       \* which of the two implementations runs
          cur,      \* g_cur_fiber_data
          calls,    \* handlers on the thread's own stack, innermost first
          phase,    \* per command, as in module Command
          told,     \* per fiber, the answers it has given
          awaited,  \* m_cmd of the awwait that m_awwaiter points to
          context,  \* the stack a fiber's function runs on
          fault     \* "wrong_fiber": another fiber's data has been used

vars == <<os, cur, calls, phase, told, awaited, context, fault>>

(* A handler of a fiber runs the function (body), has an awwait to start or *)
(* dismiss (await) or to cancel, or finds that the function has ended.      *)
(* "successor" is awwait::on_completion starting the command it was given.  *)
Call == [fiber : Fiber,
         mode : {"start", "resume", "cancel", "successor"},
         at : {"body", "await", "cancel", "ended"}]

TypeOK ==
  /\ os \in {"linux", "win32"}
  /\ cur \in Fiber \cup {Null}
  /\ calls \in Seq(Call)
  /\ phase \in [Cmd -> {"unborn", "fresh", "pending", "gone"}]
  /\ told \in [Fiber -> Nat]
  /\ awaited \in [Fiber -> Cmd \cup {Null}]
  /\ \A i \in DOMAIN calls :
       awaited[calls[i].fiber] # Null <=> calls[i].at \in {"await", "cancel"}
  /\ context \in [Fiber -> {"none", "live", "freed"}]
  /\ fault \in {"none", "wrong_fiber"}

Init ==
  /\ os \in {"linux", "win32"}
  /\ cur = Null
  /\ calls = <<>>
  /\ phase = [c \in Cmd |-> "unborn"]
  /\ told = [f \in Fiber |-> 0]
  /\ awaited = [f \in Fiber |-> Null]
  /\ context = [f \in Fiber |-> "none"]
  /\ fault = "none"

Running == fault = "none"
Idle == Running /\ calls = <<>>
Root(c) == \A f \in Fiber : awaited[f] # c

(* The innermost handler and what it is about to do. *)
Top == Head(calls)
On(modes, at) == /\ Running /\ calls # <<>>
                 /\ Top.mode \in modes /\ Top.at = at

Enter(f, mode, at) == [fiber |-> f, mode |-> mode, at |-> at]
Proceed(at) == <<[Top EXCEPT !.at = at]>> \o Tail(calls)

(* Mutants: on_completion does not set g_cur_fiber_data; the handler does  *)
(* not free the stack; start tells the sink of the value it returns.       *)
CurKept(call) == cur
StackKept(f) == context
TellsTwice(f, mode) == [told EXCEPT ![f] = @ + IF mode = "start" THEN 2 ELSE 1]

(* swapcontext back into the function once what it awaited has answered.   *)
(* Only on_completion sets g_cur_fiber_data first.                         *)
Resumed(call) ==
  IF call.mode = "successor" THEN Enter(call.fiber, "resume", "body")
  ELSE [call EXCEPT !.at = "body"]
CurWhenResumed(call) == IF call.mode = "successor" THEN call.fiber ELSE cur

(* The innermost handler of s has the result of what its function awaits,  *)
(* and the function goes on; with no handler the owner does.               *)
GoOn(s) == IF s = <<>>
           THEN calls' = <<>> /\ UNCHANGED <<awaited, cur>>
           ELSE /\ awaited' = [awaited EXCEPT ![Head(s).fiber] = Null]
                /\ calls' = <<Resumed(Head(s))>> \o Tail(s)
                /\ cur' = CurWhenResumed(Head(s))

StackFreed(f) == [context EXCEPT ![f] = "freed"]
Tells(f, mode) == IF mode = "cancel" THEN told ELSE [told EXCEPT ![f] = @ + 1]

-----------------------------------------------------------------------------
(* The owner of the fibers that no other fiber awaits.                     *)

Make(f) ==
  /\ Idle
  /\ phase[f] = "unborn"
  /\ phase' = [phase EXCEPT ![f] = "fresh"]
  /\ UNCHANGED <<os, cur, calls, told, awaited, context, fault>>

Dismiss(f) ==
  /\ Idle /\ Root(f)
  /\ phase[f] = "fresh"
  /\ phase' = [phase EXCEPT ![f] = "gone"]
  /\ UNCHANGED <<os, cur, calls, told, awaited, context, fault>>

-----------------------------------------------------------------------------
(* fiber_cmd::start and cancel, called by the owner or by the awwait of    *)
(* another fiber.                                                          *)

StartCalled(f) ==
  /\ phase[f] = "fresh"
  /\ \/ Idle /\ Root(f)
     \/ On({"start", "resume", "successor"}, "await") /\ awaited[Top.fiber] = f

Start(f) ==
  /\ StartCalled(f)
  /\ context' = [context EXCEPT ![f] = "live"]
  /\ cur' = f
  /\ calls' = <<Enter(f, "start", "body")>> \o calls
  /\ UNCHANGED <<os, phase, told, awaited, fault>>

(* No context, or no memory for a stack: start returns the error. *)
StartFails(f) ==
  /\ StartCalled(f)
  /\ phase' = [phase EXCEPT ![f] = "gone"]
  /\ told' = Tells(f, "start")
  /\ GoOn(calls)
  /\ UNCHANGED <<os, context, fault>>

Cancel(f) ==
  /\ phase[f] = "pending"
  /\ \/ Idle /\ Root(f)
     \/ On({"cancel"}, "cancel") /\ awaited[Top.fiber] = f
  /\ cur' = f
  /\ calls' = <<Enter(f, "cancel", "cancel")>> \o calls
  /\ UNCHANGED <<os, phase, told, awaited, context, fault>>

-----------------------------------------------------------------------------
(* The function of the fiber.                                              *)

(* try_await_impl: the function awaits command c.  A task that holds a     *)
(* result does not come here.                                              *)
Self == IF os = "win32" THEN Top.fiber ELSE cur

Await(c) ==
  /\ On({"start", "resume", "cancel"}, "body")
  /\ phase[c] = "unborn"
  /\ IF Self = Top.fiber
     THEN /\ phase' = [phase EXCEPT ![c] = "fresh"]
          /\ awaited' = [awaited EXCEPT ![Top.fiber] = c]
          /\ calls' = Proceed("await")
          /\ UNCHANGED fault
     ELSE /\ fault' = "wrong_fiber"
          /\ UNCHANGED <<phase, awaited, calls>>
  /\ UNCHANGED <<os, cur, told, context>>

(* fiber_proc: m_fn returns. *)
FunctionEnds ==
  /\ On({"start", "resume", "cancel"}, "body")
  /\ calls' = Proceed("ended")
  /\ UNCHANGED <<os, cur, phase, told, awaited, context, fault>>

-----------------------------------------------------------------------------
(* awwait: what the handlers do with the command that is awaited.          *)

Starting(c) == /\ On({"start", "resume", "successor"}, "await")
               /\ awaited[Top.fiber] = c /\ c \in Leaf

(* The innermost awwait has its result. *)
Answered(c) ==
  /\ phase' = [phase EXCEPT ![c] = "gone"]
  /\ GoOn(calls)
  /\ UNCHANGED <<os, told, context, fault>>

LeafAnswers(c) == Starting(c) /\ Answered(c)

(* command_ptr::start fetches a successor and starts it in its turn. *)
LeafSucceeded(c, d) ==
  /\ Starting(c)
  /\ phase[d] = "unborn"
  /\ phase' = [phase EXCEPT ![c] = "gone", ![d] = "fresh"]
  /\ awaited' = [awaited EXCEPT ![Top.fiber] = d]
  /\ UNCHANGED <<os, cur, calls, told, context, fault>>

(* start returns an empty task, and so does every start it was called from. *)
LeafWaits(c) ==
  /\ Starting(c)
  /\ phase' = [x \in Cmd |->
                 IF x = c \/ \E i \in DOMAIN calls : calls[i].fiber = x
                 THEN "pending" ELSE phase[x]]
  /\ calls' = <<>>
  /\ UNCHANGED <<os, cur, told, awaited, context, fault>>

(* Mutant: cancel resumes the function and leaves the command alone. *)
LeafNotCancelled(c) ==
  /\ On({"cancel"}, "cancel")
  /\ awaited[Top.fiber] = c /\ c \in Leaf
  /\ awaited' = [awaited EXCEPT ![Top.fiber] = Null]
  /\ calls' = Proceed("body")
  /\ UNCHANGED <<os, cur, phase, told, context, fault>>

LeafCancelled(c) ==
  /\ On({"cancel"}, "cancel")
  /\ awaited[Top.fiber] = c /\ c \in Leaf
  /\ Answered(c)

(* cancel dismisses whatever the function awaits from then on. *)
AwaitedDismissed(c) ==
  /\ On({"cancel"}, "await")
  /\ awaited[Top.fiber] = c
  /\ Answered(c)

-----------------------------------------------------------------------------
(* The function has ended.                                                 *)

(* start or cancel returns, to the owner or into the awwait that called.   *)
HandlerReturns ==
  /\ On({"start", "cancel"}, "ended")
  /\ phase' = [phase EXCEPT ![Top.fiber] = "gone"]
  /\ told' = Tells(Top.fiber, Top.mode)
  /\ context' = StackFreed(Top.fiber)
  /\ GoOn(Tail(calls))
  /\ UNCHANGED <<os, fault>>

(* Mutant: the sink is not told. *)
NotifyNobody(c) == calls' = <<>> /\ UNCHANGED <<awaited, cur>>

(* The fiber that awaits command c hears of its completion: on_completion. *)
Notify(c) ==
  \/ Root(c) /\ GoOn(<<>>)
  \/ \E p \in Fiber : awaited[p] = c /\ GoOn(<<Enter(p, "successor", "await")>>)

(* on_completion tells the sink, which may be another fiber's awwait. *)
HandlerCompletes ==
  /\ On({"resume"}, "ended")
  /\ phase' = [phase EXCEPT ![Top.fiber] = "gone"]
  /\ told' = Tells(Top.fiber, Top.mode)
  /\ context' = StackFreed(Top.fiber)
  /\ Notify(Top.fiber)
  /\ UNCHANGED <<os, fault>>

-----------------------------------------------------------------------------
(* A leaf that was waiting completes, with a result or with a successor,   *)
(* which awwait::on_completion starts.                                     *)

LeafCompletes(c) ==
  /\ Idle
  /\ phase[c] = "pending"
  /\ phase' = [phase EXCEPT ![c] = "gone"]
  /\ Notify(c)
  /\ UNCHANGED <<os, told, context, fault>>

LeafCompletesWith(c, d) ==
  /\ Idle
  /\ phase[c] = "pending" /\ phase[d] = "unborn"
  /\ phase' = [phase EXCEPT ![c] = "gone", ![d] = "fresh"]
  /\ \E p \in Fiber : /\ awaited[p] = c
                      /\ awaited' = [awaited EXCEPT ![p] = d]
                      /\ calls' = <<Enter(p, "successor", "await")>>
  /\ UNCHANGED <<os, cur, told, context, fault>>

(* Nothing is left, or a fiber's data has been overwritten. *)
Terminated ==
  /\ \/ ~Running
     \/ Idle /\ \A c \in Cmd : phase[c] \in {"unborn", "gone"}
  /\ UNCHANGED vars

OnTheStack ==
  \/ FunctionEnds \/ HandlerReturns \/ HandlerCompletes
  \/ \E c \in Cmd : Await(c) \/ AwaitedDismissed(c)
  \/ \E c \in Leaf : \/ LeafAnswers(c) \/ LeafWaits(c) \/ LeafCancelled(c)
                     \/ \E d \in Cmd : LeafSucceeded(c, d)
  \/ \E f \in Fiber : calls # <<>> /\ (Start(f) \/ StartFails(f) \/ Cancel(f))

LeafDone == \E c \in Leaf : \/ LeafCompletes(c)
                            \/ \E d \in Cmd : LeafCompletesWith(c, d)

Owner == \E f \in Fiber :
           \/ Make(f) \/ Dismiss(f)
           \/ calls = <<>> /\ (Start(f) \/ StartFails(f) \/ Cancel(f))

Next == OnTheStack \/ LeafDone \/ Owner \/ Terminated

(* Functions go on until they await or end, and what they wait for answers. *)
Fairness == WF_vars(OnTheStack) /\ WF_vars(LeafDone)

Spec == Init /\ [][Next]_vars /\ Fairness

-----------------------------------------------------------------------------
(* Safety.                                                                 *)

InCall(f) == \E i \in DOMAIN calls : calls[i].fiber = f

(* While a function runs, g_cur_fiber_data is its own fiber or one that    *)
(* has ended: lines 53, 69 and 87 are enough for a fiber never to take     *)
(* over the context of another live one, whatever order they were started, *)
(* resumed and cancelled in.  (That it may be one that has ended is the    *)
(* flaw of lines 60, 73 and 94, which switch back: see wrong_fiber.)        *)
WrongFiberHasEnded ==
  os = "linux" /\ On({"start", "resume", "cancel"}, "body") =>
    cur = Top.fiber \/ phase[cur] = "gone"

(* A suspended fiber awaits one command that is pending, no two the same,  *)
(* and one that has ended awaits nothing: every command that a function    *)
(* made is started, cancelled or dismissed before the function goes on.    *)
NoAwaitedLeftBehind ==
  /\ TypeOK
  /\ \A f \in Fiber : ~InCall(f) =>
       IF phase[f] = "pending"
       THEN awaited[f] # Null /\ phase[awaited[f]] = "pending"
       ELSE awaited[f] = Null
  /\ \A f, g \in Fiber : awaited[f] = awaited[g] /\ awaited[f] # Null => f = g
  /\ \A c \in Leaf : phase[c] \in {"fresh", "pending"} => ~Root(c)

(* A fiber has a stack exactly while it is suspended or running, it is     *)
(* freed once it has ended, and no handler of a fiber is entered while     *)
(* another one of the same fiber is running.                               *)
StacksFollowFibers ==
  /\ \A f \in Fiber : context[f] = "live" <=> InCall(f) \/ phase[f] = "pending"
  /\ \A i, j \in DOMAIN calls : calls[i].fiber = calls[j].fiber => i = j

(* Each fiber keeps the contract of module Command. *)
FiberCommand(f) == INSTANCE Command WITH phase <- phase[f], told <- told[f]

FibersImplementCommand ==
  /\ \A f \in Fiber : FiberCommand(f)!Init
  /\ [][\A f \in Fiber : FiberCommand(f)!Next \/ UNCHANGED <<phase[f], told[f]>>
       ]_<<phase, told>>

-----------------------------------------------------------------------------
(* Liveness.                                                               *)

(* A fiber that was started comes to its end, if what it awaits answers,   *)
(* unless a function used the data of another fiber.                       *)
EventuallyAnswers ==
  \A f \in Fiber : (InCall(f) \/ phase[f] = "pending") ~>
                     (phase[f] = "gone" \/ ~Running)

=============================================================================

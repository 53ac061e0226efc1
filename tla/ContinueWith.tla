---------------------------- MODULE ContinueWith ----------------------------
(***************************************************************************)
(* task::continue_with and task::then (src/src/then_impl.h): a command     *)
(* that runs the command of another task and passes its result to a        *)
(* function f, whose own task becomes the answer.  f is to be called       *)
(* however that command ends: at start, by a completion, when it is        *)
(* cancelled and when it is dismissed.  then is continue_with of a         *)
(* function that calls its own only for a value; try_run of a task<T>      *)
(* (src/src/run_impl.h) is continue_with of one that stores the result.    *)
(***************************************************************************)
EXTENDS Naturals

CONSTANTS Cmd,  \* the command of the task, its successors, and f's
          Null

ASSUME CmdAssumption == /\ Null \notin Cmd
                        /\ Cmd \cap {"none", "empty", "result"} = {}

VARIABLES member,  \* which of the three functions was called
          phase,   \* of the new command, as in module Command
          told,    \* how many answers it has given
          kept,    \* the command that is still in the caller's task, because
                   \* the continuation could not be made
          handler, \* the function on the stack, or "none"
          at,      \* what it does next
          cmd,     \* m_cmd
          r,       \* the result of the first command, once there is one
          u,       \* what f returned: "empty", "result" or a command
          child,   \* per command, the phases of module Command, or "handed"
                   \* when it has become the answer
          calls,   \* calls of f (history)
          fault    \* the assertion that failed, or "none"

vars == <<member, phase, told, kept, handler, at, cmd, r, u, child, calls, fault>>
implVars == <<member, phase, told, kept>>

Outcome == {"value", "error"}

TypeOK ==
  /\ member \in {"continue_with", "then", "try_run"}
  /\ phase \in {"unborn", "fresh", "pending", "gone"}
  /\ told \in Nat
  /\ handler \in {"none", "call", "start", "complete", "cancel", "dismiss",
                  "finished", "failed"}
  /\ at \in {"child", "invoke", "return"}
  /\ cmd \in Cmd \cup {Null}
  /\ cmd # Null => child[cmd] \in {"fresh", "pending"}
  /\ kept \in Cmd \cup {Null}
  /\ r \in Outcome \cup {"none"}
  /\ u \in {"none", "empty", "result"} \cup Cmd
  /\ child \in [Cmd -> {"unborn", "fresh", "pending", "gone", "handed"}]
  /\ calls \in Nat
  /\ fault \in {"none", "empty_dismiss", "null_cancel"}

Init ==
  /\ member \in {"continue_with", "then", "try_run"}
  /\ phase = "unborn" /\ told = 0
  /\ handler = "call" /\ at = "child"
  /\ kept = Null /\ cmd = Null /\ r = "none" /\ u = "none"
  /\ child = [c \in Cmd |-> "unborn"]
  /\ calls = 0
  /\ fault = "none"

Running == fault = "none"
Idle == Running /\ handler = "none"
Calling == Running /\ handler = "call" /\ at = "child"
Starting == Running /\ handler \in {"start", "complete"} /\ at = "child"
Returning(handlers) == Running /\ handler \in handlers /\ at = "return"

-----------------------------------------------------------------------------
(* What becomes of the commands.                                           *)

(* m_cmd ended with outcome o and is destroyed; f is called next.          *)
Ended(o) == /\ child' = [child EXCEPT ![cmd] = "gone"]
            /\ cmd' = Null
            /\ r' = o
            /\ at' = "invoke"

(* The answer of m_cmd is another command, which takes its place. *)
Succeeded(d) == /\ child[d] = "unborn"
                /\ child' = [child EXCEPT ![cmd] = "gone", ![d] = "fresh"]
                /\ cmd' = d

(* The task that f returned is passed on, or is dismissed.  Mutant: it is  *)
(* dropped.                                                                *)
TaskBecomes(p) == IF u \in Cmd THEN [child EXCEPT ![u] = p] ELSE child
TaskDropped == child

Handed == TaskBecomes("handed")
Dismissed == TaskBecomes("gone")

-----------------------------------------------------------------------------
(* The member function.                                                    *)

(* The task holds a result: f is called at once. *)
CallOnResult(o) ==
  /\ Calling
  /\ r' = o
  /\ at' = "invoke"
  /\ UNCHANGED <<implVars, handler, cmd, u, child, calls, fault>>

(* The task holds a command, which impl takes over. *)
CallOnCommand(c) ==
  /\ Calling
  /\ child[c] = "unborn"
  /\ child' = [child EXCEPT ![c] = "fresh"]
  /\ cmd' = c
  /\ phase' = "fresh"
  /\ handler' = "none"
  /\ UNCHANGED <<member, told, kept, at, r, u, calls, fault>>

(* make_command answers with the exception that new impl threw, and f is  *)
(* never called; try_run ignores the answer and returns the result it had  *)
(* set up for f, a value that no one came to.  When memory ran out the     *)
(* constructor has not run: fetch_command has taken nothing, and the       *)
(* command is still in the caller's task.                                  *)
NoMemory(c) ==
  /\ Calling
  /\ child[c] = "unborn"
  /\ child' = [child EXCEPT ![c] = "fresh"]
  /\ kept' = c
  /\ handler' = "failed"
  /\ UNCHANGED <<member, phase, told, at, cmd, r, u, calls, fault>>

(* The move of f into m_f throws, which that of try_run's never does:      *)
(* m_cmd has the command by then, and dismisses it as it is destroyed.     *)
MoveThrows(c) ==
  /\ Calling /\ member # "try_run"
  /\ child[c] = "unborn"
  /\ child' = [child EXCEPT ![c] = "gone"]
  /\ handler' = "failed"
  /\ UNCHANGED <<implVars, at, cmd, r, u, calls, fault>>

(* The caller destroys the task that was not taken over, which dismisses   *)
(* the command in it.                                                      *)
DestroyTask ==
  /\ Running /\ kept # Null
  /\ child' = [child EXCEPT ![kept] = "gone"]
  /\ kept' = Null
  /\ UNCHANGED <<member, phase, told, handler, at, cmd, r, u, calls, fault>>

CallReturns ==
  /\ Returning({"call"})
  /\ child' = Handed
  /\ handler' = "finished"
  /\ UNCHANGED <<implVars, at, cmd, r, u, calls, fault>>

-----------------------------------------------------------------------------
(* detail::invoke(std::move(m_f), r).                                      *)

Bypassed == member = "then" /\ r = "error"

(* then passes an error on without its function. *)
Bypass ==
  /\ Running /\ at = "invoke"
  /\ Bypassed
  /\ u' = "result"
  /\ at' = "return"
  /\ UNCHANGED <<implVars, handler, cmd, r, child, calls, fault>>

(* f returns a result (or throws), or a task that is empty or a command;   *)
(* that of try_run returns a value.                                        *)
Invoke ==
  /\ Running /\ at = "invoke"
  /\ ~Bypassed
  /\ calls' = calls + 1
  /\ at' = "return"
  /\ \/ u' = "result" /\ UNCHANGED child
     \/ member # "try_run" /\ u' = "empty" /\ UNCHANGED child
     \/ \E d \in Cmd : /\ member # "try_run"
                       /\ child[d] = "unborn"
                       /\ child' = [child EXCEPT ![d] = "fresh"]
                       /\ u' = d
  /\ UNCHANGED <<implVars, handler, cmd, r, fault>>

-----------------------------------------------------------------------------
(* impl: what its owner calls, and what m_cmd answers.                     *)

Start ==
  /\ Idle /\ phase = "fresh"
  /\ handler' = "start"
  /\ at' = "child"
  /\ UNCHANGED <<implVars, cmd, r, u, child, calls, fault>>

(* start_command, in start or for a successor in on_completion. *)
ChildWaits ==
  /\ Starting
  /\ child' = [child EXCEPT ![cmd] = "pending"]
  /\ phase' = "pending"
  /\ handler' = "none"
  /\ UNCHANGED <<member, told, kept, at, cmd, r, u, calls, fault>>

ChildAnswers(o) ==
  /\ Starting
  /\ Ended(o)
  /\ UNCHANGED <<implVars, handler, u, calls, fault>>

(* command_ptr::start fetches the successor and starts it in its turn. *)
ChildSuccessor(d) ==
  /\ Starting
  /\ Succeeded(d)
  /\ UNCHANGED <<implVars, handler, at, r, u, calls, fault>>

(* on_completion: complete(t) deletes m_cmd and fetches its successor. *)
Completing == /\ Idle /\ phase = "pending"
              /\ cmd # Null /\ child[cmd] = "pending"

Complete(o) ==
  /\ Completing
  /\ Ended(o)
  /\ handler' = "complete"
  /\ UNCHANGED <<implVars, u, calls, fault>>

(* Mutant: the successor is fetched and not started. *)
CompleteSuccessorUnstarted(d) ==
  /\ Completing
  /\ Succeeded(d)
  /\ UNCHANGED <<implVars, handler, at, r, u, calls, fault>>

CompleteSuccessor(d) ==
  /\ Completing
  /\ Succeeded(d)
  /\ handler' = "complete"
  /\ at' = "child"
  /\ UNCHANGED <<implVars, r, u, calls, fault>>

(* Mutant: the sink is told of an empty task too. *)
AnswerAlways == /\ told' = told + 1
                /\ phase' = IF u = "empty" THEN "pending" ELSE "gone"

(* start returns u, or on_completion tells the sink of it.  An empty task  *)
(* is no answer: the owner takes it for "pending".                         *)
Answer == IF u = "empty" THEN phase' = "pending" /\ UNCHANGED told
                         ELSE phase' = "gone" /\ told' = told + 1

Return ==
  /\ Returning({"start", "complete"})
  /\ Answer
  /\ child' = Handed
  /\ handler' = "none"
  /\ UNCHANGED <<member, kept, at, cmd, r, u, calls, fault>>

(* The owner may give the continuation up; try_run does not. *)
Cancel(o) ==
  /\ Idle /\ phase = "pending" /\ member # "try_run"
  /\ IF cmd = Null
     THEN fault' = "null_cancel" /\ UNCHANGED <<child, cmd, r, handler, at>>
     ELSE Ended(o) /\ handler' = "cancel" /\ UNCHANGED fault
  /\ UNCHANGED <<implVars, u, calls>>

(* Mutant: dismiss returns what m_cmd.dismiss did and skips f. *)
DismissSkipsF(o) ==
  /\ Idle /\ phase = "fresh" /\ member # "try_run"
  /\ child' = [child EXCEPT ![cmd] = "gone"]
  /\ cmd' = Null
  /\ phase' = "gone"
  /\ UNCHANGED <<member, told, kept, handler, at, r, u, calls, fault>>

Dismiss(o) ==
  /\ Idle /\ phase = "fresh" /\ member # "try_run"
  /\ Ended(o)
  /\ handler' = "dismiss"
  /\ UNCHANGED <<implVars, u, calls, fault>>

(* cancel and dismiss dismiss the task that f returned. *)
StopReturns ==
  /\ Returning({"cancel", "dismiss"})
  /\ IF u = "empty"
     THEN fault' = "empty_dismiss" /\ UNCHANGED <<phase, child, handler>>
     ELSE /\ phase' = "gone"
          /\ child' = Dismissed
          /\ handler' = "none"
          /\ UNCHANGED fault
  /\ UNCHANGED <<member, told, kept, at, cmd, r, u, calls>>

(* f returned an empty task: nobody will ever answer. *)
NobodyAnswers == Idle /\ phase = "pending" /\ u = "empty"

Terminated == /\ \/ ~Running \/ phase = "gone" \/ NobodyAnswers
                 \/ handler \in {"finished", "failed"}
              /\ UNCHANGED vars

OnTheStack ==
  \/ \E o \in Outcome : CallOnResult(o) \/ ChildAnswers(o)
  \/ \E c \in Cmd : CallOnCommand(c) \/ NoMemory(c) \/ MoveThrows(c)
                    \/ ChildSuccessor(c)
  \/ Bypass \/ Invoke
  \/ CallReturns \/ ChildWaits \/ Return \/ StopReturns

FirstCommandAnswers == \/ \E o \in Outcome : Complete(o)
                       \/ \E d \in Cmd : CompleteSuccessor(d)

Next == \/ OnTheStack \/ FirstCommandAnswers
        \/ Start \/ DestroyTask
        \/ \E o \in Outcome : Cancel(o) \/ Dismiss(o)
        \/ Terminated

(* A function that was called goes on, and a command that waits answers. *)
Fairness == WF_vars(OnTheStack) /\ WF_vars(FirstCommandAnswers)

Spec == Init /\ [][Next]_vars /\ Fairness

-----------------------------------------------------------------------------
(* Safety.                                                                 *)

(* However the first command ends, f is called exactly once before the     *)
(* continuation is over (src/test/then_test.cpp:71, "continue_with should  *)
(* be called even during destruction"), then's only for a value, and never *)
(* while that command is alive.  So what try_run returns is what its task  *)
(* came to, unless the continuation could not be made.                     *)
CalledExactlyOnce ==
  /\ phase = "gone" \/ handler = "finished" => calls = IF Bypassed THEN 0 ELSE 1
  /\ cmd # Null \/ handler = "failed" => calls = 0
  /\ calls \in {0, 1}

(* No command is left behind: the one that is alive is m_cmd, the one that *)
(* f has just returned or, where the continuation could not be made, the   *)
(* one its caller's task still holds and may still use; the continuation   *)
(* is destroyed with none.                                                 *)
NoCommandLeftBehind ==
  /\ TypeOK
  /\ {c \in Cmd : child[c] \in {"fresh", "pending"}} =
       IF cmd # Null THEN {cmd}
       ELSE IF kept # Null THEN {kept}
       ELSE IF u \in Cmd /\ handler \notin {"none", "finished"} THEN {u} ELSE {}
  /\ Idle /\ cmd # Null => child[cmd] = phase
  /\ phase = "gone" => cmd = Null
  /\ kept # Null => handler = "failed" /\ child[kept] = "fresh"

(* The continuation keeps the contract of module Command. *)
Continuation == INSTANCE Command
ImplementsCommand == Continuation!Init /\ [][Continuation!Next]_<<phase, told>>

-----------------------------------------------------------------------------
(* Liveness.                                                               *)

(* A continuation that was started answers, if its commands do, unless f   *)
(* returned an empty task: then nobody ever will.                          *)
EventuallyAnswers ==
  (handler = "start" \/ phase = "pending") ~>
    (phase = "gone" \/ ~Running \/ NobodyAnswers)

=============================================================================

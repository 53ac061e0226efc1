------------------------------ MODULE Parallel ------------------------------
(***************************************************************************)
(* The parallel combinator of src/src/parallel.cpp: a task accumulated     *)
(* with lhs |= rhs, and the parallel_cmd the accumulation ends up owning.  *)
(* The library is single threaded, so each operation runs to its end       *)
(* before another one begins and is one action; what interleaves is the    *)
(* order in which the owner and the children's completions arrive.         *)
(*                                                                         *)
(* A child is a command that obeys the contract of module Command; it may  *)
(* complete with a value, an error, or a successor command that takes its  *)
(* place.  An assertion that fails stops the program: fault names it, and  *)
(* nothing happens afterwards.                                             *)
(***************************************************************************)
EXTENDS Naturals, FiniteSets

CONSTANTS Child     \* the commands handed to operator|

VARIABLES acc,      \* what the accumulated task holds
          self,     \* the parallel_cmd, in the phases of module Command
          items,    \* the children held: lhs_cmd alone, then m_items
          phase,    \* per child: where it is, and how it ended
          joined,   \* the children handed over so far
          told,     \* answers given: start's result and calls of m_sink
          answer,   \* the last answer given
          fault     \* the assertion that stopped the program, or "none"

vars == <<acc, self, items, phase, joined, told, answer, fault>>

Ended == {"value", "error", "cancelled", "dismissed"}

TypeOK ==
  /\ acc \in {"value", "error", "empty", "command", "parallel", "moved"}
  /\ self \in {"unborn", "fresh", "pending", "gone"}
  /\ items \subseteq Child
  /\ joined \subseteq Child
  /\ phase \in [Child -> {"fresh", "pending"} \cup Ended]
  /\ told \in Nat
  /\ answer \in {"none", "value", "error"}
  /\ fault \in {"none", "empty_task_dismissed", "null_command_dismissed",
                "unstarted_command_cancelled"}

(* aw::task<void> t = aw::value(), the start of every accumulation. *)
Init ==
  /\ acc = "value"
  /\ self = "unborn"
  /\ items = {}
  /\ joined = {}
  /\ phase = [c \in Child |-> "fresh"]
  /\ told = 0
  /\ answer = "none"
  /\ fault = "none"

(* The children of S, moved to phase p. *)
Moved(S, p) == [c \in Child |-> IF c \in S THEN p ELSE phase[c]]

Running == fault = "none"

-----------------------------------------------------------------------------
(* Building: operator| and add_cmd.                                        *)

(* lhs was emptied by fetch_command before lhs.dismiss is called on it. *)
DismissEmptyTask ==
  /\ fault' = "empty_task_dismissed"
  /\ UNCHANGED <<acc, self, items, joined, told, answer>>

(* lhs | r when neither is a command: an error on the left stays, a value  *)
(* gives way to r.                                                         *)
OrResultOnResult(r) ==
  /\ Running
  /\ acc \in {"value", "error"}
  /\ acc' = IF acc = "value" THEN r ELSE acc
  /\ UNCHANGED <<self, items, phase, joined, told, answer, fault>>

(* command | value() returns std::move(lhs), which fetch_command has       *)
(* emptied; lhs_cmd goes out of scope and dismisses what it holds.         *)
OrValueOnCommand ==
  /\ Running
  /\ acc \in {"command", "parallel"}
  /\ acc' = "empty"
  /\ self' = IF acc = "parallel" THEN "gone" ELSE self
  /\ phase' = Moved(items, "dismissed")
  /\ items' = {}
  /\ UNCHANGED <<joined, told, answer, fault>>

(* command | error calls lhs.dismiss, and so does anything added with | to *)
(* the empty task that command | value() returned.                         *)
OrErrorOnCommand ==
  /\ Running
  /\ acc \in {"command", "parallel"}
  /\ DismissEmptyTask
  /\ UNCHANGED phase

OrOnEmpty ==
  /\ Running
  /\ acc = "empty"
  /\ DismissEmptyTask
  /\ UNCHANGED phase

(* The child handed over is one the owner has not used yet. *)
Unused(c) == c \notin joined /\ phase[c] = "fresh"

(* lhs | c when lhs is not a command: a value gives way to c, an error     *)
(* dismisses c and stays.                                                  *)
OrCommandOnResult(c) ==
  /\ Running
  /\ Unused(c)
  /\ acc \in {"value", "error"}
  /\ joined' = joined \cup {c}
  /\ IF acc = "value"
     THEN acc' = "command" /\ items' = {c} /\ UNCHANGED phase
     ELSE phase' = Moved({c}, "dismissed") /\ UNCHANGED <<acc, items>>
  /\ UNCHANGED <<self, told, answer, fault>>

(* lhs | c when both are commands: lhs is a parallel_cmd and adds c, or a  *)
(* new parallel_cmd is made of the two.                                    *)
OrCommandJoins(c) ==
  /\ Running
  /\ Unused(c)
  /\ acc \in {"command", "parallel"}
  /\ joined' = joined \cup {c}
  /\ items' = items \cup {c}
  /\ acc' = "parallel"
  /\ self' = "fresh"
  /\ UNCHANGED <<phase, told, answer, fault>>

(* emplace_back of c throws: c and everything held so far is dismissed and *)
(* the task is the bad_alloc.                                              *)
OrCommandNoRoom(c) ==
  /\ Running
  /\ Unused(c)
  /\ acc \in {"command", "parallel"}
  /\ joined' = joined \cup {c}
  /\ phase' = Moved(items \cup {c}, "dismissed")
  /\ items' = {}
  /\ acc' = "error"
  /\ self' = IF acc = "parallel" THEN "gone" ELSE self
  /\ UNCHANGED <<told, answer, fault>>

(* There is no memory for the parallel_cmd, or none for its first item:    *)
(* both paths dismiss a task that fetch_command has emptied.               *)
OrCommandNoParallel(c) ==
  /\ Running
  /\ Unused(c)
  /\ acc = "command"
  /\ \/ UNCHANGED phase
     \/ phase' = Moved(items, "dismissed")
  /\ DismissEmptyTask

-----------------------------------------------------------------------------
(* The parallel_cmd's command interface.                                   *)

(* start with no child failing: those that end at once are erased, and     *)
(* with nobody left the answer is value().                                 *)
Start ==
  /\ Running
  /\ acc = "parallel" /\ self = "fresh"
  /\ acc' = "moved"
  /\ \E waiting \in SUBSET items :
       /\ items' = waiting
       /\ phase' = [c \in Child |-> IF c \in waiting THEN "pending"
                                    ELSE IF c \in items THEN "value"
                                    ELSE phase[c]]
       /\ IF waiting = {}
          THEN self' = "gone" /\ told' = told + 1 /\ answer' = "value"
          ELSE self' = "pending" /\ UNCHANGED <<told, answer>>
  /\ UNCHANGED <<joined, fault>>

(* start when child c fails at once: those before it are cancelled or have *)
(* ended, those after it have not been started, and this->dismiss begins   *)
(* with the item of c, whose cmd is null.                                  *)
StartFails(c) ==
  /\ Running
  /\ acc = "parallel" /\ self = "fresh"
  /\ c \in items
  /\ \E before \in SUBSET (items \ {c}) : \E waiting \in SUBSET before :
       /\ phase' = [d \in Child |-> IF d \in waiting THEN "cancelled"
                                    ELSE IF d \in before THEN "value"
                                    ELSE IF d = c THEN "error"
                                    ELSE phase[d]]
       /\ items' = items \ before
  /\ fault' = "null_command_dismissed"
  /\ UNCHANGED <<acc, self, joined, told, answer>>

Dismiss ==
  /\ Running
  /\ acc = "parallel" /\ self = "fresh"
  /\ acc' = "moved"
  /\ self' = "gone"
  /\ phase' = Moved(items, "dismissed")
  /\ items' = {}
  /\ UNCHANGED <<joined, told, answer, fault>>

(* cancel on the children of held: it stops at one that was never started, *)
(* because every leaf asserts that it was.                                 *)
CancelHeld(held, ph) ==
  LET unstarted == {d \in held : ph[d] = "fresh"}
      Cancelled(S) == [d \in Child |-> IF d \in S THEN "cancelled" ELSE ph[d]]
  IN  IF unstarted = {}
      THEN /\ items' = {}
           /\ phase' = Cancelled(held)
           /\ UNCHANGED fault
      ELSE /\ \E before \in SUBSET (held \ unstarted) :
                /\ items' = held \ before
                /\ phase' = Cancelled(before)
           /\ fault' = "unstarted_command_cancelled"

(* Mutation: cancel also reports to the sink, as a result of its own kind. *)
CancelTellsSink ==
  /\ Running
  /\ self = "pending"
  /\ CancelHeld(items, phase)
  /\ self' = IF fault' = "none" THEN "gone" ELSE self
  /\ told' = told + 1
  /\ answer' = "cancelled"
  /\ UNCHANGED <<acc, joined>>

Cancel ==
  /\ Running
  /\ self = "pending"
  /\ CancelHeld(items, phase)
  /\ self' = IF fault' = "none" THEN "gone" ELSE self
  /\ UNCHANGED <<acc, joined, told, answer>>

-----------------------------------------------------------------------------
(* item::on_completion and complete_item.                                  *)

(* Mutants: the sink is told at every completion, at the first one, never. *)
CompleteValueTellsEach(c) ==
  /\ Running
  /\ phase[c] = "pending"
  /\ phase' = Moved({c}, "value")
  /\ items' = items \ {c}
  /\ self' = IF items' = {} THEN "gone" ELSE self
  /\ told' = told + 1
  /\ answer' = "value"
  /\ UNCHANGED <<acc, joined, fault>>

CompleteValueTellsFirst(c) ==
  /\ Running
  /\ phase[c] = "pending"
  /\ phase' = Moved({c}, "value")
  /\ items' = items \ {c}
  /\ self' = "gone"
  /\ told' = told + 1
  /\ answer' = "value"
  /\ UNCHANGED <<acc, joined, fault>>

CompleteValueTellsNobody(c) ==
  /\ Running
  /\ phase[c] = "pending"
  /\ phase' = Moved({c}, "value")
  /\ items' = items \ {c}
  /\ UNCHANGED <<acc, self, joined, told, answer, fault>>

(* c completed with a value: erase it, and answer when it was the last. *)
CompleteValue(c) ==
  /\ Running
  /\ phase[c] = "pending"
  /\ phase' = Moved({c}, "value")
  /\ items' = items \ {c}
  /\ IF items' = {}
     THEN self' = "gone" /\ told' = told + 1 /\ answer' = "value"
     ELSE UNCHANGED <<self, told, answer>>
  /\ UNCHANGED <<acc, joined, fault>>

(* Mutation: the siblings are left running. *)
CompleteErrorCancelsNone(c) ==
  /\ Running
  /\ phase[c] = "pending"
  /\ phase' = Moved({c}, "error")
  /\ items' = items \ {c}
  /\ self' = "gone"
  /\ told' = told + 1
  /\ answer' = "error"
  /\ UNCHANGED <<acc, joined, fault>>

(* c completed with an error: erase it, cancel the others, answer. *)
CompleteError(c) ==
  /\ Running
  /\ phase[c] = "pending"
  /\ CancelHeld(items \ {c}, Moved({c}, "error"))
  /\ IF fault' = "none"
     THEN self' = "gone" /\ told' = told + 1 /\ answer' = "error"
     ELSE UNCHANGED <<self, told, answer>>
  /\ UNCHANGED <<acc, joined>>

(* c completed with a command: cmd.complete(t) puts the successor in its   *)
(* place and nobody starts it.                                             *)
CompleteCommand(c) ==
  /\ Running
  /\ phase[c] = "pending"
  /\ phase' = Moved({c}, "fresh")
  /\ UNCHANGED <<acc, self, items, joined, told, answer, fault>>

Complete(c) == CompleteValue(c) \/ CompleteError(c) \/ CompleteCommand(c)

(* The program stopped at an assertion, or the parallel_cmd is gone. *)
Terminated == (~Running \/ self = "gone") /\ UNCHANGED vars

Next ==
  \/ \E r \in {"value", "error"} : OrResultOnResult(r)
  \/ OrValueOnCommand \/ OrErrorOnCommand \/ OrOnEmpty
  \/ \E c \in Child : \/ OrCommandOnResult(c) \/ OrCommandJoins(c)
                      \/ OrCommandNoRoom(c) \/ OrCommandNoParallel(c)
  \/ Start \/ Dismiss \/ Cancel
  \/ \E c \in Child : StartFails(c) \/ Complete(c)
  \/ Terminated

(* A command that was started completes unless it is cancelled first: the  *)
(* promise of a child.  Nothing obliges the owner to do anything.          *)
Fairness == \A c \in Child : WF_vars(Complete(c))

Spec == Init /\ [][Next]_vars /\ Fairness

-----------------------------------------------------------------------------
(* Safety.                                                                 *)

(* However the combined command ends (all succeeded, one failed, it was    *)
(* cancelled, dismissed, emptied by | value() or ran out of memory), every *)
(* child handed to it has ended, so no child can call back into the        *)
(* destroyed parallel_cmd; and while it is pending, the children it holds  *)
(* are exactly those that have not ended, and there is at least one.       *)
NoChildLeftBehind ==
  /\ self = "gone" => \A c \in joined : phase[c] \in Ended
  /\ self = "pending" /\ Running =>
       /\ items = {c \in joined : phase[c] \notin Ended}
       /\ items # {}

(* The answer sums up the children: value() only if every one succeeded,   *)
(* an error only if one failed and no other is still going.                *)
AnswerIsTheChildrens ==
  /\ answer = "value" => \A c \in joined : phase[c] = "value"
  /\ answer = "error" => /\ \E c \in joined : phase[c] = "error"
                         /\ \A c \in joined : phase[c] \in Ended

(* A child that has ended is never touched again: not cancelled after it   *)
(* completed, not dismissed after it was cancelled (complete_item erases   *)
(* the item before it cancels the siblings).                               *)
EndedStaysEnded ==
  [][\A c \in Child : phase[c] \in Ended => phase'[c] = phase[c]]_vars

(* A parallel_cmd is itself a command: it keeps the contract its children  *)
(* keep, so it can be a child of another combinator.                       *)
AsCommand == INSTANCE Command WITH phase <- self, told <- told

ImplementsCommand == AsCommand!Spec

-----------------------------------------------------------------------------
(* Liveness.                                                               *)

(* Once started, the parallel_cmd answers or is cancelled, unless a child  *)
(* completed with a command: that successor is never started, and the      *)
(* parallel_cmd waits for it for ever.                                     *)
EventuallyAnswers ==
  (self = "pending") ~>
    (self = "gone" \/ ~Running \/ \E c \in items : phase[c] = "fresh")

-----------------------------------------------------------------------------
(* What the repository's assertions and tests say and the code refutes.    *)

(* "chk !t.empty()", src/test/parallel_test.cpp:19: a task accumulated     *)
(* with |= is never empty, so it can be run.                               *)
AccumulatorNotEmpty == acc # "empty"

(* "assert(m_ptr != nullptr)", src/src/command_ptr_impl.h:93.              *)
NullNeverDismissed == fault # "null_command_dismissed"

(* "assert(false)" in postpone's cancel, src/src/task.cpp:24, and in       *)
(* remove_fd, src/src/linux_run.cpp:66: a command that was not started is  *)
(* never cancelled.                                                        *)
OnlyStartedCancelled == fault # "unstarted_command_cancelled"

=============================================================================

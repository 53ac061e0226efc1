-------------------------------- MODULE Task --------------------------------
(***************************************************************************)
(* The variants result<T> and task<T> (src/src/result_impl.h,              *)
(* src/src/task_impl.h) over the untyped storage of                        *)
(* src/src/variant_storage.h: an index that says which alternative is      *)
(* there, and bytes in which objects are built and destroyed by hand.  A   *)
(* constructor of T may throw, in which case the exception takes its       *)
(* place.  A task owns its command: whoever drops the task cancels it.     *)
(***************************************************************************)
EXTENDS Naturals, FiniteSets

CONSTANTS Task,    \* variables of type task<T>
          Result,  \* variables of type result<T>
          Temp,    \* the result that clear() discards
          Cmd      \* commands

Slot == Task \cup Result \cup {Temp}
Alternative == {"value", "error_code", "exception"}
Kind == Alternative \cup {"nulltask", "command"}

(* A T, as it was made or with its content moved out. *)
Live == {"value", "moved"}
NotCommands == Live \cup {"none", "error_code", "exception", "null_exception",
                          "nulltask"}
Objects == NotCommands \cup Cmd

ASSUME SlotAssumption == /\ Task \cap Result = {}
                         /\ Temp \notin Task \cup Result
                         /\ Cmd \cap NotCommands = {}

VARIABLES m,     \* the memory: index_ and storage_ per variable, the number
                 \* of T constructed and not destroyed, cancels per command
          made,  \* commands that a task was constructed of (history)
          fault  \* "read_destroyed" when a destroyed object has been read

vars == <<m, made, fault>>

TypeOK ==
  /\ m.index \in [Slot -> Kind \cup {"out"}]
  /\ \A r \in Result : m.index[r] \in Alternative \cup {"out"}
  /\ m.index[Temp] = "out"
  /\ m.object \in [Slot -> Objects]
  /\ m.count \in Nat
  /\ m.cancels \in [Cmd -> Nat]
  /\ made \subseteq Cmd
  /\ fault \in {"none", "read_destroyed"}

Init ==
  /\ m = [index |-> [s \in Slot |-> "out"], object |-> [s \in Slot |-> "none"],
          count |-> 0, cancels |-> [c \in Cmd |-> 0]]
  /\ made = {}
  /\ fault = "none"

-----------------------------------------------------------------------------
(* variant_storage.h: what each helper does to the memory.                 *)

(* Mutant: index_ is left as it was when the constructor threw. *)
ConstructedKeepsIndex(mem, s, k, x, throws) ==
  IF k = "value" /\ throws
  THEN [mem EXCEPT !.index[s] = k, !.object[s] = "exception"]
  ELSE [mem EXCEPT !.index[s] = k, !.object[s] = x,
                   !.count = IF k = "value" THEN @ + 1 ELSE @]

(* The constructor of alternative k, or the exception that T's threw. *)
Constructed(mem, s, k, x, throws) ==
  IF k = "value" /\ throws
  THEN [mem EXCEPT !.index[s] = "exception", !.object[s] = "exception"]
  ELSE [mem EXCEPT !.index[s] = k, !.object[s] = x,
                   !.count = IF k = "value" THEN @ + 1 ELSE @]

(* The destructor of the alternative that the index names. *)
Destroyed(mem, s) ==
  [mem EXCEPT !.object[s] = "none",
              !.count = IF mem.index[s] = "value" THEN @ - 1 ELSE @]

(* What is left of an object that has been moved from. *)
Moved(x) == CASE x = "value" -> "moved"
              [] x = "exception" -> "null_exception"
              [] OTHER -> x

(* index_ is copied, then move_construct_member builds s from what t has. *)
MoveConstructed(mem, s, t, throws) ==
  [Constructed(mem, s, mem.index[t], mem.object[t], throws)
     EXCEPT !.object[t] = Moved(@)]

CopyConstructed(mem, s, t, throws) ==
  Constructed(mem, s, mem.index[t], mem.object[t], throws)

Nulled(mem, t) == [mem EXCEPT !.index[t] = "nulltask", !.object[t] = "nulltask"]

Ended(mem, s) == [Destroyed(mem, s) EXCEPT !.index[s] = "out"]

-----------------------------------------------------------------------------
(* task_impl.h.                                                            *)

(* task_dismisser: the result is built of the alternative in t, or of what *)
(* the command's cancel returns, and t becomes a nulltask.                 *)
Dismissed(mem, t, s, k, throws) ==
  IF mem.index[t] = "command"
  THEN Nulled([Constructed(mem, s, k, k, FALSE)
                 EXCEPT !.cancels[mem.object[t]] = @ + 1], t)
  ELSE Nulled(Destroyed(MoveConstructed(mem, s, t, throws), t), t)

(* clear: a task that is not empty is dismissed and the result discarded. *)
Cleared(mem, t, k, throws) ==
  IF mem.index[t] = "nulltask" THEN mem
  ELSE Ended(Dismissed(mem, t, Temp, k, throws), Temp)

(* Mutant: the source is not destroyed. *)
TaskMovedKeepsSource(mem, s, t, throws) ==
  Nulled(MoveConstructed(mem, s, t, throws), t)

(* The move constructor, which leaves a nulltask behind. *)
TaskMoved(mem, s, t, throws) ==
  Nulled(Destroyed(MoveConstructed(mem, s, t, throws), t), t)

Alive(s) == fault = "none" /\ m.index[s] # "out"
Out(s) == fault = "none" /\ m.index[s] = "out"

TaskConstruct(t, throws) ==
  /\ Out(t)
  /\ \/ \E k \in Alternative \cup {"nulltask"} :
          m' = Constructed(m, t, k, k, throws) /\ UNCHANGED made
     \/ \E c \in Cmd \ made :
          m' = Constructed(m, t, "command", c, throws) /\ made' = made \cup {c}
  /\ UNCHANGED fault

TaskMoveConstruct(s, t, throws) ==
  /\ Out(s) /\ Alive(t)
  /\ m' = TaskMoved(m, s, t, throws)
  /\ UNCHANGED <<made, fault>>

(* Mutant: what the task has is overwritten. *)
TaskMoveAssignOverwrites(s, t, k, throws) ==
  /\ Alive(s) /\ Alive(t)
  /\ m' = TaskMoved(m, s, t, throws)
  /\ UNCHANGED <<made, fault>>

(* operator=: s is cleared first, so a task moved to itself ends up empty. *)
TaskMoveAssign(s, t, k, throws) ==
  /\ Alive(s) /\ Alive(t)
  /\ m' = TaskMoved(Cleared(m, s, k, throws), s, t, throws)
  /\ UNCHANGED <<made, fault>>

TaskClear(t, k, throws) ==
  /\ Alive(t)
  /\ m' = Cleared(m, t, k, throws)
  /\ UNCHANGED <<made, fault>>

TaskDestroy(t, k, throws) ==
  /\ Alive(t)
  /\ m' = Ended(Cleared(m, t, k, throws), t)
  /\ UNCHANGED <<made, fault>>

TaskDismiss(t, r, k, throws) ==
  /\ Alive(t) /\ m.index[t] # "nulltask"
  /\ Out(r)
  /\ m' = Dismissed(m, t, r, k, throws)
  /\ UNCHANGED <<made, fault>>

-----------------------------------------------------------------------------
(* result_impl.h.                                                          *)

ResultConstruct(r, k, throws) ==
  /\ Out(r)
  /\ m' = Constructed(m, r, k, k, throws)
  /\ UNCHANGED <<made, fault>>

ResultCopyConstruct(r, q, throws) ==
  /\ Out(r) /\ Alive(q)
  /\ m' = CopyConstructed(m, r, q, throws)
  /\ UNCHANGED <<made, fault>>

(* Unlike a task, the source keeps its alternative, moved from. *)
ResultMoveConstruct(r, q, throws) ==
  /\ Out(r) /\ Alive(q)
  /\ m' = MoveConstructed(m, r, q, throws)
  /\ UNCHANGED <<made, fault>>

(* Both assignments destroy what r has before they look at q.  There is no *)
(* test for r = q, where the object then read has just been destroyed.     *)
ResultCopyAssign(r, q, throws) ==
  /\ Alive(r) /\ Alive(q)
  /\ IF r = q
     THEN fault' = "read_destroyed" /\ UNCHANGED <<m, made>>
     ELSE /\ m' = CopyConstructed(Destroyed(m, r), r, q, throws)
          /\ UNCHANGED <<made, fault>>

ResultMoveAssign(r, q, throws) ==
  /\ Alive(r) /\ Alive(q)
  /\ IF r = q
     THEN fault' = "read_destroyed" /\ UNCHANGED <<m, made>>
     ELSE /\ m' = MoveConstructed(Destroyed(m, r), r, q, throws)
          /\ UNCHANGED <<made, fault>>

ResultDestroy(r) ==
  /\ Alive(r)
  /\ m' = Ended(m, r)
  /\ UNCHANGED <<made, fault>>

(* The program reads a destroyed object: what follows is not modelled. *)
Terminated == fault # "none" /\ UNCHANGED vars

Next ==
  \/ Terminated
  \/ \E throws \in BOOLEAN :
    \/ \E t \in Task :
         \/ TaskConstruct(t, throws)
         \/ \E s \in Task : TaskMoveConstruct(s, t, throws)
         \/ \E k \in Alternative :
              \/ \E s \in Task : TaskMoveAssign(s, t, k, throws)
              \/ TaskClear(t, k, throws)
              \/ TaskDestroy(t, k, throws)
              \/ \E r \in Result : TaskDismiss(t, r, k, throws)
    \/ \E r \in Result :
         \/ \E k \in Alternative : ResultConstruct(r, k, throws)
         \/ \E q \in Result : \/ ResultCopyConstruct(r, q, throws)
                              \/ ResultMoveConstruct(r, q, throws)
                              \/ ResultCopyAssign(r, q, throws)
                              \/ ResultMoveAssign(r, q, throws)
         \/ ResultDestroy(r)

Spec == Init /\ [][Next]_vars

-----------------------------------------------------------------------------
(* Safety.                                                                 *)

KindOf(x) == CASE x \in Live -> "value"
               [] x \in {"exception", "null_exception"} -> "exception"
               [] x \in Cmd -> "command"
               [] x = "none" -> "out"
               [] OTHER -> x

(* The index names the object that is in the storage, whatever constructor *)
(* threw on the way there, and a task that was moved from or dismissed is  *)
(* empty: none holds an object whose content is gone, or passes one on.    *)
IndexNamesObject ==
  /\ TypeOK
  /\ \A s \in Slot : KindOf(m.object[s]) = m.index[s]
  /\ \A t \in Task : m.object[t] \notin {"moved", "null_exception"}

(* Every T constructed is destroyed exactly once: those alive are the ones *)
(* in a variable.                                                          *)
EveryObjectIsHeld == m.count = Cardinality({s \in Slot : m.object[s] \in Live})

(* A command is owned by one task until it is cancelled, once, and by none *)
(* afterwards: no assignment or failed move duplicates or drops it         *)
(* (src/test/task_test.cpp:143, "aw::task dismisses content during         *)
(* destruction").                                                          *)
OneOwnerPerCommand ==
  \A c \in Cmd :
    /\ Cardinality({s \in Slot : m.object[s] = c}) + m.cancels[c] =
         IF c \in made THEN 1 ELSE 0
    /\ \A s \in Slot \ Task : m.object[s] # c

=============================================================================

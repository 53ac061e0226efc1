------------------------------ MODULE LinuxRun ------------------------------
(***************************************************************************)
(* The Linux scheduler: try_run_impl of src/src/linux_run.cpp with the     *)
(* leaf commands that register with it, the poll of src/src/               *)
(* linux_fd_task.cpp, the timer of src/src/linux_timer.cpp and the         *)
(* poll_op of src/src/linux_tcp.cpp.                                       *)
(*                                                                         *)
(* The task being run is any program over the leaves that keeps the        *)
(* contract of module Command towards each of them: it starts, cancels and *)
(* dismisses leaves while one of its handlers is on the stack, it returns  *)
(* to the scheduler without an answer only while it waits for a leaf, and  *)
(* it completes only when it holds no started leaf (what module Parallel   *)
(* shows as NoChildLeftBehind).  The kernel's interest list is indexed by  *)
(* descriptor, as in epoll: adding a descriptor that is there fails,       *)
(* deleting one removes whatever is registered for it, and so does closing *)
(* it, after which its number may be that of another stream.  Any other    *)
(* adding may be refused too, and nobody looks at the result.              *)
(***************************************************************************)
EXTENDS Naturals

CONSTANTS Leaf,      \* leaf commands, each used for one start at most
          PollOp,    \* the leaves that go back to waiting on EAGAIN
          Timer,     \* the leaves made by wait_ms
          Fd,        \* file descriptors
          FdOf,      \* the descriptor a leaf waits for
          Addr,      \* addresses an epoll_item may have
          Null,      \* no item
          MaxAgain   \* bound: how often a poll_op finds nothing to read

ASSUME LeafAssumption == /\ PollOp \subseteq Leaf
                         /\ Timer \subseteq Leaf \ PollOp
                         /\ FdOf \in [Leaf -> Fd]
ASSUME NullAssumption == Null \notin Addr \cup Leaf
ASSUME BoundAssumption == MaxAgain \in Nat

VARIABLES ctl,       \* where try_run_impl is
          updated,   \* m_updated
          items,     \* the epoll_items that exist, all of them in m_items
          interest,  \* the kernel's interest list: data.ptr per descriptor
          ready,     \* descriptors the kernel holds ready
          phase,     \* per leaf, the phases of module Command
          told,      \* per leaf, the answers it has given
          disarmed,  \* the timers that never expire
          again,     \* how often a poll_op went back to waiting
          refused,   \* leaves whose EPOLL_CTL_ADD has failed (history)
          closed,    \* descriptors whose stream was destroyed (history)
          fault      \* what stopped the program, or "none"

vars == <<ctl, updated, items, interest, ready, phase, told,
          disarmed, again, refused, closed, fault>>
ctlVars == <<ctl, updated>>
epollVars == <<items, interest, ready, refused, closed>>
leafVars == <<phase, told, disarmed, again>>

Item == [fd : Fd, sink : Leaf]
NoItem == [fd |-> Null, sink |-> Null]      \* a deleted epoll_item

TypeOK ==
  /\ ctl \in {"start", "wait", "callback", "returned"}
  /\ updated \in BOOLEAN
  /\ items \in [Addr -> Item \cup {NoItem}]
  /\ interest \in [Fd -> Addr \cup {Null}]
  /\ ready \subseteq Fd
  /\ phase \in [Leaf -> {"unborn", "fresh", "pending", "gone"}]
  /\ told \in [Leaf -> Nat]
  /\ disarmed \subseteq Timer
  /\ again \in 0..MaxAgain
  /\ refused \subseteq Leaf
  /\ closed \subseteq Fd
  /\ fault \in {"none", "remove_fd", "interrupted", "no_memory"}

Init ==
  /\ ctl = "start"
  /\ updated = FALSE
  /\ items = [a \in Addr |-> NoItem]
  /\ interest = [f \in Fd |-> Null]
  /\ ready = {}
  /\ phase = [l \in Leaf |-> "unborn"]
  /\ told = [l \in Leaf |-> 0]
  /\ disarmed = {}
  /\ again = 0
  /\ refused = {} /\ closed = {}
  /\ fault = "none"

Running == fault = "none"
Pending == {l \in Leaf : phase[l] = "pending"}
ItemOf(l) == [fd |-> FdOf[l], sink |-> l]

(* A handler of the task is on the stack, and the task has not completed. *)
InProgram == Running /\ (ctl = "start" \/ (ctl = "callback" /\ ~updated))

-----------------------------------------------------------------------------
(* add_fd and remove_fd.                                                   *)

(* Mutation: add_fd makes the item and forgets EPOLL_CTL_ADD. *)
AddFdUnregistered(l, held, registered) ==
  \E a \in Addr :
    /\ held[a] = NoItem
    /\ items' = [held EXCEPT ![a] = ItemOf(l)]
    /\ interest' = registered
    /\ UNCHANGED refused

(* add_fd for leaf l, given the lists as its caller finds them: the item   *)
(* joins m_items whether or not EPOLL_CTL_ADD succeeded.  It is refused    *)
(* for a descriptor that is in the interest list (EEXIST), and may be for  *)
(* any other: it is closed, or -1 since nobody looks at what timerfd_create*)
(* returns (EBADF), or the kernel is out of memory or watches (ENOMEM,     *)
(* ENOSPC).                                                                *)
AddFd(l, held, registered) ==
  \E a \in Addr :
    /\ held[a] = NoItem
    /\ items' = [held EXCEPT ![a] = ItemOf(l)]
    /\ \/ /\ registered[FdOf[l]] = Null
          /\ interest' = [registered EXCEPT ![FdOf[l]] = a]
          /\ UNCHANGED refused
       \/ /\ interest' = registered
          /\ refused' = refused \cup {l}

(* Mutation: remove_fd leaves the item in m_items. *)
RemoveFdKeepsItem(l) ==
  /\ interest' = [interest EXCEPT ![FdOf[l]] = Null]
  /\ UNCHANGED <<items, fault>>

(* remove_fd for leaf l: the first item with its descriptor and sink is    *)
(* deleted and the descriptor leaves the interest list; none is an         *)
(* assertion failure.                                                      *)
RemoveFd(l) ==
  \/ \E a \in Addr :
       /\ items[a] = ItemOf(l)
       /\ items' = [items EXCEPT ![a] = NoItem]
       /\ interest' = [interest EXCEPT ![FdOf[l]] = Null]
       /\ UNCHANGED fault
  \/ /\ \A a \in Addr : items[a] # ItemOf(l)
     /\ fault' = "remove_fd"
     /\ UNCHANGED <<items, interest>>

-----------------------------------------------------------------------------
(* What the task does with its leaves.                                     *)

(* timerfd_settime disarms a timer of zero, and refuses a negative one,    *)
(* which nobody looks at: neither ever expires.                            *)
LeafMake(l) ==
  /\ InProgram
  /\ phase[l] = "unborn"
  /\ phase' = [phase EXCEPT ![l] = "fresh"]
  /\ disarmed' \in {disarmed, disarmed \cup ({l} \cap Timer)}
  /\ UNCHANGED <<ctlVars, epollVars, told, again, fault>>

LeafStart(l) ==
  /\ InProgram
  /\ phase[l] = "fresh"
  /\ phase' = [phase EXCEPT ![l] = "pending"]
  /\ AddFd(l, items, interest)
  /\ UNCHANGED <<ctlVars, ready, told, disarmed, again, closed, fault>>

(* There is no memory for an epoll_item: start answers with the error, the *)
(* poll's and the timer's, which may throw; that of a poll_op is noexcept, *)
(* and its callback lets the exception out of try_run_impl.                *)
LeafStartFails(l) ==
  /\ InProgram
  /\ phase[l] = "fresh" /\ l \notin PollOp
  /\ phase' = [phase EXCEPT ![l] = "gone"]
  /\ told' = [told EXCEPT ![l] = @ + 1]
  /\ UNCHANGED <<ctlVars, epollVars, disarmed, again, fault>>

LeafCancel(l) ==
  /\ InProgram
  /\ phase[l] = "pending"
  /\ RemoveFd(l)
  /\ phase' = [phase EXCEPT ![l] = "gone"]
  /\ UNCHANGED <<ctlVars, ready, told, disarmed, again, refused, closed>>

LeafDismiss(l) ==
  /\ InProgram
  /\ phase[l] = "fresh"
  /\ phase' = [phase EXCEPT ![l] = "gone"]
  /\ UNCHANGED <<ctlVars, epollVars, told, disarmed, again, fault>>

(* The last pointer to a tcp_stream goes, which closes its descriptor also *)
(* under a read or a write that waits: the kernel forgets it.  Bound: once *)
(* for each descriptor.                                                    *)
CloseFd(f) ==
  /\ InProgram
  /\ f \notin closed /\ \E l \in PollOp : FdOf[l] = f
  /\ closed' = closed \cup {f}
  /\ interest' = [interest EXCEPT ![f] = Null]
  /\ ready' = ready \ {f}
  /\ UNCHANGED <<ctlVars, items, refused, leafVars, fault>>

(* Mutation: on_completion keeps the result and does not set m_updated. *)
RootCompleteUnnoticed ==
  /\ InProgram
  /\ ctl = "callback"
  /\ Pending = {}
  /\ UNCHANGED vars

(* The task's own answer reaches fake_scheduler::on_completion. *)
RootComplete ==
  /\ InProgram
  /\ ctl = "callback"
  /\ Pending = {}
  /\ updated' = TRUE
  /\ UNCHANGED <<ctl, epollVars, leafVars, fault>>

-----------------------------------------------------------------------------
(* The loop of try_run_impl.                                               *)

(* Mutation: m_updated is not reset before the inner loop. *)
StartWaitsNoReset ==
  /\ Running
  /\ ctl = "start"
  /\ Pending # {}
  /\ ctl' = "wait"
  /\ UNCHANGED <<updated, epollVars, leafVars, fault>>

(* start_command returned true: something is pending. *)
StartWaits ==
  /\ Running
  /\ ctl = "start"
  /\ Pending # {}
  /\ ctl' = "wait"
  /\ updated' = FALSE
  /\ UNCHANGED <<epollVars, leafVars, fault>>

(* start_command returned false: the task holds its result. *)
StartReturns ==
  /\ Running
  /\ ctl = "start"
  /\ Pending = {}
  /\ ctl' = "returned"
  /\ UNCHANGED <<updated, epollVars, leafVars, fault>>

(* Mutations: the item is emptied and not deleted; the EPOLL_CTL_DEL of    *)
(* the loop is left out.                                                   *)
ItemsKept(f) == [items EXCEPT ![interest[f]].sink = Null]
InterestKept(f) == interest

(* epoll_wait reports f: its item leaves both lists and is deleted.  The   *)
(* interest list and the items as the callback then finds them.            *)
Reported(f) == /\ Running
               /\ ctl = "wait" /\ ~updated
               /\ f \in ready
               /\ interest[f] # Null
SinkOf(f) == items[interest[f]].sink
ItemsWithout(f) == [items EXCEPT ![interest[f]] = NoItem]
InterestWithout(f) == [interest EXCEPT ![items[interest[f]].fd] = Null]

(* Mutation: the leaf answers and stays started. *)
DispatchAnswerStays(f) ==
  /\ Reported(f)
  /\ items' = ItemsWithout(f)
  /\ interest' = InterestWithout(f)
  /\ told' = [told EXCEPT ![SinkOf(f)] = @ + 1]
  /\ ready' \in {ready, ready \ {f}}
  /\ ctl' = "callback"
  /\ UNCHANGED <<updated, phase, disarmed, again, refused, closed, fault>>

(* The leaf answers, and the callbacks of the task run from there. *)
DispatchAnswer(f) ==
  /\ Reported(f)
  /\ items' = ItemsWithout(f)
  /\ interest' = InterestWithout(f)
  /\ phase' = [phase EXCEPT ![SinkOf(f)] = "gone"]
  /\ told' = [told EXCEPT ![SinkOf(f)] = @ + 1]
  /\ ready' \in {ready, ready \ {f}}
  /\ ctl' = "callback"
  /\ UNCHANGED <<updated, disarmed, again, refused, closed, fault>>

(* Mutation: a poll_op that met EAGAIN does not call add_fd again. *)
DispatchAgainForgets(f) ==
  /\ Reported(f)
  /\ SinkOf(f) \in PollOp
  /\ again < MaxAgain
  /\ again' = again + 1
  /\ items' = ItemsWithout(f)
  /\ interest' = InterestWithout(f)
  /\ ready' = ready \ {f}
  /\ UNCHANGED <<ctlVars, phase, told, disarmed, refused, closed, fault>>

(* The operation of a poll_op says EAGAIN: it waits for f once more. *)
DispatchAgain(f) ==
  /\ Reported(f)
  /\ SinkOf(f) \in PollOp
  /\ again < MaxAgain
  /\ again' = again + 1
  /\ AddFd(SinkOf(f), ItemsWithout(f), InterestWithout(f))
  /\ ready' = ready \ {f}
  /\ UNCHANGED <<ctlVars, phase, told, disarmed, closed, fault>>

(* The item of a poll_op cannot be allocated, in start or for another wait. *)
NoMemory ==
  /\ \/ InProgram /\ \E l \in PollOp : phase[l] = "fresh"
     \/ again < MaxAgain /\ \E f \in Fd : Reported(f) /\ SinkOf(f) \in PollOp
  /\ fault' = "no_memory"
  /\ UNCHANGED <<ctlVars, epollVars, leafVars>>

(* The callback returned to the loop. *)
CallbackReturns ==
  /\ Running
  /\ ctl = "callback"
  /\ updated \/ Pending # {}
  /\ ctl' = "wait"
  /\ UNCHANGED <<updated, epollVars, leafVars, fault>>

(* while (!m_updated) ends: start_command is called on the new task. *)
LoopAgain ==
  /\ Running
  /\ ctl = "wait" /\ updated
  /\ ctl' = "start"
  /\ UNCHANGED <<updated, epollVars, leafVars, fault>>

-----------------------------------------------------------------------------
(* The kernel.                                                             *)

BecomeReady(f) ==
  /\ Running
  /\ ctl # "returned"
  /\ f \notin ready
  /\ \A l \in disarmed : FdOf[l] # f
  /\ ready' = ready \cup {f}
  /\ UNCHANGED <<ctlVars, items, interest, refused, closed, leafVars, fault>>

(* A signal: epoll_wait fails and ee.data.ptr is read uninitialized. *)
Interrupted ==
  /\ Running
  /\ ctl = "wait" /\ ~updated
  /\ fault' = "interrupted"
  /\ UNCHANGED <<ctlVars, epollVars, leafVars>>

(* try_run_impl returned, or the program stopped. *)
Terminated == (~Running \/ ctl = "returned") /\ UNCHANGED vars

Next ==
  \/ \E l \in Leaf : LeafMake(l) \/ LeafStart(l) \/ LeafStartFails(l)
                     \/ LeafCancel(l) \/ LeafDismiss(l)
  \/ RootComplete
  \/ StartWaits \/ StartReturns \/ CallbackReturns \/ LoopAgain
  \/ \E f \in Fd : DispatchAnswer(f) \/ DispatchAgain(f) \/ BecomeReady(f)
                   \/ CloseFd(f)
  \/ Interrupted \/ NoMemory
  \/ Terminated

(* The task does not sit on a handler for ever, the loop goes round, the   *)
(* kernel finds every descriptor ready again, but that of a timer that was *)
(* not armed, and reports it.                                              *)
Fairness ==
  /\ WF_vars(StartWaits \/ StartReturns)
  /\ WF_vars(CallbackReturns \/ RootComplete)
  /\ WF_vars(LoopAgain)
  /\ WF_vars(\E f \in Fd : DispatchAnswer(f) \/ DispatchAgain(f))
  /\ \A f \in Fd : WF_vars(BecomeReady(f))

Spec == Init /\ [][Next]_vars /\ Fairness

-----------------------------------------------------------------------------
(* Safety.                                                                 *)

Registered(l) == /\ interest[FdOf[l]] # Null
                 /\ items[interest[FdOf[l]]] = ItemOf(l)

(* The pointer epoll hands back is that of an epoll_item that still        *)
(* exists, made for that descriptor, and its sink is a leaf that is still  *)
(* waiting: the callback of line 101 never runs on a deleted command.      *)
NoDanglingRegistration ==
  \A f \in Fd : interest[f] # Null =>
    \E l \in Pending : FdOf[l] = f /\ items[interest[f]] = ItemOf(l)

(* m_items holds one item for each started leaf that has not ended and     *)
(* none for any other, so nothing leaks and remove_fd takes the right one. *)
OneItemPerPendingLeaf ==
  /\ \A l \in Pending : \E a \in Addr :
       /\ items[a] = ItemOf(l)
       /\ \A b \in Addr : items[b].sink = l => b = a
  /\ \A a \in Addr : items[a] # NoItem =>
       \E l \in Pending : items[a] = ItemOf(l)

(* A started leaf stays registered through wakeups, EAGAIN, the            *)
(* cancellation of other leaves and the reuse of an epoll_item's address.  *)
(* The kernel delivers its wakeup no longer only when its own              *)
(* EPOLL_CTL_ADD was refused, when a leaf whose adding was refused on the  *)
(* same descriptor has been cancelled, which takes down a registration     *)
(* that is not its own, or when the stream has been destroyed.             *)
LostOnlyIfRefusedOrClosed ==
  \A l \in Pending : \/ Registered(l)
                     \/ l \in refused
                     \/ \E m \in refused \ Pending : FdOf[m] = FdOf[l]
                     \/ FdOf[l] \in closed

(* A task that cancels only the leaves it started never meets the          *)
(* assert(false) of remove_fd, not even for a leaf whose wakeup was lost.  *)
RemoveFdFindsItem == fault # "remove_fd"

(* start_command is called again only on a task whose last command is done *)
(* with: m_updated is reset before the loop that waits on it.              *)
RestartOnlyWhenComplete ==
  [][ctl = "wait" /\ ctl' = "start" => Pending = {}]_vars

(* Each leaf keeps the contract of module Command under this scheduler:    *)
(* it answers once, and never after it was cancelled.                      *)
LeafCommand(l) == INSTANCE Command WITH phase <- phase[l], told <- told[l]

LeavesImplementCommand ==
  /\ \A l \in Leaf : LeafCommand(l)!Init
  /\ [][\A l \in Leaf : LeafCommand(l)!Next \/ UNCHANGED <<phase[l], told[l]>>
       ]_<<phase, told>>

-----------------------------------------------------------------------------
(* Liveness.                                                               *)

(* try_run returns for every task that is finite, unless a signal arrives, *)
(* memory runs out or it ends up waiting for ever for a leaf that lost its *)
(* registration or for a timer that was never armed.                       *)
TryRunReturns ==
  \/ <>(ctl = "returned" \/ ~Running)
  \/ <>[](\E l \in Pending : ~Registered(l) \/ l \in disarmed)

=============================================================================

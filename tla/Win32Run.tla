------------------------------ MODULE Win32Run ------------------------------
(***************************************************************************)
(* The Windows scheduler: try_run_impl of src/src/win32_run.cpp with the   *)
(* leaf commands that register with it: sock_read_command and              *)
(* sock_write_command (sleepers, woken by an I/O completion routine),      *)
(* connect_impl and win32_wait_handle of src/src/win32_tcp.cpp and the     *)
(* timer of src/src/win32_timer.cpp (handles).                             *)
(*                                                                         *)
(* A completion routine runs only inside an alertable wait: the one of the *)
(* loop, or the one in wait_for_sleeper, where a sleeper being cancelled   *)
(* waits for its own routine while a callback of the loop is on the stack. *)
(* The lists are sets here: module IntrusiveList has their order, and that *)
(* a walk visits what was on the list when it began and nothing pushed     *)
(* since.                                                                  *)
(***************************************************************************)
EXTENDS Naturals, Sequences

CONSTANTS Sleeper,   \* socket reads and writes, each started at most once
          Waiter,    \* commands that wait for a handle
          Connect,   \* the waiters that are a connect_impl
          Limit,     \* how many handles add_handle accepts (63)
          MaxAgain,  \* bound: wakeups of a connect_impl without FD_CONNECT
          Null

ASSUME LeafAssumption == /\ Sleeper \cap Waiter = {}
                         /\ Connect \subseteq Waiter
                         /\ Null \notin Sleeper \cup Waiter
ASSUME BoundAssumption == Limit \in Nat /\ MaxAgain \in Nat

Leaf == Sleeper \cup Waiter

VARIABLES ctl,       \* where try_run_impl is
          updated,   \* m_updated
          phase,     \* per leaf, the phases of module Command
          told,      \* per leaf, the answers it has given
          io,        \* per sleeper, its overlapped operation
          sleepers,  \* the leaves with a node on m_sleepers
          woken,     \* the leaves with a node on m_woken_sleepers
          ahead,     \* those of them the walk under way has still to visit
          current,   \* the sleeper whose callback is on the stack, or Null
          waitfor,   \* the sleeper whose cancel is in wait_for_sleeper, or Null
          handles,   \* m_handles and m_sinks, as a sequence of leaves
          signalled, \* the waiters whose handle is signalled
          again,     \* wakeups of a connect_impl without FD_CONNECT
          failing,   \* the connect_impl whose WSAEnumNetworkEvents failed,
                     \* whose on_completion is on the stack, or Null
          cancelled, \* sleepers that were cancelled (history)
          missed,    \* sleepers woken where no walk was to follow (history)
          fault      \* what stopped the program, or "none"

vars == <<ctl, updated, phase, told, io, sleepers, woken, ahead, current,
          waitfor, handles, signalled, again, failing, cancelled, missed,
          fault>>
loopVars == <<ctl, updated, ahead, current>>
leafVars == <<phase, told>>
nodeVars == <<sleepers, woken, missed>>
handleVars == <<handles, signalled, again, failing>>

TypeOK ==
  /\ ctl \in {"start", "wait", "handle", "walk", "sleeper", "returned"}
  /\ updated \in BOOLEAN
  /\ phase \in [Leaf -> {"unborn", "fresh", "pending", "gone"}]
  /\ told \in [Leaf -> Nat]
  /\ io \in [Sleeper -> {"idle", "issued", "queued", "done"}]
  /\ sleepers \subseteq Sleeper
  /\ woken \subseteq Sleeper
  /\ ahead \subseteq woken
  /\ current \in woken \cup {Null}
  /\ waitfor \in Sleeper \cup {Null}
  /\ handles \in Seq(Waiter)
  /\ signalled \subseteq Waiter
  /\ again \in 0..MaxAgain
  /\ failing \in Connect \cup {Null}
  /\ cancelled \subseteq Sleeper
  /\ missed \subseteq Sleeper
  /\ fault \in {"none", "remove_handle", "freed_overlapped", "freed_sink",
                "answered_twice", "freed_handle"}

Init ==
  /\ ctl = "start"
  /\ updated = FALSE
  /\ phase = [l \in Leaf |-> "unborn"]
  /\ told = [l \in Leaf |-> 0]
  /\ io = [l \in Sleeper |-> "idle"]
  /\ sleepers = {} /\ woken = {} /\ ahead = {}
  /\ current = Null /\ waitfor = Null
  /\ handles = <<>>
  /\ signalled = {}
  /\ again = 0 /\ failing = Null
  /\ cancelled = {} /\ missed = {}
  /\ fault = "none"

Running == fault = "none"
Pending == {l \in Leaf : phase[l] = "pending"}

(* A handler of the task is on the stack, is not inside a cancellation,    *)
(* and the task has not completed.                                         *)
InProgram == /\ Running
             /\ waitfor = Null
             /\ \/ ctl = "start"
                \/ ctl \in {"handle", "sleeper"} /\ ~updated

(* Leaf l ends in phase "gone" with an answer. *)
Answers(l) == /\ phase' = [phase EXCEPT ![l] = "gone"]
              /\ told' = [told EXCEPT ![l] = @ + 1]

(* Mutant: the count goes down, the last entry is not swapped in. *)
DropLast(s, i) == [j \in 1..Len(s) - 1 |-> s[j]]

(* std::swap with the last entry and --m_handle_count. *)
SwapRemove(s, i) ==
  [j \in 1..Len(s) - 1 |-> IF j = i THEN s[Len(s)] ELSE s[j]]

(* An alertable wait runs every queued completion routine: each records    *)
(* the outcome and wakes its node.  One whose command has been deleted     *)
(* writes to freed memory.                                                 *)
Queued == {l \in Sleeper : io[l] = "queued"}

(* Mutant: wakeup puts the node on the second list only. *)
RunRoutinesBothLists ==
  /\ Queued # {}
  /\ io' = [l \in Sleeper |-> IF l \in Queued THEN "done" ELSE io[l]]
  /\ sleepers' = sleepers
  /\ woken' = woken \cup (Queued \cap sleepers)
  /\ fault' = IF Queued \subseteq sleepers THEN "none" ELSE "freed_overlapped"

RunRoutines ==
  /\ Queued # {}
  /\ io' = [l \in Sleeper |-> IF l \in Queued THEN "done" ELSE io[l]]
  /\ sleepers' = sleepers \ Queued
  /\ woken' = woken \cup (Queued \cap sleepers)
  /\ fault' = IF Queued \subseteq sleepers THEN "none" ELSE "freed_overlapped"

-----------------------------------------------------------------------------
(* What the task does with its leaves.                                     *)

LeafMake(l) ==
  /\ InProgram
  /\ phase[l] = "unborn"
  /\ phase' = [phase EXCEPT ![l] = "fresh"]
  /\ UNCHANGED <<loopVars, nodeVars, handleVars, told, io, waitfor, cancelled,
                 fault>>

LeafDismiss(l) ==
  /\ InProgram
  /\ phase[l] = "fresh"
  /\ phase' = [phase EXCEPT ![l] = "gone"]
  /\ UNCHANGED <<loopVars, nodeVars, handleVars, told, io, waitfor, cancelled,
                 fault>>

(* WSARecv or WSASend accepts the operation and its node goes to sleep. *)
SleeperStart(l) ==
  /\ InProgram
  /\ phase[l] = "fresh"
  /\ phase' = [phase EXCEPT ![l] = "pending"]
  /\ io' = [io EXCEPT ![l] = "issued"]
  /\ sleepers' = sleepers \cup {l}
  /\ UNCHANGED <<loopVars, handleVars, told, woken, missed, waitfor,
                 cancelled, fault>>

(* WSARecv fails, or register_sleeper does when the operation is already   *)
(* under way: start answers with the error.                                *)
SleeperStartFails(l) ==
  /\ InProgram
  /\ phase[l] = "fresh"
  /\ Answers(l)
  /\ \/ UNCHANGED io
     \/ io' = [io EXCEPT ![l] = "issued"]
  /\ UNCHANGED <<loopVars, nodeVars, handleVars, waitfor, cancelled, fault>>

(* cancel asks for the operation to end and waits for its routine. *)
SleeperCancel(l) ==
  /\ InProgram
  /\ phase[l] = "pending"
  /\ waitfor' = l
  /\ cancelled' = cancelled \cup {l}
  /\ UNCHANGED <<loopVars, leafVars, nodeVars, handleVars, io, fault>>

(* SleepEx in wait_for_sleeper.  What it wakes is walked next only if a    *)
(* handle's callback is on the stack.                                      *)
WaitForSleeper ==
  /\ Running
  /\ waitfor \in sleepers
  /\ RunRoutines
  /\ missed' = IF ctl = "handle" THEN missed ELSE missed \cup (woken' \ woken)
  /\ UNCHANGED <<loopVars, leafVars, handleVars, waitfor, cancelled>>

(* Mutant: cancel does not wait for the routine. *)
SleeperCancelAtOnce ==
  /\ Running
  /\ waitfor # Null
  /\ phase' = [phase EXCEPT ![waitfor] = "gone"]
  /\ waitfor' = Null
  /\ UNCHANGED <<loopVars, nodeVars, handleVars, told, io, cancelled, fault>>

(* m_complete is set: cancel returns, the node stays where wakeup put it.  *)
SleeperCancelReturns ==
  /\ Running
  /\ waitfor # Null /\ waitfor \notin sleepers
  /\ phase' = [phase EXCEPT ![waitfor] = "gone"]
  /\ waitfor' = Null
  /\ UNCHANGED <<loopVars, nodeVars, handleVars, told, io, cancelled, fault>>

(* add_handle, or the runtime_error it throws when the array is full.      *)
WaiterStart(l) ==
  /\ InProgram
  /\ phase[l] = "fresh"
  /\ IF Len(handles) < Limit
     THEN /\ handles' = Append(handles, l)
          /\ phase' = [phase EXCEPT ![l] = "pending"]
          /\ UNCHANGED told
     ELSE Answers(l) /\ UNCHANGED handles
  /\ UNCHANGED <<loopVars, nodeVars, signalled, again, failing, io, waitfor,
                 cancelled, fault>>

WaiterCancel(l) ==
  /\ InProgram
  /\ phase[l] = "pending"
  /\ \/ \E i \in 1..Len(handles) :
          /\ handles[i] = l
          /\ handles' = SwapRemove(handles, i)
          /\ phase' = [phase EXCEPT ![l] = "gone"]
          /\ UNCHANGED fault
     \/ /\ \A i \in 1..Len(handles) : handles[i] # l
        /\ fault' = "remove_handle"
        /\ UNCHANGED <<handles, phase>>
  /\ UNCHANGED <<loopVars, nodeVars, signalled, again, failing, told, io,
                 waitfor, cancelled>>

(* Mutant: m_updated is not set. *)
RootCompleteUnnoticed ==
  /\ InProgram
  /\ ctl # "start"
  /\ Pending = {}
  /\ UNCHANGED <<loopVars, leafVars, nodeVars, handleVars, io, waitfor,
                 cancelled, fault>>

(* The task's own answer reaches fake_scheduler::on_completion. *)
RootComplete ==
  /\ InProgram
  /\ ctl # "start"
  /\ Pending = {}
  /\ updated' = TRUE
  /\ UNCHANGED <<ctl, ahead, current, leafVars, nodeVars, handleVars, io,
                 waitfor, cancelled, fault>>

-----------------------------------------------------------------------------
(* The loop of try_run_impl.                                               *)

StartWaits ==
  /\ Running /\ waitfor = Null
  /\ ctl = "start"
  /\ Pending # {}
  /\ ctl' = "wait"
  /\ updated' = FALSE
  /\ UNCHANGED <<ahead, current, leafVars, nodeVars, handleVars, io, waitfor,
                 cancelled, fault>>

StartReturns ==
  /\ Running /\ waitfor = Null
  /\ ctl = "start"
  /\ Pending = {}
  /\ ctl' = "returned"
  /\ UNCHANGED <<updated, ahead, current, leafVars, nodeVars, handleVars, io,
                 waitfor, cancelled, fault>>

(* SleepEx or WaitForMultipleObjectsEx returns because routines ran. *)
WaitWoken ==
  /\ Running
  /\ ctl = "wait" /\ ~updated
  /\ RunRoutines
  /\ ctl' = "walk"
  /\ ahead' = woken'
  /\ UNCHANGED <<updated, current, leafVars, handleVars, waitfor, cancelled,
                 missed>>

(* WaitForMultipleObjectsEx reports entry i, which leaves the array. *)
HandleReported(i) == /\ Running
                     /\ ctl = "wait" /\ ~updated
                     /\ handles[i] \in signalled

(* The waiter answers, and the callbacks of the task run from there. *)
HandleAnswer(i) ==
  /\ HandleReported(i)
  /\ handles' = SwapRemove(handles, i)
  /\ Answers(handles[i])
  /\ ctl' = "handle"
  /\ UNCHANGED <<updated, ahead, current, nodeVars, signalled, again, failing,
                 io, waitfor, cancelled, fault>>

(* A connect_impl finds no FD_CONNECT and calls add_handle again. *)
ConnectAgain(i) ==
  /\ HandleReported(i)
  /\ handles[i] \in Connect
  /\ again < MaxAgain
  /\ again' = again + 1
  /\ handles' = Append(SwapRemove(handles, i), handles[i])
  /\ signalled' = signalled \ {handles[i]}
  /\ ctl' = "walk"
  /\ ahead' = woken
  /\ UNCHANGED <<updated, current, leafVars, nodeVars, failing, io, waitfor,
                 cancelled, fault>>

(* WSAEnumNetworkEvents fails: the sink is told, and the callbacks of the  *)
(* task run from there, its owner deleting the command.                    *)
ConnectFails(i) ==
  /\ HandleReported(i)
  /\ handles[i] \in Connect
  /\ handles' = SwapRemove(handles, i)
  /\ Answers(handles[i])
  /\ failing' = handles[i]
  /\ ctl' = "handle"
  /\ UNCHANGED <<updated, ahead, current, nodeVars, signalled, again, io,
                 waitfor, cancelled, fault>>

(* The callback of a handle has returned to whoever called it. *)
HandleCalled == /\ Running /\ waitfor = Null
                /\ ctl = "handle"
                /\ updated \/ Pending # {}

(* on_completion goes on after that error as if there had been none, with  *)
(* what ne happens to hold: it tells the sink once more, or it adds the    *)
(* handle of the command that is deleted (or throws, if there is no room). *)
ConnectGoesOn ==
  /\ HandleCalled
  /\ failing # Null
  /\ \/ /\ told' = [told EXCEPT ![failing] = @ + 1]
        /\ fault' = "answered_twice"
        /\ UNCHANGED handles
     \/ /\ handles' = IF Len(handles) < Limit THEN Append(handles, failing)
                                             ELSE handles
        /\ fault' = "freed_handle"
        /\ UNCHANGED told
  /\ UNCHANGED <<loopVars, phase, nodeVars, signalled, again, failing, io,
                 waitfor, cancelled>>

(* Mutant: only WAIT_IO_COMPLETION is followed by a walk. *)
HandleReturnsToWait ==
  /\ HandleCalled /\ failing = Null
  /\ ctl' = "wait"
  /\ UNCHANGED <<updated, ahead, current, leafVars, nodeVars, handleVars, io,
                 waitfor, cancelled, fault>>

(* The callback of a handle returned: the walk begins. *)
HandleReturns ==
  /\ HandleCalled /\ failing = Null
  /\ ctl' = "walk"
  /\ ahead' = woken
  /\ UNCHANGED <<updated, current, leafVars, nodeVars, handleVars, io,
                 waitfor, cancelled, fault>>

(* Mutant: the sink is told and the command left pending. *)
WalkVisitStays(l) ==
  /\ Running
  /\ ctl = "walk"
  /\ l \in ahead
  /\ phase[l] = "pending"
  /\ told' = [told EXCEPT ![l] = @ + 1]
  /\ ctl' = "sleeper"
  /\ current' = l
  /\ UNCHANGED <<phase, updated, ahead, nodeVars, handleVars, io, waitfor,
                 cancelled, fault>>

(* The walk calls the sink of l, which may have been deleted. *)
WalkVisit(l) ==
  /\ Running
  /\ ctl = "walk"
  /\ l \in ahead
  /\ \/ /\ phase[l] = "pending"
        /\ Answers(l)
        /\ ctl' = "sleeper"
        /\ current' = l
        /\ UNCHANGED fault
     \/ /\ phase[l] # "pending"
        /\ fault' = "freed_sink"
        /\ UNCHANGED <<leafVars, ctl, current>>
  /\ UNCHANGED <<updated, ahead, nodeVars, handleVars, io, waitfor, cancelled>>

(* The callback of a sleeper returned: its node is removed and deleted. *)
SleeperReturns ==
  /\ Running /\ waitfor = Null
  /\ ctl = "sleeper"
  /\ updated \/ Pending # {}
  /\ ctl' = "walk"
  /\ woken' = woken \ {current}
  /\ ahead' = ahead \ {current}
  /\ current' = Null
  /\ UNCHANGED <<updated, leafVars, sleepers, missed, handleVars, io, waitfor,
                 cancelled, fault>>

WalkEnds ==
  /\ Running
  /\ ctl = "walk"
  /\ ahead = {}
  /\ ctl' = "wait"
  /\ UNCHANGED <<updated, ahead, current, leafVars, nodeVars, handleVars, io,
                 waitfor, cancelled, fault>>

LoopAgain ==
  /\ Running
  /\ ctl = "wait" /\ updated
  /\ ctl' = "start"
  /\ UNCHANGED <<updated, ahead, current, leafVars, nodeVars, handleVars, io,
                 waitfor, cancelled, fault>>

-----------------------------------------------------------------------------
(* Windows.                                                                *)

(* An operation ends, by itself or because of CancelIoEx. *)
IoEnds(l) ==
  /\ Running /\ ctl # "returned"
  /\ io[l] = "issued"
  /\ io' = [io EXCEPT ![l] = "queued"]
  /\ UNCHANGED <<loopVars, leafVars, nodeVars, handleVars, waitfor, cancelled,
                 fault>>

Signal(l) ==
  /\ Running /\ ctl # "returned"
  /\ phase[l] = "pending"
  /\ l \notin signalled
  /\ signalled' = signalled \cup {l}
  /\ UNCHANGED <<loopVars, leafVars, nodeVars, handles, again, failing, io, waitfor,
                 cancelled, fault>>

(* The wait of the loop is INFINITE, and a sleeper that it should have     *)
(* called back is on m_woken_sleepers.                                     *)
Overslept == /\ ctl = "wait" /\ ~updated
             /\ \E l \in woken \cap missed : phase[l] = "pending"

(* try_run_impl returned, the program stopped, or it may sleep for good. *)
Terminated == (~Running \/ ctl = "returned" \/ Overslept) /\ UNCHANGED vars

Next ==
  \/ \E l \in Leaf : LeafMake(l) \/ LeafDismiss(l)
  \/ \E l \in Sleeper : \/ SleeperStart(l) \/ SleeperStartFails(l)
                        \/ SleeperCancel(l) \/ WalkVisit(l) \/ IoEnds(l)
  \/ \E l \in Waiter : WaiterStart(l) \/ WaiterCancel(l) \/ Signal(l)
  \/ WaitForSleeper \/ SleeperCancelReturns
  \/ RootComplete
  \/ StartWaits \/ StartReturns \/ LoopAgain
  \/ WaitWoken \/ HandleReturns \/ ConnectGoesOn \/ SleeperReturns \/ WalkEnds
  \/ \E i \in 1..Len(handles) : \/ HandleAnswer(i) \/ ConnectAgain(i)
                                \/ ConnectFails(i)
  \/ Terminated

(* The task does not sit on a handler for ever, the loop goes round, every *)
(* operation ends, every handle is signalled and a wait reports them.      *)
Fairness ==
  /\ WF_vars(StartWaits \/ StartReturns)
  /\ WF_vars(LoopAgain)
  /\ WF_vars(WaitForSleeper \/ SleeperCancelReturns)
  /\ WF_vars(HandleReturns \/ ConnectGoesOn \/ SleeperReturns \/ RootComplete)
  /\ WF_vars(WalkEnds \/ \E l \in Sleeper : WalkVisit(l))
  /\ WF_vars(WaitWoken \/ \E i \in 1..Len(handles) :
                           HandleAnswer(i) \/ ConnectAgain(i) \/ ConnectFails(i))
  /\ \A l \in Sleeper : WF_vars(IoEnds(l))
  /\ \A l \in Waiter : WF_vars(Signal(l))

Spec == Init /\ [][Next]_vars /\ Fairness

-----------------------------------------------------------------------------
(* Safety.                                                                 *)

(* The node of a sleeper that waits is on m_sleepers until its routine has *)
(* run and on m_woken_sleepers afterwards, m_sleepers has no other node,   *)
(* and the only nodes left on m_woken_sleepers without a command behind    *)
(* them are those of sleepers that were cancelled.  The types are part of  *)
(* it: what the walk has still to visit are woken nodes.                   *)
NodesFollowTheirLeaves ==
  /\ TypeOK
  /\ sleepers = {l \in Sleeper : /\ phase[l] = "pending"
                                 /\ io[l] \in {"issued", "queued"}}
  /\ \A l \in Sleeper : phase[l] = "pending" /\ l \notin sleepers => l \in woken
  /\ \A l \in woken \ {current} : phase[l] = "pending" \/ l \in cancelled

(* m_handles has one entry for each waiter that waits, none for another,   *)
(* and never more than add_handle admits, through removals by swapping     *)
(* with the last entry, before, during and instead of a callback, until a  *)
(* connect_impl whose command is deleted adds itself (freed_handle).       *)
HandlesArePending == fault # "freed_handle" =>
  /\ {handles[i] : i \in 1..Len(handles)} = {l \in Waiter : phase[l] = "pending"}
  /\ \A i, j \in 1..Len(handles) : handles[i] = handles[j] => i = j
  /\ Len(handles) <= Limit

(* When the loop goes to sleep, every sleeper it owes a callback was woken *)
(* inside wait_for_sleeper, by a task that cancelled another one.          *)
NothingDueWhenBlocking == ctl = "wait" => woken \subseteq missed

(* The system writes to the OVERLAPPED of a deleted command only if start  *)
(* failed after WSARecv had accepted the operation; a cancellation is over *)
(* only when the operation is.                                             *)
OperationEndsBeforeCommand ==
  \A l \in Sleeper : phase[l] = "gone" /\ io[l] \in {"issued", "queued"} =>
    l \notin cancelled /\ told[l] = 1

(* Each leaf keeps the contract of module Command under this scheduler,    *)
(* but for the second answer of a connect_impl that goes on after its      *)
(* WSAEnumNetworkEvents failed; no other step and no other leaf breaks it. *)
LeafCommand(l) == INSTANCE Command WITH phase <- phase[l], told <- told[l]

SecondAnswer(l) == /\ l = failing /\ fault' = "answered_twice"
                   /\ told'[l] = told[l] + 1
                   /\ UNCHANGED phase[l]

AnswersOrGoesOn(l) == \/ LeafCommand(l)!Next
                      \/ UNCHANGED <<phase[l], told[l]>>
                      \/ SecondAnswer(l)

LeavesImplementCommandUnlessEnumFails ==
  /\ \A l \in Leaf : LeafCommand(l)!Init
  /\ [][\A l \in Leaf : AnswersOrGoesOn(l)]_<<phase, told>>

-----------------------------------------------------------------------------
(* Liveness.                                                               *)

(* try_run returns for every task that is finite, unless an assertion or a *)
(* freed object stops it or it oversleeps a sleeper for good.              *)
TryRunReturns == <>(ctl = "returned" \/ ~Running) \/ <>[]Overslept

=============================================================================

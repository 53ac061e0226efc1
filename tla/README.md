# cpp-libawait in TLA+

Specifications of the asynchronous task library `cpp-libawait`, model-checked
with TLC and, every safety property of them, proved with TLAPS. Everything is
translated from the code under `src/`; paths below are relative to the
repository root and `file:line` refers to that tree.

The repository is in the middle of a rewrite. `CMakeLists.txt` builds only the
new `result<T>` and `task<T>` (`include/avakar/await`, `src/result_impl.h`,
`src/task_impl.h`), whose commands have `start` and `cancel(scheduler *)`. The
combinators, schedulers and fibers (`Makefile`) are still written against the
older interface, `start`, `cancel(scheduler &, cancel_info)` and
`dismiss(cancel_info)`. Module `Task` models the new variants, every other
module the code as it is written, against the older interface.

## 1. Inventory

A *task* is empty, a result (value or error) or a *command*. A command is
started with a scheduler and a completion sink; `start` either answers or
returns an empty task and answers later by calling the sink; meanwhile it may be
cancelled; a command that was never started is dismissed. An answer may itself
be a task that holds another command, the successor. Combinators are commands
that hold commands; leaves register with the scheduler. All of it is single
threaded: what interleaves is the order of completions, the calls an owner makes
from inside a callback, and on Windows the completion routines that run inside
any alertable wait.

| component | state | operations | interacts with | hard behaviour | what makes it correct |
|---|---|---|---|---|---|
| command contract (`src/command_intf.h`, `src/command_impl.h`, `src/command_ptr_impl.h`) | where a command is in its life | make, start, cancel, dismiss, complete | everybody | illegal orders of legal calls | at most one answer; cancelled only when pending, dismissed only when fresh |
| parallel combinator (`src/parallel.cpp`) | `m_items`, `m_sink` | `\|`, `\|=`, `start`, `cancel`, `dismiss`, `on_completion` | children, owner | a child failing while others are pending or not yet started; no memory | no child left behind; the answer is the children's |
| loop (`src/loop_impl.h`, `src/stream.cpp`) | coroutine state, `cmd`, `r`, `res` | `process` from five callers | one child at a time, `start` and `update` functions | results arriving on every path; a cancel that goes round | one command at a time, each value handed on once: every byte written once |
| continuations (`src/then_impl.h`) | `m_cmd`, `m_f` | `continue_with`, `then`, command handlers | one child, the function, its task | every way the child can end | the function is called exactly once |
| Linux scheduler and leaves (`src/linux_run.cpp`, `linux_fd_task.cpp`, `linux_timer.cpp`, `linux_tcp.cpp`) | `m_items`, `m_updated`, the kernel's interest list | `add_fd`, `remove_fd`, the loop | leaves, epoll | callbacks that add and remove; two leaves on one descriptor | no dangling registration, no lost wakeup, `try_run` returns |
| Win32 scheduler and leaves (`src/win32_run.cpp`, `win32_tcp.cpp`, `win32_timer.cpp`) | handle array, two sleeper lists, `m_updated` | `add_handle`, `remove_handle`, `register_sleeper`, `wait_for_sleeper`, the loop | leaves, completion routines | routines running inside a cancellation inside a callback | array and lists agree with who waits; nothing due when it blocks |
| intrusive list (`src/intrusive_list.h`) | `m_next`, `m_prev` | `insert`, `remove`, `erase`, `clear`, iteration | Win32 scheduler | changed while it is walked | a ring per list; a walk misses nothing |
| result and task variants (`src/result_impl.h`, `src/task_impl.h`, `src/variant_storage.h`) | `index_`, raw storage | construct, copy, move, assign, dismiss, destroy | commands | constructors that throw; moved-from sources | index and storage agree; one owner per command |
| fibers (`src/linux_fiber.cpp`, `src/win32_fiber.cpp`, `fiber.h`) | `g_cur_fiber_data`, contexts and stacks, `m_awwaiter` | `start`, `cancel`, `dismiss`, `on_completion`, `try_await_impl`, `awwait`'s handlers | awaited commands, nested fibers | a nested fiber ending synchronously; a cancellation that goes down and up again | a function finds its own fiber; nothing it awaits is left behind; a stack exactly as long as it is needed |
| coroutines (`coroutine.h`) | promise, `m_susp` | | | | not usable at this commit: vtable interface that no longer exists |
| run, postpone (`run_impl.h`, `task.cpp`) | none | wrappers | scheduler, continuation | the continuation cannot be allocated | `try_run` returns what the task came to |
| meta, traits, error categories | none | compile time, formatting | | | |

The hazards, each at its line with the properties that cover it, are in
`PROJECT.json`.

## 2. Modules

**Command** is the abstract specification: `phase` (unborn, fresh, pending,
gone) and `told`, the number of answers. Its actions are the calls an owner may
make and the answers a command may give. Every command implementation is shown
to implement it: the property is written
`INSTANCE Command WITH phase <- ..., told <- ...`.

**Parallel** composes any set of children. `acc` is what the accumulated task
holds, `items` is `lhs_cmd` and `m_items`, `phase[c]` a child's life and how it
ended. Each operator and each handler of `parallel_cmd` is one action, the
cancellation of the siblings inside `complete_item` included. A failed assertion
stops the model in a named `fault`.

**Loop** goes in smaller steps, since the interest is in the five callers of
`process`: `handler` is the function on the stack, `at` what it does next
(`begin`: call `start(ctx)`; `resume`: look at `r`; `child`: call the command;
`end`: `process` has returned). Its context is that of `write_all`
(`stream.cpp`): `pos` is `buf`, `size` the bytes left, `count` the number a write
came to, any from one to all of them, and `out` records how often each byte has
been written. A throwing `update` (`loop_impl.h:139`, marked XXX) stops the run.

**ContinueWith** is written the same way for `continue_with`, `then` and the
`try_run` of a `task<T>` (variable `member`). The task that the function returns
is empty, a result or a command that becomes the answer (`handed`). An empty one
leaves the program waiting: `NobodyAnswers`. The continuation may also fail to
be made (`failed`), and then the function is never called. Without memory
(`NoMemory`) its constructor has not run, so the command is still in the
caller's task (`kept`), alive until that task is destroyed (`DestroyTask`); if
moving the function throws (`MoveThrows`), the command has been taken over and
goes with the half-built object. `try_run` then returns a default value, which
nothing in the repository contradicts.

**Fiber** has the handlers of `fiber_cmd` on the thread's own stack as a sequence
`calls`, the innermost first: what a function awaits may be a fiber, whose
`start`, `cancel` or `on_completion` is then called from inside the handler of
the one that awaits. `at` says whether a handler runs the function, has an
`awwait` to start, dismiss or cancel, or finds the function at its end; a
`swapcontext` (or `SwitchToFiber`) is the step from one to another. `os` is
chosen at the beginning: on Linux `try_await_impl` finds its fiber through
`g_cur_fiber_data` (`cur`), on Windows through `GetFiberData`, which is the fiber
that runs. On Linux a fiber that ended inside the `start` or `cancel` of another
leaves `cur` naming itself when its parent goes on; the next `awwait` of the
parent then writes to the data of a fiber that has ended, and the model stops
with the fault `wrong_fiber`. The function may await any command that has not
been made, in any order, and end at any time.

**LinuxRun** models `try_run_impl` with the kernel's interest list as a function
from descriptors to item addresses, so an address can be reused. The result of
`EPOLL_CTL_ADD` is ignored (`linux_run.cpp:48`): it is refused for a descriptor
that is registered already, and may be refused for any other, as when the kernel
is out of memory or watches, the descriptor is closed, or it is the -1 of a
`timerfd_create` nobody checked; `refused` remembers for whom. The task is any program that keeps the contract of `Command`
towards its leaves: while a handler is on the stack it may make, start, cancel
and dismiss leaves, and it gives control back without an answer only if it waits
for one. A poll leaf may find `EAGAIN` and register again. The program may
destroy a stream under a leaf that waits for it (`CloseFd`): the descriptor is
closed, the kernel forgets it, and its number may later be that of another
stream, so that a leaf started afterwards finds it either open or closed. An
item may fail to be allocated: the leaves whose `start` may throw answer with
the error, `poll_op`'s is `noexcept` and stops the run (`no_memory`).
A timer may be made disarmed (`disarmed`), as `wait_ms` of zero or of a negative
time makes it: its descriptor never becomes ready. `MCLinuxRun` gives the leaves
their descriptors.

**Win32Run** models the other `try_run_impl`: the handle array as a sequence
(entries are removed by swapping with the last), both sleeper lists as sets with
`ahead`, the part the walk has still to visit, and the completion routines,
which run in the loop's wait (`WaitWoken`) or inside the cancellation of another
sleeper (`WaitForSleeper`). `completion_result::reschedule` is left out: no leaf
returns it. The order and the pointers of the lists are the subject of
IntrusiveList. A `connect_impl` whose `WSAEnumNetworkEvents` fails
(`ConnectFails`) tells its sink and is remembered in `failing` while the task's
callbacks run; when they return, `ConnectGoesOn` tells the sink a second time
(fault `answered_twice`) or adds the handle of the deleted command, or throws
(fault `freed_handle`).

**IntrusiveList** has the pointers of the hooks themselves, nodes that move
between lists, and the walk of `win32_run.cpp:136-147` with callbacks that push
and remove.

**Task** models `result<T>` and `task<T>` over raw storage: `index` is `index_`,
`object` what has been built there, `count` the number of `T` constructed and
not destroyed. The helpers of `variant_storage.h` are operators from one memory
to the next and the member functions compose them as the code does. Every
constructor of `T` may throw. Self assignment of a result reads a destroyed
object; the model stops there.

A module `X_proofs` holds the theorems about module X; every module above but
Command, which the others refine, has one.

Definitions whose comment begins with "Mutant" or "Mutation" are altered copies
of an action or operator, each breaking the property named in `PROJECT.json`; no
specification uses them.

## 3. Runs

| run | instance | shows |
|---|---|---|
| `parallel` | 3 children | every way to accumulate, start, cancel and complete; `NoChildLeftBehind`, `AnswerIsTheChildrens`, refinement of Command, and an answer in the end unless a child completed with a command |
| `loop` | 4 commands, 3 bytes | `OneCommandAtATime`, `EachByteOnce` (whatever has been written is a prefix, each byte of it once), refinement of Command, an answer in the end |
| `continue_with` | 3 commands | `CalledExactlyOnce` however the command ends, `NoCommandLeftBehind` also where the continuation cannot be made, refinement of Command, an answer unless the function returned an empty task |
| `fiber` | 3 fibers, 3 other commands, both systems | `WrongFiberHasEnded` (the fiber a function takes for its own is its own or has ended, never another live one), `NoAwaitedLeftBehind`, `StacksFollowFibers`, refinement of Command, an answer in the end unless `wrong_fiber` |
| `linux_run` | 3 leaves, two on one descriptor, 3 addresses, 2 `EAGAIN`s | no dangling registration, an item per waiting leaf, wakeups lost only on a descriptor whose adding was refused or that was closed, `remove_fd` never fails, `try_run` returns |
| `win32_run` | 2 sleepers, 3 waiters, array of 2, 1 spurious wakeup | nodes and handles agree with who waits, a sleeper overslept only if it was woken inside `wait_for_sleeper`, an operation ends before its command, refinement of Command but for the second answer of a failed `connect_impl`, `try_run` returns |
| `intrusive_list` | 3 nodes, 2 lists | pointers inverse, each ring visits its members, a walk misses nothing and ends |
| `task` | 2 tasks, 2 results, 2 commands | index and object agree, each `T` destroyed once, one owner per command, moved-from tasks empty |
| `empty_accumulator` | violation | `t \|= value()` on a task that holds a command leaves it empty (`parallel.cpp:176`) |
| `null_dismiss` | violation | a child failing inside `start` makes `parallel_cmd` dismiss a null command (`parallel.cpp:86`) |
| `unstarted_cancel` | violation | a successor stored by `item::on_completion` is never started and may be cancelled (`parallel.cpp:115`) |
| `loop_unstarted_cancel` | violation | cancelling a loop whose child came to a value cancels the next command, never started (`loop_impl.h:192`) |

The types are an invariant of their own in Parallel, LinuxRun and IntrusiveList
and the first conjunct of another invariant elsewhere.

Bounds. Three children are one that fails, one that is pending and one that has
ended, the relations the handlers tell apart. Four commands let a loop see a
successor and a next turn before and after it was started; three bytes can be
written at once, in two writes of unequal length, and one by one. Three fibers
are one inside another inside a third, or two side by side under one; three
other commands give the innermost one something to await, its successor, and
its parent a command after it ended. Three leaves on two
descriptors are a collision and a bystander; three addresses are one per leaf,
each reused; a descriptor is closed once, since closing it again meets the same
states. `MaxAgain` only cuts repetitions of a step whose
effect does not depend on how often it was taken. On Windows the array of 63 is
2: a removal that swaps, one that does not, and a refused start. Two sleepers
are one being cancelled and one that is woken or walked meanwhile. Three nodes
give a list an inner node.

Fairness. No module obliges an owner to start, cancel or dismiss anything. It
obliges a function on the stack to go on, since nothing in the library blocks
but the two schedulers' waits; a pending command to answer, which is what a
pending child promises and what the leaf modules show of themselves; in the
schedulers the loop to go round, the program to return from a handler, and the
system to complete an operation, make a descriptor ready or signal a handle and
to report it (`epoll_wait` and `WaitForMultipleObjectsEx` wait for ever until
they can). The liveness properties name what can defeat them: a lost
registration (`linux_run.cpp:48`, the result of `epoll_ctl` is ignored), a timer
that is not armed (`linux_timer.cpp:24`), a
sleeper woken where no walk follows (`win32_run.cpp:111`), an unstarted
successor, an empty task from a continuation, another fiber's data, a failed
assertion. A property that names such an exception does not catch it; the
hazards of `PROJECT.json` say for each where the model stops or waits.

What the runs found besides the four violations, with no sentence in the
repository to contradict: two leaves on one descriptor lose a wakeup, and so
does a leaf whose `EPOLL_CTL_ADD` is refused for another reason or whose stream
is destroyed; a fiber that awaits a second time after a
nested fiber ended inside its `start` or its cancellation uses the data of the
fiber that ended (`linux_fiber.cpp:60`, `:73`, `:94`); a sleeper
woken while another is being cancelled may be slept over, and one cancelled from
a callback leaves its node, with a destroyed sink, on the list being walked
(`freed_sink`); `connect_impl` goes on after telling its sink of an error, and tells it again or
adds a handle that nobody will remove (`win32_tcp.cpp:304`); an operation whose `register_sleeper` threw completes
into a freed command (`win32_tcp.cpp:77`).

## 4. Proofs

TLAPS proves every safety invariant, action property and refinement that the
passing runs check, for every value of the constants that satisfies the modules'
assumptions (named `...Assumption`). Those say that the sets of commands and of
variables do not overlap, that null is none of their members and that limits and
sizes are natural numbers; only the nodes of IntrusiveList are assumed to be
finitely many, since a program makes so many.

Each proof has the shape `Init => IInv`, `IInv /\ [Next]_vars => IInv'` with one
lemma per action or group of actions, `IInv => Inv`, and one temporal step.
What `IInv` adds to the properties, and why:

* **Parallel_proofs**: `TypeOK`, `NoChildLeftBehind`, `AnswerIsTheChildrens`,
  `EndedStaysEnded` (an action property) and `ImplementsCommand`. The invariant
  `IInv` adds to the types what an accumulation and a pending command hold:
  which children are fresh before the start, that the items of a pending command
  are exactly its children that have not ended, and that the answer given is
  the one the children's ends call for. Without the part on `items` the
  completion of one child says nothing about the others.
* **Loop_proofs**: `OneCommandAtATime`, `EachByteOnce`, `ImplementsCommand`.
  `OnStack` says which of the five callers may be on the stack in which phase of
  `cmd2`; `Holds`, that the coroutine has a command exactly while a caller turns
  to it or waits for it, so no caller resumes a coroutine that has one;
  `Numbers`, that a result not yet handed to `update` counts no more bytes than
  are left, without which the position could run past the buffer.
* **ContinueWith_proofs**: `CalledExactlyOnce`, `NoCommandLeftBehind`,
  `ImplementsCommand`. `Stages` follows a continuation from its first command to
  the result, the function and the function's task, and says for each stage what
  exists already, a command kept by the caller included: a call counted twice
  would need a way back.
* **LinuxRun_proofs**: `TypeOK`, `NoDanglingRegistration`,
  `OneItemPerPendingLeaf`, `LostOnlyIfRefusedOrClosed`, `RemoveFdFindsItem`,
  `RestartOnlyWhenComplete` and `LeavesImplementCommand`. `IInv` is the types,
  the correspondence of items, registrations and waiting leaves in both
  directions (`Serves`), that a completed task waits for no leaf, and that
  `remove_fd` has not failed. `Addition` and `Removal` state once what `add_fd`
  and `remove_fd` do to it, `ClosePreserves` what closing a descriptor does; an
  item's address is reused, so uniqueness of the item per leaf is what makes
  removal safe.
* **Win32Run_proofs**: `NodesFollowTheirLeaves`, `HandlesArePending`,
  `OperationEndsBeforeCommand`, `NothingDueWhenBlocking`,
  `LeavesImplementCommandUnlessEnumFails`. Of the parts of `IInv`, `Upkeep` is
  about nodes and handles. In it `Operations` ties the progress of a sleeper's
  operation to its command and to the function that waits for it;
  `WalkVisitsTheRest` says of the loop in every place what
  `NothingDueWhenBlocking` says of the wait: a woken node lies ahead of the walk
  or was woken inside `wait_for_sleeper`. `AppendAdds` and its counterpart for
  the removal by swapping turn the array into a set once. `Causes`
  (`FaultsHaveTheirCauses`) bounds the flaws of section 3: a freed sink is called
  only after a sleeper was cancelled, a freed `OVERLAPPED` written only after a
  failed start, only a `connect_impl` whose `WSAEnumNetworkEvents` failed answers
  twice or adds its handle after its end, and the assertion of `remove_handle`
  never fails. `FailingIsOver` says of that `connect_impl` that it has ended and
  answered, and `AnswersGiven` counts: two answers are its own, every other leaf
  gives one at most.
* **IntrusiveList_proofs**: `TypeOK`, `DoublyLinked`, `WalkMissesNothing`,
  `RingVisitsMembers`. `DoublyLinked` alone is not enough for the walk: a cycle
  of nodes that does not pass through the head satisfies it. `Ranked` gives each
  node of a list a natural number that increases along `m_next`, which excludes
  such cycles, and `WalkInv` says that what is due lies ahead of the iterator.
  `RingVisitsMembers` speaks of a recursive function over the list, about which
  nothing can be proved by the library's induction theorems here; the proof uses
  least counterexamples instead: the first step of a walk to leave the list or to
  come back anywhere but at the head would have an earlier one that did. That
  the walk returns at all, and misses no member, is a matter of counting, hence
  the finite set of nodes.
* **Task_proofs**: `IndexNamesObject`, `EveryObjectIsHeld`,
  `OneOwnerPerCommand`. The operations are compositions of operators on a
  memory, so the lemmas say what each helper of `variant_storage.h` makes of a
  memory (`Sound`), with and without an exception; only `Owned`, which names the
  one owner instead of counting, survives a move. The proof could not be had from
  the assumption on the variables as it was first written: one conjunct was
  vacuous and allowed a command that is also one of the other contents. It has
  been replaced.
* **Fiber_proofs**: `StacksFollowFibers`, `NoAwaitedLeftBehind`,
  `WrongFiberHasEnded`, `FibersImplementCommand`. `Stack` describes nested calls
  of any depth: each handler was called from the awwait of the fiber that awaits
  its own (`Nests`), agrees with the phases (`Fits`), no fiber is entered twice,
  and no call cancels under a `start` or starts under a `cancel` (`Uniform`).
  `Pushed`, `Popped`, `Replaced` and `HeadChanges` state once what a call, a
  return and a step of the innermost handler do to it. `CurrentData` is stronger
  than `WrongFiberHasEnded`: it holds at every point of the innermost handler,
  not only while its function runs.

Two families of theorems state what no run checks by itself. `AnswersOnce`
carries the abstract invariant of Command through each refinement: nobody who
starts a command, of whichever module, is answered twice, or before it is over;
in Win32Run the theorem is `AnswersOnceUnlessEnumFails`, with the exception of
the failed `connect_impl`, which is what the code does.
`KeepsOwnersSide` is the other half of the contract, which the leaf modules and
every combinator assume of their owner: Parallel, ContinueWith and Fiber start
and dismiss only what nobody has started and cancel only what waits, and Loop
starts and dismisses only what nobody has started. What is missing there is
exactly what the violations show: a parallel and a loop may call `cancel` on a
successor that was never started (the model of Parallel stops at the leaf's
assertion, so in it the cancellation does not take place).

Only model-checked: the liveness properties, since fairness and ENABLED are out
of the prover's reach, and the violations, each of which is a counterexample.

## 5. Not modelled

* `coroutine.h`: written against `task_vtable`, which no longer exists.
* The value a `fiber<T>` stores for its caller, and the size of its stack.
* Address resolution, socket setup, `accept`: system calls in a row whose
  failures become error results. (Read there, and not in any model: a connect
  that is refused is taken for one that succeeded, `linux_tcp.cpp:181`; the
  result of `getaddrinfo` is compared with `SOCKET_ERROR`, which it does not
  return, `win32_tcp.cpp:336`.)
* How long a timer waits, and `wait_ms` of huge arguments, where
  `win32_timer.cpp:22` overflows: a timer is a leaf that becomes ready some day,
  unless it is disarmed (LinuxRun).
* An `epoll_wait` interrupted by a signal: the code reads an uninitialized
  pointer (`linux_run.cpp:92`); the model stops there.
* Accessors, comparisons and conversions of `result`, traits, error categories.

## 6. Plan

Done, in the order of importance: Command, Parallel, LinuxRun, IntrusiveList,
Win32Run, Loop with the context of `write_all`, ContinueWith,
Task, Fiber, and the theorems of all of them. Left:

1. A composition in which the children of one combinator are those of another
   module (a loop in a parallel). `KeepsOwnersSide` and the refinements discharge
   both sides of the contract module by module; the composition would discharge
   them together.
2. Properties for the hazards of `PROJECT.json` that have none yet, where a
   model of the system call or of the arithmetic says something.

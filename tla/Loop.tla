-------------------------------- MODULE Loop --------------------------------
(***************************************************************************)
(* aw::loop (src/src/loop_impl.h) as write_all uses it                     *)
(* (src/src/stream.cpp): a command that asks start(ctx) for a task, runs   *)
(* it, hands its value to update(ctx, value) and goes round until start    *)
(* returns an empty task or a result is an error.  Here the task writes    *)
(* some of the bytes that are left and its value is how many.  The         *)
(* coroutine is resumed from five places: loop itself, its handler for a   *)
(* failed allocation, and start, cancel, dismiss and on_completion of      *)
(* cmd2.  A step is one call the code makes, so "at" says what the         *)
(* function on the stack does next.                                        *)
(***************************************************************************)
EXTENDS Naturals

CONSTANTS Cmd,      \* the commands write_any and their answers may bring
          MaxSize,  \* bound: the bytes given to write_all
          Null

ASSUME CmdAssumption == Null \notin Cmd
ASSUME SizeAssumption == MaxSize \in Nat

VARIABLES phase,   \* of cmd2, as in module Command
          told,    \* how many answers cmd2 has given
          handler, \* the function on the stack, or "none"
          at,      \* what it does next
          state,   \* coroutine::state
          cmd,     \* coroutine::cmd
          r,       \* coroutine::r, "none" where it is not constructed
          count,   \* the value in r
          res,     \* coroutine::res, likewise
          pos,     \* where ctx.buf points, from the first byte
          size,    \* ctx.size
          child,   \* per command, the phases of module Command
          out,     \* per byte, how often the stream has written it (history)
          failed,  \* a task has come to an error (history)
          fault    \* what stopped the program, or "none"

cmd2Vars == <<phase, told>>
coroVars == <<state, cmd, r, count, res>>
ctxVars == <<pos, size>>
worldVars == <<child, out, failed>>
vars == <<cmd2Vars, handler, at, coroVars, ctxVars, worldVars, fault>>

Outcome == {"value", "error"}
Byte == 1..MaxSize

TypeOK ==
  /\ phase \in {"unborn", "fresh", "pending", "gone"}
  /\ told \in Nat
  /\ handler \in {"none", "loop", "bad_alloc", "start", "cancel", "dismiss",
                  "complete", "finished"}
  /\ at \in {"begin", "resume", "child", "end"}
  /\ state \in {"init", "awaiting_cmd", "done"}
  /\ cmd \in Cmd \cup {Null}
  /\ at = "child" => cmd # Null
  /\ r \in Outcome \cup {"none"}
  /\ (at = "resume") <=> (r # "none")
  /\ count \in 0..MaxSize
  /\ res \in Outcome \cup {"none"}
  /\ (state = "done") <=> (res # "none")
  /\ pos \in 0..MaxSize /\ size \in 0..MaxSize
  /\ child \in [Cmd -> {"unborn", "fresh", "pending", "gone"}]
  /\ out \in [Byte -> Nat]
  /\ failed \in BOOLEAN
  /\ fault \in {"none", "update_escaped", "update_in_noexcept"}

Init ==
  /\ phase = "unborn" /\ told = 0
  /\ handler = "loop" /\ at = "begin"
  /\ state = "init" /\ cmd = Null
  /\ r = "none" /\ count = 0 /\ res = "none"
  /\ pos = 0 /\ size \in 0..MaxSize
  /\ child = [c \in Cmd |-> "unborn"]
  /\ out = [b \in Byte |-> 0]
  /\ failed = FALSE
  /\ fault = "none"

Running == fault = "none"
On(h, a) == Running /\ handler = h /\ at = a
Idle == Running /\ handler = "none"

-----------------------------------------------------------------------------
(* The stream: a task that was given ctx.buf and ctx.size has written n of *)
(* those bytes (a write of some writes at least one), or fails (n = 0).    *)

Counts == 0..size

Comes(n) ==
  /\ out' = [b \in Byte |-> IF b \in (pos + 1)..(pos + n) THEN out[b] + 1
                            ELSE out[b]]
  /\ failed' = (failed \/ n = 0)

(* r is constructed of what the task came to. *)
Construct(n) == /\ Comes(n)
                /\ r' = IF n = 0 THEN "error" ELSE "value"
                /\ count' = n
                /\ at' = "resume"

(* The command in cmd ended with it, and is destroyed. *)
ChildEnds == /\ child' = [child EXCEPT ![cmd] = "gone"]
             /\ cmd' = Null

(* Its answer is another command, which takes its place. *)
Succeeded(d) == /\ child[d] = "unborn"
                /\ child' = [child EXCEPT ![cmd] = "gone", ![d] = "fresh"]
                /\ cmd' = d

-----------------------------------------------------------------------------
(* coroutine::process.                                                     *)

Processing(a) == Running /\ handler # "none" /\ at = a

Done(o) == res' = o /\ state' = "done" /\ at' = "end"

(* start(ctx) returned an empty task: nothing is left to write. *)
StartEmpty ==
  /\ Processing("begin") /\ size = 0
  /\ Done("value")
  /\ UNCHANGED <<cmd2Vars, handler, cmd, r, count, ctxVars, worldVars, fault>>

(* start(ctx) returned command c.  process returns, and its caller turns   *)
(* to c: on_completion by entering start.                                  *)
StartCommand(c) ==
  /\ Processing("begin") /\ size # 0
  /\ child[c] = "unborn"
  /\ child' = [child EXCEPT ![c] = "fresh"]
  /\ cmd' = c
  /\ state' = "awaiting_cmd"
  /\ at' = IF handler = "loop" THEN "end" ELSE "child"
  /\ handler' = IF handler = "complete" THEN "start" ELSE handler
  /\ UNCHANGED <<cmd2Vars, r, count, res, ctxVars, out, failed, fault>>

(* start(ctx) returned a result, or threw. *)
StartResult(n) ==
  /\ Processing("begin") /\ size # 0
  /\ Construct(n)
  /\ UNCHANGED <<cmd2Vars, handler, state, cmd, res, ctxVars, child, fault>>

(* Mutant: update takes from the size alone.                               *)
UpdateKeepsBuffer == size' = size - count /\ UNCHANGED pos

DestroyR == r' = "none" /\ count' = 0

ResumeError ==
  /\ Processing("resume") /\ r = "error"
  /\ DestroyR
  /\ Done("error")
  /\ UNCHANGED <<cmd2Vars, handler, cmd, ctxVars, worldVars, fault>>

Update == pos' = pos + count /\ size' = size - count

ResumeValue ==
  /\ Processing("resume") /\ r = "value"
  /\ Update
  /\ DestroyR
  /\ at' = "begin"
  /\ UNCHANGED <<cmd2Vars, handler, state, cmd, res, worldVars, fault>>

(* update throws, as that of tcp_listen may.  Three of its callers are     *)
(* noexcept; the others let the exception out with r constructed, and      *)
(* on_completion with no command.                                          *)
UpdateThrows ==
  /\ Processing("resume") /\ r = "value"
  /\ fault' = IF handler \in {"start", "cancel", "dismiss"}
              THEN "update_in_noexcept" ELSE "update_escaped"
  /\ UNCHANGED <<cmd2Vars, handler, at, coroVars, ctxVars, worldVars>>

-----------------------------------------------------------------------------
(* aw::loop.                                                               *)

(* The coroutine is done before it met a command, or after there was no    *)
(* memory for cmd2: loop returns its result.                               *)
LoopReturnsResult ==
  /\ On("loop", "end") \/ On("bad_alloc", "end")
  /\ state = "done"
  /\ handler' = "finished"
  /\ UNCHANGED <<cmd2Vars, at, coroVars, ctxVars, worldVars, fault>>

LoopReturnsCommand ==
  /\ On("loop", "end") /\ state = "awaiting_cmd"
  /\ phase' = "fresh"
  /\ handler' = "none"
  /\ UNCHANGED <<told, at, coroVars, ctxVars, worldVars, fault>>

(* new cmd2 threw. *)
NoMemory ==
  /\ On("loop", "end") /\ state = "awaiting_cmd"
  /\ handler' = "bad_alloc"
  /\ at' = "child"
  /\ UNCHANGED <<cmd2Vars, coroVars, ctxVars, worldVars, fault>>

-----------------------------------------------------------------------------
(* cmd2: its owner calls, and the child it holds answers.                  *)

Enter(h) ==
  /\ Idle
  /\ handler' = h
  /\ at' = "child"
  /\ UNCHANGED <<cmd2Vars, coroVars, ctxVars, worldVars, fault>>

Dismiss == phase = "fresh" /\ Enter("dismiss")
Start == phase = "fresh" /\ Enter("start")
Cancel == phase = "pending" /\ Enter("cancel")

(* cmd.start returns an empty task: cmd2 waits.  It may have been called   *)
(* by the owner or at the end of on_completion.                            *)
ChildWaits ==
  /\ On("start", "child")
  /\ child' = [child EXCEPT ![cmd] = "pending"]
  /\ phase' = "pending"
  /\ handler' = "none"
  /\ at' = "end"
  /\ UNCHANGED <<told, coroVars, ctxVars, out, failed, fault>>

(* cmd.start, cmd.cancel or cmd.dismiss returns a result.  cancel meets a  *)
(* child that is pending the first time, and one that is fresh if process  *)
(* has replaced it.                                                        *)
ChildAnswers(n) ==
  /\ \E h \in {"start", "cancel", "dismiss", "bad_alloc"} : On(h, "child")
  /\ ChildEnds
  /\ Construct(n)
  /\ UNCHANGED <<cmd2Vars, handler, state, res, ctxVars, fault>>

(* command_ptr::start fetches a successor and starts it in its turn. *)
ChildSucceeded(d) ==
  /\ On("start", "child")
  /\ Succeeded(d)
  /\ UNCHANGED <<cmd2Vars, handler, at, state, r, count, res, ctxVars, out,
                 failed, fault>>

(* on_completion with a result. *)
Complete(n) ==
  /\ Idle /\ phase = "pending" /\ child[cmd] = "pending"
  /\ ChildEnds
  /\ handler' = "complete"
  /\ Construct(n)
  /\ UNCHANGED <<cmd2Vars, state, res, ctxVars, fault>>

(* Mutant: the successor is fetched and not started. *)
CompleteSuccessorUnstarted(d) ==
  /\ Idle /\ phase = "pending" /\ child[cmd] = "pending"
  /\ Succeeded(d)
  /\ UNCHANGED <<cmd2Vars, handler, at, state, r, count, res, ctxVars, out,
                 failed, fault>>

(* on_completion with a command: it is started. *)
CompleteSuccessor(d) ==
  /\ Idle /\ phase = "pending" /\ child[cmd] = "pending"
  /\ Succeeded(d)
  /\ handler' = "start"
  /\ at' = "child"
  /\ UNCHANGED <<cmd2Vars, state, r, count, res, ctxVars, out, failed, fault>>

(* Mutant: start tells the sink of the result it returns. *)
TellsTwice(h) == IF h = "start" THEN 2 ELSE IF h = "complete" THEN 1 ELSE 0

Tells(h) == IF h \in {"start", "complete"} THEN 1 ELSE 0

(* The coroutine is done: start answers, or tells the sink at the end of   *)
(* on_completion; cancel and dismiss return the result.  The owner deletes *)
(* cmd2.                                                                   *)
Return ==
  /\ \E h \in {"start", "complete", "cancel", "dismiss"} : On(h, "end")
  /\ state = "done"
  /\ phase' = "gone"
  /\ told' = told + Tells(handler)
  /\ handler' = "none"
  /\ UNCHANGED <<at, coroVars, ctxVars, worldVars, fault>>

Terminated == /\ ~Running \/ phase = "gone" \/ handler = "finished"
              /\ UNCHANGED vars

OnTheStack == \/ StartEmpty \/ ResumeError \/ ResumeValue \/ UpdateThrows
              \/ LoopReturnsResult \/ LoopReturnsCommand \/ NoMemory
              \/ ChildWaits \/ Return
              \/ \E n \in Counts : StartResult(n) \/ ChildAnswers(n)
              \/ \E c \in Cmd : StartCommand(c) \/ ChildSucceeded(c)

ChildCompletes == \/ \E n \in Counts : Complete(n)
                  \/ \E d \in Cmd : CompleteSuccessor(d)

Next == OnTheStack \/ ChildCompletes \/ Dismiss \/ Start \/ Cancel \/ Terminated

(* A function that was called goes on, and a child that waits answers. *)
Fairness == WF_vars(OnTheStack) /\ WF_vars(ChildCompletes)

Spec == Init /\ [][Next]_vars /\ Fairness

-----------------------------------------------------------------------------
(* Safety.                                                                 *)

(* The loop runs one command at a time: no other is alive, cmd2 and it are *)
(* fresh and pending together whenever no function is on the stack, and    *)
(* cmd2 is destroyed only when its coroutine is done (the assertion of     *)
(* ~coroutine).                                                            *)
OneCommandAtATime ==
  /\ TypeOK
  /\ {c \in Cmd : child[c] \in {"fresh", "pending"}} =
       IF cmd = Null THEN {} ELSE {cmd}
  /\ handler = "none" /\ phase \in {"fresh", "pending"} =>
       state = "awaiting_cmd" /\ child[cmd] = phase
  /\ phase = "gone" => state = "done" /\ cmd = Null

(* The bytes that the stream has written are the first ones of the buffer, *)
(* each exactly once, up to what the context and a result not yet handed   *)
(* to update say, whether the tasks came to their values in start(ctx), in *)
(* a start, a completion, a cancel or a dismiss; an error ends the loop    *)
(* and is its result, and a loop that ends well has written everything.    *)
EachByteOnce ==
  /\ \A b \in Byte : out[b] = IF b <= pos + count THEN 1 ELSE 0
  /\ failed <=> (r = "error" \/ res = "error")
  /\ res = "value" => size = 0

(* cmd2 keeps the contract of module Command. *)
LoopCommand == INSTANCE Command
ImplementsCommand == LoopCommand!Init /\ [][LoopCommand!Next]_<<phase, told>>

(* "assert(false);" (src/src/task.cpp:24, src/src/linux_run.cpp:66) and    *)
(* "assert(m_sink != nullptr);" (src/src/win32_timer.cpp:64): cancel is    *)
(* for commands that were started.                                         *)
OnlyStartedCancelled == On("cancel", "child") => child[cmd] = "pending"

-----------------------------------------------------------------------------
(* Liveness.                                                               *)

(* A loop that was started answers, if its tasks end and each writes       *)
(* something, unless an update threw.                                      *)
EventuallyAnswers ==
  (handler = "start" \/ phase = "pending") ~> (phase = "gone" \/ ~Running)

=============================================================================

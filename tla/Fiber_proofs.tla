---------------------------- MODULE Fiber_proofs ----------------------------
(***************************************************************************)
(* For any fibers and other commands, however deep the fibers await one    *)
(* another: a fiber has a stack exactly while it is suspended or running,  *)
(* nothing that a function awaits is left behind, the data that a function *)
(* takes for its own never belong to another live fiber, and each fiber    *)
(* keeps the contract of module Command.                                   *)
(***************************************************************************)
EXTENDS Fiber, SequenceTheorems, TLAPS

(* The fibers of the handlers on a stack. *)
Stacked(s) == {s[i].fiber : i \in 1..Len(s)}

(* What a handler on the stack has to do with its fiber and with what the  *)
(* fiber awaits, given phases and awaited commands.                        *)
Fits(call, ph, aw) ==
  /\ ph[call.fiber] = IF call.mode = "start" THEN "fresh" ELSE "pending"
  /\ call.mode = "successor" => call.at = "await"
  /\ call.at = "cancel" => call.mode = "cancel"
  /\ aw[call.fiber] # Null <=> call.at \in {"await", "cancel"}
  /\ call.at = "await" => ph[aw[call.fiber]] = "fresh"
  /\ call.at = "cancel" => ph[aw[call.fiber]] = "pending"

(* A handler has been called from the awwait of the fiber that awaits its  *)
(* own: start from start and on_completion, cancel from cancel.            *)
Nests(outer, inner, aw) ==
  /\ aw[outer.fiber] = inner.fiber
  /\ \/ inner.mode = "start" /\ outer.at = "await" /\ outer.mode # "cancel"
     \/ inner.mode = "cancel" /\ outer.at = "cancel"

(* The owner starts and cancels only what no fiber awaits. *)
Outermost(call, aw) ==
  call.mode \in {"start", "cancel"} => \A f \in Fiber : aw[f] # call.fiber

(* No fiber is entered twice. *)
Distinct(s) == \A i, j \in 1..Len(s) : s[i].fiber = s[j].fiber => i = j

(* Nothing is cancelled from a start or an on_completion, nor started from *)
(* a cancel.                                                               *)
Uniform(s) ==
  \A i, j \in 1..Len(s) : s[i].mode = "cancel" => s[j].mode = "cancel"

Stack(s, ph, aw) ==
  /\ Distinct(s)
  /\ Uniform(s)
  /\ \A i \in 1..Len(s) : Fits(s[i], ph, aw)
  /\ \A i \in 1..Len(s) : i # Len(s) => Nests(s[i + 1], s[i], aw)
  /\ s # <<>> => Outermost(s[Len(s)], aw)

(* A fiber whose handlers have all returned awaits a pending command, or   *)
(* is not pending itself.                                                  *)
Suspended ==
  \A f \in Fiber \ Stacked(calls) :
    IF phase[f] = "pending"
    THEN awaited[f] # Null /\ phase[awaited[f]] = "pending"
    ELSE awaited[f] = Null

Exclusive ==
  \A f, g \in Fiber : awaited[f] = awaited[g] /\ awaited[f] # Null => f = g

LeavesAwaited ==
  \A c \in Leaf : phase[c] \in {"fresh", "pending"} =>
                    \E f \in Fiber : awaited[f] = c

Contexts ==
  \A f \in Fiber :
    context[f] = "live" <=> f \in Stacked(calls) \/ phase[f] = "pending"

(* Whatever the innermost handler is about to do, not only while the       *)
(* function runs, and on either system.  An on_completion that starts a    *)
(* successor sets g_cur_fiber_data before it goes on.                      *)
CurrentData ==
  calls # <<>> /\ calls[1].mode # "successor" =>
    cur = calls[1].fiber \/ (cur # Null /\ phase[cur] = "gone")

(* The types; Fits says the rest of TypeOK. *)
Types ==
  /\ os \in {"linux", "win32"}
  /\ cur \in Fiber \cup {Null}
  /\ calls \in Seq(Call)
  /\ phase \in [Cmd -> {"unborn", "fresh", "pending", "gone"}]
  /\ told \in [Fiber -> Nat]
  /\ awaited \in [Fiber -> Cmd \cup {Null}]
  /\ context \in [Fiber -> {"none", "live", "freed"}]
  /\ fault \in {"none", "wrong_fiber"}

IInv == /\ Types
        /\ Stack(calls, phase, awaited)
        /\ Suspended /\ Exclusive /\ LeavesAwaited
        /\ Contexts /\ CurrentData

(* p is s with handler e entered, or with its innermost one become e.      *)
Entered(p, e, s) == p = <<e>> \o s
Changed(p, e, s) == p = <<e>> \o Tail(s)

(* With the phases ph2 and the awaited commands aw2 the handlers of s, but *)
(* that of fiber g, have what they had, and none of them comes to be       *)
(* awaited.                                                                *)
Undisturbed(s, g, ph, aw, ph2, aw2) ==
  /\ \A f \in Stacked(s) \ {g} :
       /\ ph2[f] = ph[f] /\ aw2[f] = aw[f]
       /\ aw[f] # Null => ph2[aw[f]] = ph[aw[f]]
  /\ \A f \in Fiber : aw2[f] \in Stacked(s) => aw2[f] = aw[f]

-----------------------------------------------------------------------------
(* Stacks.                                                                 *)

(* Fibers and leaves are commands, no command is both, and none is null. *)
LEMMA Commands ==
  /\ \A f \in Fiber : f \in Cmd /\ f # Null /\ f \notin Leaf
  /\ \A c \in Leaf : c \in Cmd
  /\ \A c \in Cmd : c # Null
  /\ \A call \in Call : call.fiber \in Fiber
BY CmdAssumption DEF Cmd, Call

(* The handlers of a stack, its innermost one and its outermost one. *)
LEMMA Elements ==
  ASSUME NEW s \in Seq(Call)
  PROVE  /\ Len(s) \in Nat /\ DOMAIN s = 1..Len(s)
         /\ \A i \in 1..Len(s) : s[i] \in Call /\ s[i].fiber \in Stacked(s)
         /\ Stacked(s) \subseteq Fiber
         /\ s # <<>> => /\ 1 \in 1..Len(s) /\ Len(s) \in 1..Len(s)
                        /\ Head(s) = s[1]
         /\ s = <<>> => Stacked(s) = {} /\ Len(s) = 0
<1>1. /\ Len(s) \in Nat /\ DOMAIN s = 1..Len(s)
      /\ \A i \in 1..Len(s) : s[i] \in Call
  OBVIOUS
<1>2. s # <<>> => 1 \in 1..Len(s) /\ Len(s) \in 1..Len(s) /\ Head(s) = s[1]
  OBVIOUS
<1>3. s = <<>> => Stacked(s) = {} /\ Len(s) = 0
  BY DEF Stacked
<1> QED
  BY <1>1, <1>2, <1>3, Commands DEF Stacked

(* A handler is entered. *)
LEMMA Pushed ==
  ASSUME NEW s \in Seq(Call), NEW e \in Call, NEW p, Entered(p, e, s)
  PROVE  /\ p \in Seq(Call) /\ p # <<>> /\ Len(p) = Len(s) + 1 /\ p[1] = e
         /\ \A i \in 1..Len(s) : p[i + 1] = s[i]
         /\ \A i \in 2..Len(p) : p[i] = s[i - 1]
         /\ Stacked(p) = Stacked(s) \cup {e.fiber}
<1>1. p \in Seq(Call) /\ Len(p) = Len(s) + 1 /\ Len(s) \in Nat
  BY DEF Entered
<1>2. p[1] = e /\ \A i \in 1..Len(s) : p[i + 1] = s[i]
  BY DEF Entered
<1>3. \A i \in 2..Len(p) : i - 1 \in 1..Len(s) /\ (i - 1) + 1 = i
  BY <1>1
<1>4. \A i \in 2..Len(p) : p[i] = s[i - 1]
  BY <1>2, <1>3
<1>5. p # <<>>
  BY <1>1
<1>6. Stacked(p) = Stacked(s) \cup {e.fiber}
  <2>1. \A i \in 1..Len(p) : i = 1 \/ i \in 2..Len(p)
    BY <1>1
  <2>2. Stacked(p) \subseteq Stacked(s) \cup {e.fiber}
    BY <1>2, <1>3, <1>4, <2>1 DEF Stacked
  <2>3. 1 \in 1..Len(p) /\ \A i \in 1..Len(s) : i + 1 \in 1..Len(p)
    BY <1>1
  <2>4. Stacked(s) \cup {e.fiber} \subseteq Stacked(p)
    BY <1>2, <2>3 DEF Stacked
  <2> QED
    BY <2>2, <2>4
<1> QED
  BY <1>1, <1>2, <1>4, <1>5, <1>6

(* A handler returns. *)
LEMMA Popped ==
  ASSUME NEW s \in Seq(Call), s # <<>>, NEW t, t = Tail(s)
  PROVE  /\ t \in Seq(Call) /\ Len(t) = Len(s) - 1
         /\ \A i \in 1..Len(t) : t[i] = s[i + 1]
<1>1. Len(s) \in Nat \ {0} /\ t \in Seq(Call) /\ Len(t) = Len(s) - 1
  OBVIOUS
<1> QED
  BY <1>1

(* The innermost handler goes on. *)
LEMMA Replaced ==
  ASSUME NEW s \in Seq(Call), s # <<>>, NEW e \in Call,
         NEW p, Changed(p, e, s)
  PROVE  /\ p \in Seq(Call) /\ p # <<>> /\ Len(p) = Len(s) /\ p[1] = e
         /\ \A i \in 2..Len(s) : p[i] = s[i]
         /\ e.fiber = s[1].fiber => Stacked(p) = Stacked(s)
<1> DEFINE t == Tail(s)
<1>1. /\ t \in Seq(Call) /\ Len(t) = Len(s) - 1 /\ Len(s) \in Nat \ {0}
      /\ \A i \in 1..Len(t) : t[i] = s[i + 1]
  BY Popped
<1> HIDE DEF t
<1>2. /\ p \in Seq(Call) /\ p # <<>> /\ Len(p) = Len(t) + 1 /\ p[1] = e
      /\ \A i \in 2..Len(p) : p[i] = t[i - 1]
  <2>1. Entered(p, e, t)
    BY DEF Entered, Changed, t
  <2> QED
    BY <1>1, <2>1, Pushed
<1>3. ASSUME NEW i \in 2..Len(s)
      PROVE  p[i] = s[i]
  <2>1. i - 1 \in 1..Len(t) /\ (i - 1) + 1 = i /\ i \in 2..Len(p)
    BY <1>1, <1>2
  <2> QED
    BY <1>1, <1>2, <2>1
<1>4. ASSUME e.fiber = s[1].fiber
      PROVE  Stacked(p) = Stacked(s)
  <2>1. Len(p) = Len(s) /\ \A i \in 1..Len(s) : i = 1 \/ i \in 2..Len(s)
    BY <1>1, <1>2
  <2>2. \A i \in 1..Len(s) : p[i].fiber = s[i].fiber
    BY <1>2, <1>3, <1>4, <2>1
  <2> QED
    BY <2>1, <2>2 DEF Stacked
<1> QED
  BY <1>1, <1>2, <1>3, <1>4

(* The handlers further out are a stack by themselves. *)
LEMMA TailIsStack ==
  ASSUME NEW s \in Seq(Call), s # <<>>, NEW ph, NEW aw, Stack(s, ph, aw),
         NEW t, t = Tail(s)
  PROVE  /\ Stack(t, ph, aw)
         /\ Stacked(t) = Stacked(s) \ {s[1].fiber}
         /\ t # <<>> => Nests(t[1], s[1], aw)
<1>1. /\ t \in Seq(Call) /\ Len(t) = Len(s) - 1
      /\ \A i \in 1..Len(t) : t[i] = s[i + 1]
      /\ Len(s) \in Nat /\ Len(s) # 0 /\ Len(t) \in Nat
  BY Popped, Elements
<1> DEFINE n == Len(t)
<1>10. n \in Nat /\ Len(s) = n + 1 /\ Len(t) = n
  BY <1>1
<1> HIDE DEF n
<1>2. \A i \in 1..Len(t) : i + 1 \in 1..Len(s) /\ i + 1 # 1
  BY <1>1
<1>3. Distinct(t)
  <2>1. ASSUME NEW i \in 1..Len(t), NEW j \in 1..Len(t), t[i].fiber = t[j].fiber
        PROVE  i = j
    <3>1. i + 1 = j + 1
      BY <1>1, <1>2, <2>1 DEF Stack, Distinct
    <3> QED
      BY <1>1, <3>1
  <2> QED
    BY <2>1 DEF Distinct
<1>4. Uniform(t)
  <2>1. ASSUME NEW i \in 1..Len(t), NEW j \in 1..Len(t), t[i].mode = "cancel"
        PROVE  t[j].mode = "cancel"
    <3>1. /\ t[i] = s[i + 1] /\ t[j] = s[j + 1]
          /\ i + 1 \in 1..Len(s) /\ j + 1 \in 1..Len(s)
      BY <1>1, <1>2
    <3> QED
      BY <2>1, <3>1 DEF Stack, Uniform
  <2> QED
    BY <2>1 DEF Uniform
<1>5. \A i \in 1..Len(t) : Fits(t[i], ph, aw)
  BY <1>1, <1>2 DEF Stack
<1>6. ASSUME NEW i \in 1..Len(t), i # Len(t)
      PROVE  Nests(t[i + 1], t[i], aw)
  <2>1. i + 1 \in 1..Len(t) /\ i + 1 \in 1..Len(s) /\ i + 1 # Len(s)
    BY <1>6, <1>10
  <2>2. Nests(s[(i + 1) + 1], s[i + 1], aw)
    BY <2>1 DEF Stack
  <2> QED
    BY <1>1, <2>1, <2>2
<1>7. t # <<>> => Outermost(t[Len(t)], aw)
  <2>1. t # <<>> => Len(t) \in 1..Len(t) /\ Len(t) + 1 = Len(s)
    BY <1>1, Elements
  <2> QED
    BY <1>1, <2>1 DEF Stack
<1>8. Stacked(t) = Stacked(s) \ {s[1].fiber}
  <2>1. ASSUME NEW i \in 1..Len(t)
        PROVE  s[i + 1].fiber # s[1].fiber
    <3>1. i + 1 \in 1..Len(s) /\ 1 \in 1..Len(s) /\ i + 1 # 1
      BY <1>10
    <3> QED
      BY <3>1 DEF Stack, Distinct
  <2>2. Stacked(t) \subseteq Stacked(s) \ {s[1].fiber}
    BY <1>1, <1>2, <2>1 DEF Stacked
  <2>3. ASSUME NEW i \in 1..Len(s), i # 1
        PROVE  s[i].fiber \in Stacked(t)
    <3>1. i - 1 \in 1..Len(t) /\ (i - 1) + 1 = i
      BY <1>10, <2>3
    <3>2. t[i - 1] = s[i]
      BY <1>1, <3>1
    <3> QED
      BY <3>1, <3>2 DEF Stacked
  <2> QED
    BY <2>2, <2>3 DEF Stacked
<1>9. t # <<>> => Nests(t[1], s[1], aw)
  <2>1. t # <<>> => 1 \in 1..Len(t) /\ 1 \in 1..Len(s) /\ 1 # Len(s)
    BY <1>1, Elements
  <2> QED
    BY <1>1, <2>1 DEF Stack
<1> QED
  BY <1>3, <1>4, <1>5, <1>6, <1>7, <1>8, <1>9 DEF Stack

(* The handler on top of a stack changes to e, and with it phases and      *)
(* awaited commands that no handler further out depends on.                *)
LEMMA HeadChanges ==
  ASSUME NEW s \in Seq(Call), s # <<>>, NEW ph, NEW aw, Stack(s, ph, aw),
         NEW e \in Call, e.fiber = s[1].fiber,
         (e.mode = "cancel") <=> (s[1].mode = "cancel"),
         (e.mode = "start") <=> (s[1].mode = "start"),
         NEW p, Changed(p, e, s), NEW ph2, NEW aw2, Fits(e, ph2, aw2),
         Undisturbed(s, e.fiber, ph, aw, ph2, aw2)
  PROVE  Stack(p, ph2, aw2)
<1> USE DEF Undisturbed
<1>1. /\ p \in Seq(Call) /\ p # <<>> /\ Len(p) = Len(s) /\ p[1] = e
      /\ \A i \in 2..Len(s) : p[i] = s[i]
  BY Replaced
<1> DEFINE n == Len(s)
<1>2. /\ Len(s) = n /\ n \in Nat /\ n # 0 /\ Len(p) = n
      /\ \A i \in 1..n : s[i] \in Call /\ s[i].fiber \in Stacked(s)
  BY <1>1, Elements
<1> HIDE DEF n
<1>3. \A i \in 1..n : /\ p[i].fiber = s[i].fiber
                      /\ (p[i].mode = "cancel") <=> (s[i].mode = "cancel")
                      /\ (p[i].mode = "start") <=> (s[i].mode = "start")
  <2>1. \A i \in 1..n : i = 1 \/ i \in 2..n
    BY <1>2
  <2> QED
    BY <1>1, <1>2, <2>1
<1>4. Distinct(p)
  BY <1>2, <1>3 DEF Stack, Distinct
<1>5. Uniform(p)
  BY <1>2, <1>3 DEF Stack, Uniform
<1>6. ASSUME NEW i \in 1..n, i # 1
      PROVE  /\ s[i].fiber \in Stacked(s) \ {e.fiber}
             /\ p[i] = s[i] /\ aw2[p[i].fiber] = aw[s[i].fiber]
             /\ Fits(p[i], ph2, aw2)
  <2>1. s[i].fiber # s[1].fiber
    <3>1. 1 \in 1..n
      BY <1>2
    <3> QED
      BY <1>2, <1>6, <3>1 DEF Stack, Distinct
  <2>2. p[i] = s[i] /\ Fits(s[i], ph, aw)
    <3>1. i \in 2..n
      BY <1>2, <1>6
    <3> QED
      BY <1>1, <1>2, <3>1 DEF Stack
  <2>3. s[i].fiber \in Stacked(s) \ {e.fiber}
    BY <1>2, <2>1
  <2>4. /\ ph2[s[i].fiber] = ph[s[i].fiber] /\ aw2[s[i].fiber] = aw[s[i].fiber]
        /\ aw[s[i].fiber] # Null => ph2[aw[s[i].fiber]] = ph[aw[s[i].fiber]]
    BY <2>3
  <2>5. Fits(s[i], ph2, aw2)
    BY <2>2, <2>4 DEF Fits
  <2> QED
    BY <2>2, <2>3, <2>4, <2>5
<1>7. \A i \in 1..Len(p) : Fits(p[i], ph2, aw2)
  BY <1>1, <1>2, <1>6
<1>8. ASSUME NEW i \in 1..Len(p), i # Len(p)
      PROVE  Nests(p[i + 1], p[i], aw2)
  <2>1. i \in 1..n /\ i # n /\ i + 1 \in 1..n /\ i + 1 # 1
    BY <1>2, <1>8
  <2>2. Nests(s[i + 1], s[i], aw)
    BY <1>2, <2>1 DEF Stack
  <2>3. p[i + 1] = s[i + 1] /\ aw2[p[i + 1].fiber] = aw[s[i + 1].fiber]
    BY <1>6, <2>1
  <2> QED
    BY <1>3, <2>1, <2>2, <2>3 DEF Nests
<1>9. Outermost(p[Len(p)], aw2)
  <2>1. /\ n \in 1..n /\ Len(p) = n /\ s[n].fiber \in Stacked(s)
        /\ Outermost(s[n], aw)
    BY <1>2 DEF Stack
  <2>2. /\ p[n].fiber = s[n].fiber
        /\ p[n].mode \in {"start", "cancel"} <=> s[n].mode \in {"start", "cancel"}
    BY <1>3, <2>1
  <2> QED
    BY <2>1, <2>2 DEF Outermost
<1> QED
  BY <1>4, <1>5, <1>7, <1>8, <1>9 DEF Stack

(* A handler is entered, from the innermost one or by the owner. *)
LEMMA PushedStack ==
  ASSUME NEW s \in Seq(Call), NEW ph, NEW aw, Stack(s, ph, aw),
         NEW e \in Call, Fits(e, ph, aw), e.fiber \notin Stacked(s),
         s # <<>> => Nests(s[1], e, aw),
         s = <<>> => Outermost(e, aw),
         NEW p, Entered(p, e, s)
  PROVE  Stack(p, ph, aw)
<1> DEFINE n == Len(s)
<1>1. /\ p # <<>> /\ p[1] = e
      /\ \A i \in 2..Len(p) : p[i] = s[i - 1]
  BY Pushed
<1>2. Len(p) = n + 1 /\ Len(s) = n /\ n \in Nat /\ (s = <<>> <=> n = 0)
  BY Pushed, Elements
<1> HIDE DEF n
<1>3. ASSUME NEW i \in 1..(n + 1), i # 1
      PROVE  /\ i - 1 \in 1..n /\ p[i] = s[i - 1]
             /\ s[i - 1].fiber \in Stacked(s) /\ p[i].fiber # e.fiber
             /\ Fits(p[i], ph, aw)
  <2>1. i - 1 \in 1..n /\ i \in 2..Len(p)
    BY <1>2, <1>3
  <2>2. p[i] = s[i - 1] /\ s[i - 1].fiber \in Stacked(s)
    BY <1>1, <1>2, <2>1, Elements
  <2>3. Fits(s[i - 1], ph, aw)
    BY <1>2, <2>1 DEF Stack
  <2> QED
    BY <2>1, <2>2, <2>3
<1>4. Distinct(p)
  <2>1. ASSUME NEW i \in 1..(n + 1), NEW j \in 1..(n + 1), p[i].fiber = p[j].fiber
        PROVE  i = j
    <3>1. CASE i = 1 \/ j = 1
      BY <1>1, <1>3, <2>1, <3>1
    <3>2. CASE i # 1 /\ j # 1
      <4>1. i - 1 = j - 1
        BY <1>2, <1>3, <2>1, <3>2 DEF Stack, Distinct
      <4> QED
        BY <1>2, <4>1
    <3> QED
      BY <3>1, <3>2
  <2> QED
    BY <1>2, <2>1 DEF Distinct
<1>5. Uniform(p)
  <2>1. ASSUME s # <<>>
        PROVE  (e.mode = "cancel") <=> (s[1].mode = "cancel")
    <3>1. 1 \in 1..n
      BY <1>2, <2>1
    <3>2. Fits(s[1], ph, aw)
      BY <1>2, <3>1 DEF Stack
    <3> QED
      BY <2>1, <3>2 DEF Nests, Fits
  <2>2. ASSUME NEW i \in 1..(n + 1)
        PROVE  (p[i].mode = "cancel") <=> (e.mode = "cancel")
    <3>1. CASE i = 1
      BY <1>1, <3>1
    <3>2. CASE i # 1
      <4>1. i - 1 \in 1..n /\ 1 \in 1..n /\ s # <<>> /\ p[i] = s[i - 1]
        BY <1>2, <1>3, <3>2
      <4> QED
        BY <1>2, <2>1, <4>1 DEF Stack, Uniform
    <3> QED
      BY <3>1, <3>2
  <2> QED
    BY <1>2, <2>2 DEF Uniform
<1>6. \A i \in 1..Len(p) : Fits(p[i], ph, aw)
  BY <1>1, <1>2, <1>3
<1>7. ASSUME NEW i \in 1..Len(p), i # Len(p)
      PROVE  Nests(p[i + 1], p[i], aw)
  <2>1. /\ i \in 1..(n + 1) /\ i + 1 \in 1..(n + 1) /\ i + 1 # 1
        /\ (i + 1) - 1 = i /\ n # 0
    BY <1>2, <1>7
  <2>2. p[i + 1] = s[i]
    BY <1>3, <2>1
  <2>3. CASE i = 1
    BY <1>1, <1>2, <2>1, <2>2, <2>3
  <2>4. CASE i # 1
    <3>1. i - 1 \in 1..n /\ p[i] = s[i - 1]
      BY <1>3, <2>1, <2>4
    <3>2. i - 1 # n /\ (i - 1) + 1 = i
      BY <1>2, <1>7
    <3>3. Nests(s[(i - 1) + 1], s[i - 1], aw)
      BY <1>2, <3>1, <3>2 DEF Stack
    <3> QED
      BY <2>2, <3>1, <3>2, <3>3
  <2> QED
    BY <2>3, <2>4
<1>8. Outermost(p[Len(p)], aw)
  <2>1. CASE n = 0
    BY <1>1, <1>2, <2>1
  <2>2. CASE n # 0
    <3>1. n + 1 \in 1..(n + 1) /\ n + 1 # 1 /\ (n + 1) - 1 = n
      BY <1>2, <2>2
    <3>2. p[n + 1] = s[n]
      BY <1>3, <3>1
    <3> QED
      BY <1>2, <2>2, <3>2 DEF Stack
  <2> QED
    BY <2>1, <2>2
<1> QED
  BY <1>1, <1>4, <1>5, <1>6, <1>7, <1>8 DEF Stack

-----------------------------------------------------------------------------
(* What the invariant says of what is awaited.                             *)

(* Every handler on the stack does what the invariant says of it. *)
LEMMA Handlers ==
  ASSUME IInv
  PROVE  /\ calls \in Seq(Call) /\ Stacked(calls) \subseteq Fiber
         /\ \A i \in 1..Len(calls) : /\ Fits(calls[i], phase, awaited)
                                     /\ calls[i] \in Call
                                     /\ calls[i].fiber \in Stacked(calls)
         /\ calls # <<>> => /\ 1 \in 1..Len(calls) /\ Top = calls[1]
                            /\ Top \in Call /\ Fits(Top, phase, awaited)
                            /\ Top.fiber \in Stacked(calls) /\ Top.fiber \in Fiber
         /\ calls = <<>> => Stacked(calls) = {}
<1>1. calls \in Seq(Call)
  BY DEF IInv, Types
<1> QED
  BY <1>1, Elements DEF IInv, Stack, Top

(* No command that is awaited has ended, nor has a fiber that awaits. *)
LEMMA AwaitedAlive ==
  ASSUME IInv, NEW f \in Fiber, awaited[f] # Null
  PROVE  /\ awaited[f] \in Cmd
         /\ phase[awaited[f]] \in {"fresh", "pending"}
         /\ phase[f] \in {"fresh", "pending"}
<1>1. awaited[f] \in Cmd
  BY DEF IInv, Types
<1>2. CASE f \in Stacked(calls)
  <2>1. PICK i \in 1..Len(calls) : calls[i].fiber = f
    BY <1>2 DEF Stacked
  <2>2. Fits(calls[i], phase, awaited)
    BY Handlers
  <2> QED
    BY <1>1, <2>1, <2>2 DEF Fits
<1>3. CASE f \notin Stacked(calls)
  BY <1>1, <1>3 DEF IInv, Suspended
<1> QED
  BY <1>2, <1>3

(* What the innermost handler awaits is not running further out. *)
LEMMA AwaitedNotStacked ==
  ASSUME IInv, calls # <<>>, awaited[Top.fiber] # Null
  PROVE  awaited[Top.fiber] \notin Stacked(calls)
<1> SUFFICES ASSUME NEW i \in 1..Len(calls), calls[i].fiber = awaited[Top.fiber]
             PROVE  FALSE
  BY DEF Stacked
<1> DEFINE n == Len(calls)
<1>1. /\ n \in Nat /\ Len(calls) = n /\ 1 \in 1..n
      /\ Top = calls[1] /\ Top.fiber \in Fiber /\ Fits(Top, phase, awaited)
  BY Handlers, Elements
<1> HIDE DEF n
<1>2. /\ Fits(calls[i], phase, awaited)
      /\ Outermost(calls[n], awaited)
      /\ i # n => Nests(calls[i + 1], calls[i], awaited)
  BY <1>1 DEF IInv, Stack
<1>3. CASE i = n
  <2>1. calls[i].mode \notin {"start", "cancel"}
    BY <1>1, <1>2, <1>3 DEF Outermost
  <2>2. phase[calls[i].fiber] = "pending"
    BY <1>2, <2>1 DEF Fits
  <2>3. Top.mode = "cancel"
    BY <1>1, <2>2 DEF Fits
  <2> QED
    BY <1>1, <2>1, <2>3 DEF IInv, Stack, Uniform
<1>4. CASE i # n
  <2>1. i + 1 \in 1..n /\ i + 1 # 1
    BY <1>1, <1>4
  <2>2. /\ calls[i + 1].fiber \in Fiber
        /\ awaited[calls[i + 1].fiber] = awaited[Top.fiber]
    BY <1>1, <1>2, <1>4, <2>1, Handlers DEF Nests
  <2>3. calls[i + 1].fiber = calls[1].fiber
    BY <1>1, <2>2 DEF IInv, Exclusive
  <2> QED
    BY <1>1, <2>1, <2>3 DEF IInv, Stack, Distinct
<1> QED
  BY <1>3, <1>4

-----------------------------------------------------------------------------
(* The steps.                                                              *)

(* Command c has answered its awwait, either by itself or as the fiber of  *)
(* the innermost handler, which returns; s are the handlers that are left. *)
LEMMA GoesOnPreserves ==
  ASSUME IInv, NEW c \in Cmd, NEW s, s # <<>>, calls # <<>>,
         \/ s = calls /\ (c \in Leaf \/ phase[c] = "fresh") /\ UNCHANGED context
         \/ /\ s = Tail(calls) /\ Top.fiber = c /\ Top.at = "ended"
            /\ context' = StackFreed(c),
         awaited[s[1].fiber] = c,
         phase' = [phase EXCEPT ![c] = "gone"],
         GoOn(s), told' \in [Fiber -> Nat], UNCHANGED <<os, fault>>
  PROVE  IInv'
<1> DEFINE o == s[1]
           e == Resumed(o)
<1>1. /\ s \in Seq(Call) /\ Stack(s, phase, awaited)
      /\ Stacked(s) = Stacked(calls) \ {c}
  <2>1. CASE s = calls
    <3>1. c \notin Stacked(calls)
      BY <2>1, AwaitedNotStacked, Handlers, Commands
    <3> QED
      BY <2>1, <3>1, Handlers DEF IInv
  <2>2. CASE s = Tail(calls) /\ Top.fiber = c
    <3>1. calls \in Seq(Call) /\ calls[1].fiber = c
      BY <2>2, Handlers
    <3> QED
      BY <2>2, <3>1, TailIsStack, Popped DEF IInv
  <2> QED
    BY <2>1, <2>2
<1>2. /\ o \in Call /\ o.fiber \in Stacked(s)
      /\ o.fiber \in Fiber /\ o.fiber \in Cmd
      /\ o.fiber # c /\ c # Null /\ o.fiber # Null /\ Head(s) = o
      /\ Fits(o, phase, awaited)
  BY <1>1, Elements, Commands DEF Stack
<1>3. /\ e \in Call /\ e.fiber = o.fiber /\ e.at = "body"
      /\ e.mode = IF o.mode = "successor" THEN "resume" ELSE o.mode
      /\ o.mode \in {"start", "resume", "cancel", "successor"}
  BY <1>2 DEF Resumed, Enter, Call
<1>4. /\ calls' = <<e>> \o Tail(s) /\ cur' = CurWhenResumed(o)
      /\ awaited' = [awaited EXCEPT ![o.fiber] = Null]
  BY <1>2 DEF GoOn
<1> HIDE DEF e
<1>5. /\ calls' \in Seq(Call) /\ calls'[1] = e /\ Stacked(calls') = Stacked(s)
  <2>1. s \in Seq(Call) /\ e \in Call /\ e.fiber = s[1].fiber
    BY <1>1, <1>3
  <2>2. Changed(calls', e, s)
    BY <1>4 DEF Changed
  <2> HIDE DEF o
  <2> QED
    BY <2>1, <2>2, Replaced
<1>6. /\ \A d \in Cmd \ {c} : phase'[d] = phase[d]
      /\ phase'[c] = "gone"
      /\ \A f \in Fiber \ {o.fiber} : awaited'[f] = awaited[f] /\ awaited[f] # c
      /\ awaited'[o.fiber] = Null /\ awaited[o.fiber] = c
      /\ phase' \in [Cmd -> {"unborn", "fresh", "pending", "gone"}]
      /\ awaited' \in [Fiber -> Cmd \cup {Null}]
      /\ awaited \in [Fiber -> Cmd \cup {Null}]
  <2>1. /\ phase \in [Cmd -> {"unborn", "fresh", "pending", "gone"}]
        /\ awaited \in [Fiber -> Cmd \cup {Null}]
    BY DEF IInv, Types
  <2>2. \A f \in Fiber \ {o.fiber} : awaited[f] # c
    BY <1>2 DEF IInv, Exclusive
  <2> QED
    BY <1>2, <1>4, <2>1, <2>2
<1>7. Types'
  <2>1. cur' \in Fiber \cup {Null}
    BY <1>2, <1>4 DEF CurWhenResumed, IInv, Types
  <2>2. context' \in [Fiber -> {"none", "live", "freed"}]
    BY DEF StackFreed, IInv, Types
  <2> QED
    BY <1>5, <1>6, <2>1, <2>2 DEF IInv, Types
<1>8. Stack(calls', phase', awaited')
  <2>1. Fits(e, phase', awaited')
    BY <1>2, <1>3, <1>6 DEF Fits
  <2>2. \A f \in Stacked(s) \ {e.fiber} :
          /\ phase'[f] = phase[f] /\ awaited'[f] = awaited[f]
          /\ awaited[f] # Null => phase'[awaited[f]] = phase[awaited[f]]
    <3>1. \A f \in Stacked(s) \ {e.fiber} :
            f \in Fiber \ {o.fiber} /\ f \in Cmd /\ f # c
      BY <1>1, <1>3, Handlers, Commands
    <3> QED
      BY <1>6, <3>1
  <2>3. \A f \in Fiber : awaited'[f] \in Stacked(s) => awaited'[f] = awaited[f]
    <3>1. Null \notin Stacked(s)
      BY <1>1, Handlers, Commands
    <3> QED
      BY <1>6, <3>1
  <2>4. /\ (e.mode = "cancel") <=> (o.mode = "cancel")
        /\ (e.mode = "start") <=> (o.mode = "start")
    BY <1>3
  <2>5. /\ s \in Seq(Call) /\ Stack(s, phase, awaited)
        /\ e \in Call /\ e.fiber = s[1].fiber
        /\ (e.mode = "cancel") <=> (s[1].mode = "cancel")
        /\ (e.mode = "start") <=> (s[1].mode = "start")
    BY <1>1, <1>3, <2>4
  <2>6. Changed(calls', e, s)
    BY <1>4 DEF Changed
  <2>7. Undisturbed(s, e.fiber, phase, awaited, phase', awaited')
    BY <2>2, <2>3 DEF Undisturbed
  <2> HIDE DEF o
  <2> QED
    BY <2>1, <2>5, <2>6, <2>7, HeadChanges
<1>9. Suspended'
  <2>1. ASSUME NEW f \in Fiber, f \notin Stacked(s)
        PROVE  IF phase'[f] = "pending"
               THEN awaited'[f] # Null /\ phase'[awaited'[f]] = "pending"
               ELSE awaited'[f] = Null
    <3>1. CASE f = c
      <4>1. CASE s = calls
        <5>1. f \notin Stacked(calls) /\ phase[f] = "fresh"
          BY <2>1, <3>1, <4>1, <1>2, <1>6, AwaitedAlive, Commands
        <5> QED
          BY <1>6, <3>1, <5>1, <1>2 DEF IInv, Suspended
      <4>2. CASE Top.fiber = c /\ Top.at = "ended"
        <5>1. awaited[c] = Null
          BY <4>2, Handlers DEF Fits
        <5> QED
          BY <1>2, <1>6, <3>1, <5>1
      <4> QED
        BY <4>1, <4>2
    <3>2. CASE f # c
      <4>1. f \notin Stacked(calls) /\ f \in Cmd /\ f # o.fiber
        BY <1>1, <1>2, <2>1, <3>2, Commands
      <4>2. phase'[f] = phase[f] /\ awaited'[f] = awaited[f] /\ awaited[f] # c
        BY <1>6, <3>2, <4>1
      <4> QED
        BY <1>6, <4>1, <4>2 DEF IInv, Suspended
    <3> QED
      BY <3>1, <3>2
  <2> QED
    BY <1>5, <2>1 DEF Suspended
<1>10. Exclusive'
  BY <1>6 DEF IInv, Exclusive
<1>11. LeavesAwaited'
  <2>1. ASSUME NEW d \in Leaf, phase'[d] \in {"fresh", "pending"}
        PROVE  \E f \in Fiber : awaited'[f] = d
    <3>1. d # c /\ d \in Cmd
      BY <1>6, <2>1, Commands
    <3>2. PICK f \in Fiber : awaited[f] = d
      BY <1>6, <2>1, <3>1 DEF IInv, LeavesAwaited
    <3>3. awaited'[f] = d
      BY <1>6, <3>1, <3>2
    <3> QED
      BY <3>3
  <2> QED
    BY <2>1 DEF LeavesAwaited
<1>12. Contexts'
  <2>1. ASSUME NEW f \in Fiber
        PROVE  (context'[f] = "live") <=>
                 f \in Stacked(s) \/ phase'[f] = "pending"
    <3>1. CASE f = c
      <4>1. f \notin Stacked(s) /\ phase'[f] = "gone"
        BY <1>1, <1>6, <3>1
      <4>2. CASE s = calls /\ UNCHANGED context
        <5>1. f \notin Stacked(calls) /\ phase[f] = "fresh"
          BY <3>1, <4>1, <4>2, <1>2, <1>6, AwaitedAlive, Commands
        <5> QED
          BY <4>1, <4>2, <5>1 DEF IInv, Contexts
      <4>3. CASE context' = StackFreed(c)
        BY <3>1, <4>1, <4>3 DEF StackFreed, IInv, Types
      <4> QED
        BY <4>2, <4>3
    <3>2. CASE f # c
      <4>1. context'[f] = context[f]
        BY <3>2 DEF StackFreed, IInv, Types
      <4>2. /\ f \in Cmd /\ phase'[f] = phase[f]
            /\ f \in Stacked(s) <=> f \in Stacked(calls)
        BY <1>1, <1>6, <3>2, Commands
      <4> QED
        BY <4>1, <4>2 DEF IInv, Contexts
    <3> QED
      BY <3>1, <3>2
  <2> QED
    BY <1>5, <2>1 DEF Contexts
<1>13. CurrentData'
  <2>1. CASE o.mode = "successor"
    BY <1>3, <1>4, <1>5, <2>1 DEF CurrentData, CurWhenResumed
  <2>2. CASE o.mode # "successor"
    <3>1. cur' = cur
      BY <1>4, <2>2 DEF CurWhenResumed
    <3>2. Top.mode # "successor" /\ (Top.fiber = o.fiber \/ Top.fiber = c)
      <4>1. CASE s = calls
        BY <2>2, <4>1, Handlers
      <4>2. CASE s = Tail(calls) /\ Top.fiber = c
        <5>1. Nests(o, calls[1], awaited)
          BY <4>2, Handlers, TailIsStack DEF IInv
        <5> QED
          BY <4>2, <5>1, Handlers DEF Nests
      <4> QED
        BY <4>1, <4>2
    <3>3. cur = Top.fiber \/ (cur # Null /\ phase[cur] = "gone")
      BY <3>2, Handlers DEF IInv, CurrentData
    <3>4. cur # Null => cur \in Cmd
      BY Commands DEF IInv, Types
    <3>5. cur # Null /\ phase[cur] = "gone" => phase'[cur] = "gone"
      BY <1>6, <3>4
    <3> QED
      BY <1>2, <1>3, <1>5, <1>6, <3>1, <3>2, <3>3, <3>5 DEF CurrentData
  <2> QED
    BY <2>1, <2>2
<1> QED
  BY <1>7, <1>8, <1>9, <1>10, <1>11, <1>12, <1>13 DEF IInv

(* No handler on the stack. *)
LEMMA EmptyStack ==
  Stacked(<<>>) = {} /\ \A ph, aw : Stack(<<>>, ph, aw)
BY DEF Stacked, Stack, Distinct, Uniform

(* Nothing has been made. *)
LEMMA InitEstablishes ==
  Init => IInv
<1> SUFFICES ASSUME Init PROVE IInv
  OBVIOUS
<1>1. Types
  BY DEF Init, Types
<1>2. Stack(calls, phase, awaited) /\ Stacked(calls) = {}
  BY EmptyStack DEF Init
<1>3. Suspended /\ Exclusive /\ LeavesAwaited /\ Contexts
  BY <1>2, Commands DEF Init, Suspended, Exclusive, LeavesAwaited, Contexts
<1> QED
  BY <1>1, <1>2, <1>3 DEF Init, IInv, CurrentData

(* The owner makes a fiber. *)
LEMMA MakePreserves ==
  ASSUME IInv, NEW f \in Fiber, Make(f)
  PROVE  IInv'
<1>1. /\ calls = <<>> /\ phase[f] = "unborn" /\ f \in Cmd /\ f # Null
      /\ phase' = [phase EXCEPT ![f] = "fresh"]
      /\ phase \in [Cmd -> {"unborn", "fresh", "pending", "gone"}]
      /\ UNCHANGED <<os, cur, calls, told, awaited, context, fault>>
  BY Commands DEF Make, Idle, IInv, Types
<1>2. \A g \in Fiber : awaited[g] # f
  BY <1>1, AwaitedAlive
<1>3. /\ phase' \in [Cmd -> {"unborn", "fresh", "pending", "gone"}]
      /\ phase'[f] = "fresh" /\ \A d \in Cmd \ {f} : phase'[d] = phase[d]
  BY <1>1
<1>4. /\ Stack(calls', phase', awaited')
      /\ Stacked(calls) = {} /\ Stacked(calls') = {}
  BY <1>1, EmptyStack
<1>5. Types'
  BY <1>1, <1>3 DEF IInv, Types
<1>6. Suspended'
  <2>1. ASSUME NEW g \in Fiber
        PROVE  IF phase'[g] = "pending"
               THEN awaited'[g] # Null /\ phase'[awaited'[g]] = "pending"
               ELSE awaited'[g] = Null
    <3>1. awaited[g] \in Cmd \cup {Null} /\ g \in Cmd /\ awaited'[g] = awaited[g]
      BY <1>1, Commands DEF IInv, Types
    <3>2. IF phase[g] = "pending"
          THEN awaited[g] # Null /\ phase[awaited[g]] = "pending"
          ELSE awaited[g] = Null
      BY <1>4 DEF IInv, Suspended
    <3> QED
      BY <1>1, <1>2, <1>3, <3>1, <3>2
  <2> QED
    BY <1>4, <2>1 DEF Suspended
<1>7. Exclusive' /\ LeavesAwaited'
  BY <1>1, <1>3, Commands DEF IInv, Exclusive, LeavesAwaited
<1>8. Contexts'
  BY <1>1, <1>3, <1>4, Commands DEF IInv, Contexts
<1> QED
  BY <1>1, <1>4, <1>5, <1>6, <1>7, <1>8 DEF IInv, CurrentData

(* A command that no fiber awaits comes to its end, and no handler is left *)
(* on the stack.                                                           *)
LEMMA EndsPreserves ==
  ASSUME IInv, NEW c \in Cmd, Stacked(calls) \subseteq {c}, calls' = <<>>,
         \A f \in Fiber : awaited[f] # c,
         c \in Fiber => /\ awaited[c] = Null
                        /\ \/ context' = StackFreed(c)
                           \/ UNCHANGED context /\ context[c] # "live",
         c \in Leaf => UNCHANGED context,
         phase' = [phase EXCEPT ![c] = "gone"],
         told' \in [Fiber -> Nat], UNCHANGED <<os, cur, awaited, fault>>
  PROVE  IInv'
<1>1. /\ phase' \in [Cmd -> {"unborn", "fresh", "pending", "gone"}]
      /\ phase'[c] = "gone" /\ \A d \in Cmd \ {c} : phase'[d] = phase[d]
  BY DEF IInv, Types
<1>2. Stack(calls', phase', awaited') /\ Stacked(calls') = {}
  BY EmptyStack
<1>3. c \in Fiber \/ c \in Leaf
  BY DEF Cmd
<1>4. Types'
  <2>1. context' \in [Fiber -> {"none", "live", "freed"}]
    BY <1>3 DEF StackFreed, IInv, Types
  <2> QED
    BY <1>1, <2>1 DEF IInv, Types
<1>5. Suspended'
  <2>1. ASSUME NEW g \in Fiber
        PROVE  IF phase'[g] = "pending"
               THEN awaited'[g] # Null /\ phase'[awaited'[g]] = "pending"
               ELSE awaited'[g] = Null
    <3>1. awaited[g] \in Cmd \cup {Null} /\ g \in Cmd /\ awaited'[g] = awaited[g]
      BY Commands DEF IInv, Types
    <3>2. CASE g = c
      BY <1>1, <3>1, <3>2
    <3>3. CASE g # c
      <4>1. IF phase[g] = "pending"
            THEN awaited[g] # Null /\ phase[awaited[g]] = "pending"
            ELSE awaited[g] = Null
        BY <3>3 DEF IInv, Suspended
      <4> QED
        BY <1>1, <3>1, <3>3, <4>1
    <3> QED
      BY <3>2, <3>3
  <2> QED
    BY <1>2, <2>1 DEF Suspended
<1>6. Exclusive' /\ LeavesAwaited'
  BY <1>1, Commands DEF IInv, Exclusive, LeavesAwaited
<1>7. Contexts'
  <2>1. ASSUME NEW f \in Fiber
        PROVE  (context'[f] = "live") <=> phase'[f] = "pending"
    <3>1. CASE f = c
      BY <1>1, <3>1 DEF StackFreed, IInv, Types
    <3>2. CASE f # c
      <4>1. context'[f] = context[f] /\ f \notin Stacked(calls)
        BY <1>3, <3>2 DEF StackFreed, IInv, Types
      <4> QED
        BY <1>1, <3>2, <4>1, Commands DEF IInv, Contexts
    <3> QED
      BY <3>1, <3>2
  <2> QED
    BY <1>2, <2>1 DEF Contexts
<1> QED
  BY <1>2, <1>4, <1>5, <1>6, <1>7 DEF IInv, CurrentData

(* The owner dismisses a fiber that it has not started. *)
LEMMA DismissPreserves ==
  ASSUME IInv, NEW f \in Fiber, Dismiss(f)
  PROVE  IInv'
<1>1. /\ calls = <<>> /\ phase[f] = "fresh" /\ f \in Cmd /\ f \notin Leaf
      /\ \A g \in Fiber : awaited[g] # f
      /\ phase' = [phase EXCEPT ![f] = "gone"]
      /\ UNCHANGED <<os, cur, calls, told, awaited, context, fault>>
  BY Commands DEF Dismiss, Idle, Root
<1>2. Stacked(calls) = {} /\ awaited[f] = Null /\ context[f] # "live"
  BY <1>1, EmptyStack DEF IInv, Suspended, Contexts
<1> QED
  BY <1>1, <1>2, EndsPreserves DEF IInv, Types

(* start or cancel of a fiber is entered. *)
LEMMA EnteredPreserves ==
  ASSUME IInv, NEW e \in Call, Fits(e, phase, awaited),
         e.fiber \notin Stacked(calls),
         calls # <<>> => Nests(Top, e, awaited),
         calls = <<>> => Outermost(e, awaited),
         calls' = <<e>> \o calls, cur' = e.fiber,
         context' = [context EXCEPT ![e.fiber] = "live"],
         UNCHANGED <<os, phase, told, awaited, fault>>
  PROVE  IInv'
<1>1. calls \in Seq(Call) /\ e.fiber \in Fiber /\ Entered(calls', e, calls)
  BY Handlers, Commands DEF Entered
<1>2. /\ calls' \in Seq(Call) /\ calls'[1] = e
      /\ Stacked(calls') = Stacked(calls) \cup {e.fiber}
  BY <1>1, Pushed
<1>3. Types'
  BY <1>1, <1>2 DEF IInv, Types
<1>4. Stack(calls', phase', awaited')
  <2>1. Stack(calls', phase, awaited)
    <3>1. calls # <<>> => Nests(calls[1], e, awaited)
      BY Handlers
    <3> QED
      BY <1>1, <3>1, PushedStack DEF IInv
  <2> QED
    BY <2>1
<1>5. Suspended' /\ Exclusive' /\ LeavesAwaited'
  BY <1>2 DEF IInv, Suspended, Exclusive, LeavesAwaited
<1>6. Contexts'
  BY <1>1, <1>2 DEF IInv, Contexts, Types
<1>7. CurrentData'
  BY <1>2 DEF CurrentData
<1> QED
  BY <1>3, <1>4, <1>5, <1>6, <1>7 DEF IInv

(* start is entered and runs the function. *)
LEMMA StartPreserves ==
  ASSUME IInv, NEW f \in Fiber, Start(f)
  PROVE  IInv'
<1> DEFINE e == Enter(f, "start", "body")
<1>1. e \in Call /\ e.fiber = f /\ e.mode = "start" /\ e.at = "body"
  BY DEF Enter, Call
<1>2. phase[f] = "fresh" /\ f \notin Stacked(calls) /\ f # Null
  BY AwaitedNotStacked, Handlers, Commands DEF Start, StartCalled, Idle, On
<1>3. Fits(e, phase, awaited)
  BY <1>1, <1>2 DEF Fits, IInv, Suspended
<1>4. calls # <<>> => Nests(Top, e, awaited)
  BY <1>1 DEF Start, StartCalled, Idle, On, Nests
<1>5. calls = <<>> => Outermost(e, awaited)
  BY <1>1 DEF Start, StartCalled, On, Root, Outermost
<1>6. /\ calls' = <<e>> \o calls /\ cur' = f
      /\ context' = [context EXCEPT ![f] = "live"]
      /\ UNCHANGED <<os, phase, told, awaited, fault>>
  BY DEF Start
<1> HIDE DEF e
<1> QED
  BY <1>1, <1>2, <1>3, <1>4, <1>5, <1>6, EnteredPreserves

(* cancel is entered, to cancel what the function awaits. *)
LEMMA CancelPreserves ==
  ASSUME IInv, NEW f \in Fiber, Cancel(f)
  PROVE  IInv'
<1> DEFINE e == Enter(f, "cancel", "cancel")
<1>1. e \in Call /\ e.fiber = f /\ e.mode = "cancel" /\ e.at = "cancel"
  BY DEF Enter, Call
<1>2. phase[f] = "pending" /\ f \notin Stacked(calls) /\ f # Null
  BY AwaitedNotStacked, Handlers, Commands DEF Cancel, Idle, On
<1>3. Fits(e, phase, awaited)
  BY <1>1, <1>2 DEF Fits, IInv, Suspended
<1>4. calls # <<>> => Nests(Top, e, awaited)
  BY <1>1 DEF Cancel, Idle, On, Nests
<1>5. calls = <<>> => Outermost(e, awaited)
  BY <1>1 DEF Cancel, On, Root, Outermost
<1>6. /\ calls' = <<e>> \o calls /\ cur' = f
      /\ UNCHANGED <<os, phase, told, awaited, fault>>
  BY DEF Cancel
<1>7. context' = [context EXCEPT ![f] = "live"]
  BY <1>2 DEF Cancel, IInv, Contexts, Types
<1> HIDE DEF e
<1> QED
  BY <1>1, <1>2, <1>3, <1>4, <1>5, <1>6, <1>7, EnteredPreserves

(* What the innermost handler awaits answers, or is cancelled or dismissed. *)
LEMMA AnsweredPreserves ==
  ASSUME IInv, calls # <<>>, NEW c \in Cmd, awaited[Top.fiber] = c,
         c \in Leaf \/ phase[c] = "fresh",
         phase' = [phase EXCEPT ![c] = "gone"], GoOn(calls),
         told' \in [Fiber -> Nat], UNCHANGED <<os, context, fault>>
  PROVE  IInv'
<1>1. awaited[calls[1].fiber] = c
  BY Handlers
<1> QED
  BY <1>1, GoesOnPreserves

(* start has no stack to give to the function. *)
LEMMA StartFailsPreserves ==
  ASSUME IInv, NEW f \in Fiber, StartFails(f)
  PROVE  IInv'
<1>1. /\ phase[f] = "fresh" /\ phase' = [phase EXCEPT ![f] = "gone"]
      /\ GoOn(calls) /\ UNCHANGED <<os, context, fault>>
      /\ f \in Cmd /\ f # Null /\ f \notin Leaf
  BY Commands DEF StartFails, StartCalled
<1>2. told' \in [Fiber -> Nat]
  BY DEF StartFails, Tells, IInv, Types
<1>3. CASE calls = <<>>
  <2>1. \A g \in Fiber : awaited[g] # f
    BY <1>3 DEF StartFails, StartCalled, On, Root
  <2>2. Stacked(calls) = {} /\ awaited[f] = Null /\ context[f] # "live"
    BY <1>1, <1>3, EmptyStack DEF IInv, Suspended, Contexts
  <2>3. calls' = <<>> /\ UNCHANGED <<cur, awaited>>
    BY <1>1, <1>3 DEF GoOn
  <2> QED
    BY <1>1, <1>2, <2>1, <2>2, <2>3, EndsPreserves
<1>4. CASE calls # <<>>
  <2>1. awaited[Top.fiber] = f
    BY <1>4 DEF StartFails, StartCalled, Idle
  <2> QED
    BY <1>1, <1>2, <1>4, <2>1, AnsweredPreserves
<1> QED
  BY <1>3, <1>4

(* A leaf answers its start, or is cancelled. *)
LEMMA LeafAnswersPreserves ==
  ASSUME IInv, NEW c \in Leaf, LeafAnswers(c) \/ LeafCancelled(c)
  PROVE  IInv'
<1>1. /\ calls # <<>> /\ awaited[Top.fiber] = c /\ Answered(c) /\ c \in Cmd
  BY Commands DEF LeafAnswers, LeafCancelled, Starting, On
<1> QED
  BY <1>1, AnsweredPreserves DEF Answered, IInv, Types

(* cancel dismisses what the function awaits next. *)
LEMMA AwaitedDismissedPreserves ==
  ASSUME IInv, NEW c \in Cmd, AwaitedDismissed(c)
  PROVE  IInv'
<1>1. /\ calls # <<>> /\ awaited[Top.fiber] = c /\ Answered(c)
      /\ Top.at = "await"
  BY DEF AwaitedDismissed, On
<1>2. phase[c] = "fresh"
  BY <1>1, Handlers DEF Fits
<1> QED
  BY <1>1, <1>2, AnsweredPreserves DEF Answered, IInv, Types

(* The innermost handler comes to await command d, which has just been     *)
(* made, in the place of a leaf that has been succeeded or of nothing.     *)
LEMMA AwaitsPreserves ==
  ASSUME IInv, calls # <<>>, NEW d \in Cmd, phase[d] = "unborn",
         NEW e \in Call, e.fiber = Top.fiber, e.mode = Top.mode, e.at = "await",
         Changed(calls', e, calls),
         awaited' = [awaited EXCEPT ![Top.fiber] = d],
         awaited[Top.fiber] \in Leaf \cup {Null},
         NEW gone, gone \subseteq {awaited[Top.fiber]} \ {Null},
         awaited[Top.fiber] # Null => gone = {awaited[Top.fiber]},
         phase' = [x \in Cmd |-> IF x = d THEN "fresh"
                                 ELSE IF x \in gone THEN "gone" ELSE phase[x]],
         UNCHANGED <<os, cur, told, context, fault>>
  PROVE  IInv'
<1> DEFINE t == Top.fiber
           old == awaited[t]
<1>1. /\ calls \in Seq(Call) /\ Top = calls[1] /\ Top \in Call
      /\ t \in Stacked(calls) /\ t \in Fiber /\ t \in Cmd /\ t # Null
      /\ Fits(Top, phase, awaited) /\ Stacked(calls) \subseteq Fiber
  BY Handlers, Commands
<1>2. e.fiber = t /\ e.mode = Top.mode /\ e.at = "await"
  OBVIOUS
<1>3. /\ calls' \in Seq(Call) /\ calls'[1] = e /\ Stacked(calls') = Stacked(calls)
  <2>1. calls \in Seq(Call) /\ e.fiber = calls[1].fiber
    BY <1>1
  <2> QED
    BY <2>1, Replaced
<1>4. /\ \A f \in Fiber : /\ awaited[f] \in Cmd \cup {Null}
                          /\ awaited[f] # d
                          /\ f # t => awaited'[f] = awaited[f]
                          /\ f # t /\ old # Null => awaited[f] # old
      /\ awaited'[t] = d /\ awaited' \in [Fiber -> Cmd \cup {Null}]
  <2>1. awaited \in [Fiber -> Cmd \cup {Null}]
    BY DEF IInv, Types
  <2>2. \A f \in Fiber : awaited[f] # d
    BY AwaitedAlive, Commands
  <2>3. \A f \in Fiber : f # t /\ old # Null => awaited[f] # old
    BY <1>1 DEF IInv, Exclusive
  <2> QED
    BY <1>1, <2>1, <2>2, <2>3
<1>5. /\ phase'[d] = "fresh" /\ d # Null
      /\ \A x \in gone : phase'[x] = "gone" /\ x \in Leaf
      /\ \A x \in Cmd : x # d /\ x # old => phase'[x] = phase[x]
      /\ \A x \in Fiber : x \in Cmd /\ (x # d => phase'[x] = phase[x])
      /\ phase' \in [Cmd -> {"unborn", "fresh", "pending", "gone"}]
  <2>1. phase \in [Cmd -> {"unborn", "fresh", "pending", "gone"}]
    BY DEF IInv, Types
  <2>2. gone \subseteq Leaf /\ d \notin gone
    BY <1>1, <1>4
  <2> QED
    BY <2>1, <2>2, Commands
<1>6. d \notin Stacked(calls)
  <2>1. ASSUME NEW i \in 1..Len(calls)
        PROVE  calls[i].fiber # d
    <3>1. Fits(calls[i], phase, awaited)
      BY Handlers
    <3> QED
      BY <3>1 DEF Fits
  <2> QED
    BY <2>1 DEF Stacked
<1> HIDE DEF t, old
<1>7. Types'
  BY <1>3, <1>4, <1>5 DEF IInv, Types
<1>8. Stack(calls', phase', awaited')
  <2>1. Fits(e, phase', awaited')
    <3>1. phase'[t] = phase[t]
      BY <1>1, <1>5, <1>6
    <3> QED
      BY <1>1, <1>2, <1>4, <1>5, <3>1 DEF Fits, t
  <2>2. Undisturbed(calls, e.fiber, phase, awaited, phase', awaited')
    <3>1. ASSUME NEW f \in Stacked(calls) \ {t}
          PROVE  /\ phase'[f] = phase[f] /\ awaited'[f] = awaited[f]
                 /\ awaited[f] # Null => phase'[awaited[f]] = phase[awaited[f]]
      <4>1. f \in Fiber /\ f # d /\ awaited[f] \in Cmd \cup {Null}
        BY <1>1, <1>4, <1>6
      <4>2. awaited[f] # Null => awaited[f] # old
        BY <1>4, <4>1
      <4> QED
        BY <1>4, <1>5, <4>1, <4>2
    <3>2. \A f \in Fiber :
            awaited'[f] \in Stacked(calls) => awaited'[f] = awaited[f]
      BY <1>4, <1>6
    <3> QED
      BY <1>2, <3>1, <3>2 DEF Undisturbed
  <2>3. /\ calls \in Seq(Call) /\ Stack(calls, phase, awaited)
        /\ e.fiber = calls[1].fiber
        /\ (e.mode = "cancel") <=> (calls[1].mode = "cancel")
        /\ (e.mode = "start") <=> (calls[1].mode = "start")
    BY <1>1, <1>2 DEF IInv, t
  <2> QED
    BY <2>1, <2>2, <2>3, HeadChanges
<1>9. Suspended'
  <2>1. ASSUME NEW f \in Fiber, f \notin Stacked(calls)
        PROVE  IF phase'[f] = "pending"
               THEN awaited'[f] # Null /\ phase'[awaited'[f]] = "pending"
               ELSE awaited'[f] = Null
    <3>1. awaited'[f] = awaited[f] /\ awaited[f] \in Cmd \cup {Null}
      BY <1>1, <1>4, <2>1
    <3>2. awaited[f] # Null => awaited[f] # d /\ awaited[f] # old
      BY <1>1, <1>4, <2>1
    <3>3. IF phase[f] = "pending"
          THEN awaited[f] # Null /\ phase[awaited[f]] = "pending"
          ELSE awaited[f] = Null
      BY <2>1 DEF IInv, Suspended
    <3> QED
      BY <1>5, <3>1, <3>2, <3>3
  <2> QED
    BY <1>3, <2>1 DEF Suspended
<1>10. Exclusive'
  BY <1>4 DEF IInv, Exclusive
<1>11. LeavesAwaited'
  <2>1. ASSUME NEW x \in Leaf, phase'[x] \in {"fresh", "pending"}
        PROVE  \E f \in Fiber : awaited'[f] = x
    <3>1. CASE x = d
      BY <1>1, <1>4, <3>1
    <3>2. CASE x # d
      <4>1. x \notin gone /\ x \in Cmd /\ x # Null
        BY <1>5, <2>1, Commands
      <4>2. x # old
        BY <4>1 DEF old, t
      <4>3. PICK f \in Fiber : awaited[f] = x
        BY <1>5, <2>1, <3>2, <4>1, <4>2 DEF IInv, LeavesAwaited
      <4>4. awaited'[f] = x
        BY <1>4, <4>2, <4>3 DEF old
      <4> QED
        BY <4>4
    <3> QED
      BY <3>1, <3>2
  <2> QED
    BY <2>1 DEF LeavesAwaited
<1>12. Contexts'
  BY <1>3, <1>5 DEF IInv, Contexts
<1>13. CurrentData'
  <2>1. cur # Null => cur \in Fiber
    BY DEF IInv, Types
  <2>2. cur # Null /\ phase[cur] = "gone" => phase'[cur] = "gone"
    BY <1>5, <2>1
  <2> QED
    BY <1>1, <1>2, <1>3, <2>2 DEF IInv, CurrentData, t
<1> QED
  BY <1>7, <1>8, <1>9, <1>10, <1>11, <1>12, <1>13 DEF IInv

(* The function awaits a command. *)
LEMMA AwaitPreserves ==
  ASSUME IInv, NEW c \in Cmd, Await(c)
  PROVE  IInv'
<1>1. /\ calls # <<>> /\ Top.at = "body" /\ phase[c] = "unborn"
      /\ UNCHANGED <<os, cur, told, context>>
  BY DEF Await, On
<1>2. CASE Self = Top.fiber
  <2> DEFINE e == [Top EXCEPT !.at = "await"]
             gone == {}
  <2>1. /\ awaited[Top.fiber] = Null /\ e \in Call
        /\ e.fiber = Top.fiber /\ e.mode = Top.mode /\ e.at = "await"
    <3>1. Top \in Call /\ awaited[Top.fiber] = Null
      BY <1>1, Handlers DEF Fits
    <3> QED
      BY <3>1 DEF Call
  <2>2. /\ Changed(calls', e, calls) /\ UNCHANGED fault
        /\ awaited' = [awaited EXCEPT ![Top.fiber] = c]
    BY <1>2 DEF Await, Proceed, Changed
  <2>3. phase' = [x \in Cmd |-> IF x = c THEN "fresh"
                                ELSE IF x \in gone THEN "gone" ELSE phase[x]]
    BY <1>2 DEF Await, IInv, Types
  <2>4. gone \subseteq {awaited[Top.fiber]} \ {Null}
    OBVIOUS
  <2> HIDE DEF e, gone
  <2> QED
    BY <1>1, <2>1, <2>2, <2>3, <2>4, AwaitsPreserves
<1>3. CASE Self # Top.fiber
  BY <1>3 DEF Await, IInv, Types, Suspended, Exclusive, LeavesAwaited,
              Contexts, CurrentData
<1> QED
  BY <1>2, <1>3

(* A leaf that is started answers with a successor. *)
LEMMA LeafSucceededPreserves ==
  ASSUME IInv, NEW c \in Leaf, NEW d \in Cmd, LeafSucceeded(c, d)
  PROVE  IInv'
<1> DEFINE e == Top
           gone == {c}
<1>1. /\ calls # <<>> /\ Top.at = "await" /\ awaited[Top.fiber] = c
      /\ phase[d] = "unborn" /\ c \in Cmd /\ c # Null
      /\ awaited' = [awaited EXCEPT ![Top.fiber] = d]
      /\ UNCHANGED <<os, cur, calls, told, context, fault>>
  BY Commands DEF LeafSucceeded, Starting, On
<1>2. /\ e \in Call /\ Fits(Top, phase, awaited)
      /\ e.fiber = Top.fiber /\ e.mode = Top.mode /\ e.at = "await"
  BY <1>1, Handlers
<1>3. Changed(calls', e, calls)
  <2>1. calls = <<Head(calls)>> \o Tail(calls)
    BY <1>1, Handlers
  <2> QED
    BY <1>1, <2>1 DEF Changed, Top
<1>4. phase' = [x \in Cmd |-> IF x = d THEN "fresh"
                              ELSE IF x \in gone THEN "gone" ELSE phase[x]]
  BY <1>1 DEF LeafSucceeded, IInv, Types
<1>5. gone \subseteq {awaited[Top.fiber]} \ {Null} /\ gone = {awaited[Top.fiber]}
  BY <1>1
<1> HIDE DEF e, gone
<1> QED
  BY <1>1, <1>2, <1>3, <1>4, <1>5, AwaitsPreserves

(* The function returns. *)
LEMMA FunctionEndsPreserves ==
  ASSUME IInv, FunctionEnds
  PROVE  IInv'
<1> DEFINE e == [Top EXCEPT !.at = "ended"]
<1>1. /\ calls # <<>> /\ Top.at = "body" /\ Top = calls[1] /\ Top \in Call
      /\ calls \in Seq(Call) /\ Changed(calls', e, calls)
      /\ Fits(Top, phase, awaited)
      /\ UNCHANGED <<os, cur, phase, told, awaited, context, fault>>
  BY Handlers DEF FunctionEnds, On, Proceed, Changed
<1>2. /\ e \in Call /\ e.fiber = calls[1].fiber /\ e.mode = calls[1].mode
      /\ e.at = "ended"
  BY <1>1 DEF Call
<1>3. Fits(e, phase, awaited)
  BY <1>1, <1>2 DEF Fits
<1> HIDE DEF e
<1>4. /\ calls' \in Seq(Call) /\ calls'[1] = e /\ Stacked(calls') = Stacked(calls)
  BY <1>1, <1>2, Replaced
<1>5. Stack(calls', phase, awaited)
  <2>1. Undisturbed(calls, e.fiber, phase, awaited, phase, awaited)
    BY DEF Undisturbed
  <2> QED
    BY <1>1, <1>2, <1>3, <2>1, HeadChanges DEF IInv
<1>6. Types'
  BY <1>1, <1>4 DEF IInv, Types
<1>7. Suspended' /\ Exclusive' /\ LeavesAwaited' /\ Contexts'
  BY <1>1, <1>4 DEF IInv, Suspended, Exclusive, LeavesAwaited, Contexts
<1>8. CurrentData'
  BY <1>1, <1>2, <1>4 DEF IInv, CurrentData
<1> QED
  BY <1>1, <1>5, <1>6, <1>7, <1>8 DEF IInv

(* Which commands are pending once a leaf has returned an empty task. *)
LEMMA AllWait ==
  ASSUME IInv, NEW c \in Leaf, LeafWaits(c)
  PROVE  /\ calls # <<>> /\ calls' = <<>>
         /\ awaited[Top.fiber] = c /\ Top.mode # "cancel"
         /\ UNCHANGED <<os, cur, told, awaited, context, fault>>
         /\ \A x \in Cmd : phase'[x] = IF x = c \/ x \in Stacked(calls)
                                       THEN "pending" ELSE phase[x]
         /\ phase' \in [Cmd -> {"unborn", "fresh", "pending", "gone"}]
<1>1. \A x \in Cmd : x \in Stacked(calls)
                       <=> \E i \in DOMAIN calls : calls[i].fiber = x
  BY Handlers, Elements DEF Stacked
<1>2. /\ calls # <<>> /\ calls' = <<>>
      /\ awaited[Top.fiber] = c /\ Top.mode # "cancel"
      /\ UNCHANGED <<os, cur, told, awaited, context, fault>>
  BY DEF LeafWaits, Starting, On
<1>3. phase' = [x \in Cmd |->
                 IF x = c \/ \E i \in DOMAIN calls : calls[i].fiber = x
                 THEN "pending" ELSE phase[x]]
  BY DEF LeafWaits
<1>4. phase \in [Cmd -> {"unborn", "fresh", "pending", "gone"}]
  BY DEF IInv, Types
<1> QED
  BY <1>1, <1>2, <1>3, <1>4

(* A leaf waits, and every handler on the stack returns. *)
LEMMA LeafWaitsPreserves ==
  ASSUME IInv, NEW c \in Leaf, LeafWaits(c)
  PROVE  IInv'
<1>1. /\ calls # <<>> /\ calls' = <<>>
      /\ awaited[Top.fiber] = c
      /\ UNCHANGED <<os, cur, told, awaited, context, fault>>
      /\ \A x \in Cmd : phase'[x] = IF x = c \/ x \in Stacked(calls)
                                    THEN "pending" ELSE phase[x]
      /\ phase' \in [Cmd -> {"unborn", "fresh", "pending", "gone"}]
  BY AllWait
<1>2. Stack(calls', phase', awaited') /\ Stacked(calls') = {}
  BY <1>1, EmptyStack
<1>3. Types'
  BY <1>1 DEF IInv, Types
<1>4. Suspended'
  <2>1. ASSUME NEW f \in Fiber
        PROVE  IF phase'[f] = "pending"
               THEN awaited[f] # Null /\ phase'[awaited[f]] = "pending"
               ELSE awaited[f] = Null
    <3>1. /\ awaited[f] \in Cmd \cup {Null} /\ f \in Cmd
          /\ f # c /\ c \in Cmd /\ c # Null
      BY Commands DEF IInv, Types
    <3>2. CASE f \in Stacked(calls)
      <4>1. awaited[f] # Null /\ (awaited[f] = c \/ awaited[f] \in Stacked(calls))
        <5> DEFINE n == Len(calls)
        <5>1. PICK i \in 1..n : calls[i].fiber = f
          BY <3>2 DEF Stacked
        <5>2. n \in Nat /\ Len(calls) = n /\ 1 \in 1..n /\ Top = calls[1]
          BY <1>1, Handlers, Elements
        <5> HIDE DEF n
        <5>3. CASE i = 1
          BY <1>1, <3>1, <5>1, <5>2, <5>3
        <5>4. CASE i # 1
          <6>1. i - 1 \in 1..n /\ i - 1 # n /\ (i - 1) + 1 = i
            BY <5>1, <5>2, <5>4
          <6>2. Nests(calls[i], calls[i - 1], awaited)
            <7>1. Nests(calls[(i - 1) + 1], calls[i - 1], awaited)
              BY <5>2, <6>1 DEF IInv, Stack
            <7> QED
              BY <6>1, <7>1
          <6>3. calls[i - 1].fiber \in Stacked(calls)
            BY <5>2, <6>1, Handlers
          <6> QED
            BY <5>1, <6>2, <6>3, Handlers, Commands DEF Nests
        <5> QED
          BY <5>3, <5>4
      <4> QED
        BY <1>1, <3>1, <3>2, <4>1, Handlers, Commands
    <3>3. CASE f \notin Stacked(calls)
      <4>1. IF phase[f] = "pending"
            THEN awaited[f] # Null /\ phase[awaited[f]] = "pending"
            ELSE awaited[f] = Null
        BY <3>3 DEF IInv, Suspended
      <4> QED
        BY <1>1, <3>1, <3>3, <4>1
    <3> QED
      BY <3>2, <3>3
  <2> QED
    BY <1>1, <1>2, <2>1 DEF Suspended
<1>5. Exclusive'
  BY <1>1 DEF IInv, Exclusive
<1>6. LeavesAwaited'
  <2>1. ASSUME NEW d \in Leaf, phase'[d] \in {"fresh", "pending"}
        PROVE  \E f \in Fiber : awaited[f] = d
    <3>1. CASE d = c
      BY <1>1, <3>1, Handlers
    <3>2. CASE d # c
      <4>1. d \in Cmd /\ d \notin Stacked(calls)
        BY Handlers, Commands
      <4>2. phase[d] \in {"fresh", "pending"}
        BY <1>1, <2>1, <3>2, <4>1
      <4> QED
        BY <4>2 DEF IInv, LeavesAwaited
    <3> QED
      BY <3>1, <3>2
  <2> QED
    BY <1>1, <2>1 DEF LeavesAwaited
<1>7. Contexts'
  BY <1>1, <1>2, Commands DEF IInv, Contexts
<1> QED
  BY <1>1, <1>2, <1>3, <1>4, <1>5, <1>6, <1>7 DEF IInv, CurrentData

(* start or cancel returns, its function having ended. *)
LEMMA HandlerReturnsPreserves ==
  ASSUME IInv, HandlerReturns
  PROVE  IInv'
<1> DEFINE c == Top.fiber
           t == Tail(calls)
<1>1. /\ calls # <<>> /\ Top.at = "ended" /\ Top.mode \in {"start", "cancel"}
      /\ phase' = [phase EXCEPT ![c] = "gone"]
      /\ context' = StackFreed(c) /\ GoOn(t) /\ UNCHANGED <<os, fault>>
  BY DEF HandlerReturns, On
<1>2. /\ calls \in Seq(Call) /\ Top = calls[1] /\ c \in Fiber /\ c \in Cmd
      /\ c \notin Leaf /\ c # Null /\ Fits(Top, phase, awaited)
  BY <1>1, Handlers, Commands
<1>3. told' \in [Fiber -> Nat]
  BY <1>2 DEF HandlerReturns, Tells, IInv, Types
<1>4. /\ Stacked(t) = Stacked(calls) \ {c}
      /\ t # <<>> => Nests(t[1], calls[1], awaited)
  BY <1>1, <1>2, TailIsStack DEF IInv
<1>5. CASE t = <<>>
  <2>1. calls' = <<>> /\ UNCHANGED <<awaited, cur>>
    BY <1>1, <1>5 DEF GoOn
  <2>2. Stacked(calls) \subseteq {c} /\ awaited[c] = Null
    BY <1>1, <1>2, <1>4, <1>5, EmptyStack DEF Fits
  <2>3. \A f \in Fiber : awaited[f] # c
    <3> DEFINE n == Len(calls)
    <3>1. n \in Nat /\ n # 0 /\ n = Len(calls) /\ n - 1 = 0
      <4>1. n = Len(calls) /\ n \in Nat
        BY <1>2, Elements
      <4>2. Len(t) = n - 1
        <5>1. t = Tail(calls)
          OBVIOUS
        <5> HIDE DEF t
        <5> QED
          BY <1>1, <1>2, <5>1, Popped
      <4>3. Len(t) = 0
        BY <1>5
      <4> HIDE DEF n, t
      <4> QED
        BY <4>1, <4>2, <4>3
    <3>2. n = 1
      <4>1. n \in Nat /\ n - 1 = 0
        BY <3>1
      <4> HIDE DEF n
      <4> QED
        BY <4>1
    <3> HIDE DEF n
    <3>3. Outermost(calls[1], awaited)
      BY <1>1, <3>1, <3>2 DEF IInv, Stack
    <3> QED
      BY <1>1, <1>2, <3>3 DEF Outermost
  <2> HIDE DEF c, t
  <2> QED
    BY <1>1, <1>2, <1>3, <2>1, <2>2, <2>3, EndsPreserves
<1>6. CASE t # <<>>
  <2>1. awaited[t[1].fiber] = c
    BY <1>2, <1>4, <1>6 DEF Nests
  <2>2. t = Tail(calls) /\ Top.fiber = c
    OBVIOUS
  <2> HIDE DEF c, t
  <2> QED
    BY <1>1, <1>2, <1>3, <1>6, <2>1, <2>2, GoesOnPreserves
<1> QED
  BY <1>5, <1>6

(* Command c, which was pending, has completed, and no other handler is on *)
(* the stack: the fiber p that awaits c hears of it, and either its        *)
(* function goes on (y is Null) or it has the successor y to start.        *)
LEMMA HearsPreserves ==
  ASSUME IInv, NEW c \in Cmd, phase[c] = "pending", Stacked(calls) \subseteq {c},
         c \in Fiber => awaited[c] = Null /\ context' = StackFreed(c),
         c \in Leaf => UNCHANGED context,
         NEW p \in Fiber, awaited[p] = c,
         NEW y \in Cmd \cup {Null}, y # Null => phase[y] = "unborn",
         NEW e \in Call, e.fiber = p,
         e.mode = (IF y = Null THEN "resume" ELSE "successor"),
         e.at = (IF y = Null THEN "body" ELSE "await"),
         calls' = <<e>> \o <<>>,
         awaited' = [awaited EXCEPT ![p] = y],
         cur' = (IF y = Null THEN p ELSE cur),
         phase' = [x \in Cmd |-> IF x = y THEN "fresh"
                                 ELSE IF x = c THEN "gone" ELSE phase[x]],
         told' \in [Fiber -> Nat], UNCHANGED <<os, fault>>
  PROVE  IInv'
<1>1. /\ p \in Cmd /\ p # Null /\ c # Null /\ c # p /\ p \notin Stacked(calls)
      /\ p \notin Leaf /\ (c \in Fiber \/ c \in Leaf)
  <2>1. p \in Cmd /\ p # Null /\ c # Null /\ p \notin Leaf
    BY Commands
  <2>2. c # p
    BY <2>1
  <2> QED
    BY <2>1, <2>2 DEF Cmd
<1>2. phase[p] = "pending"
  BY <1>1 DEF IInv, Suspended
<1>3. /\ y # p /\ y # c
      /\ \A f \in Fiber : /\ awaited[f] \in Cmd \cup {Null} /\ f \in Cmd
                          /\ y # Null => awaited[f] # y
                          /\ f # p => awaited[f] # c
                          /\ f = y => awaited[f] = Null
                          /\ f # c => f \notin Stacked(calls)
  <2>1. y # p /\ y # c
    BY <1>1, <1>2
  <2>2. \A f \in Fiber : awaited[f] \in Cmd \cup {Null} /\ f \in Cmd
    BY Commands DEF IInv, Types
  <2>3. \A f \in Fiber : y # Null => awaited[f] # y
    BY AwaitedAlive
  <2>4. \A f \in Fiber : f # p => awaited[f] # c
    BY <1>1 DEF IInv, Exclusive
  <2>5. \A f \in Fiber : f = y => awaited[f] = Null
    BY AwaitedAlive, Commands
  <2> QED
    BY <2>1, <2>2, <2>3, <2>4, <2>5
<1>4. /\ phase' \in [Cmd -> {"unborn", "fresh", "pending", "gone"}]
      /\ phase'[c] = "gone" /\ phase'[p] = "pending"
      /\ y # Null => phase'[y] = "fresh"
      /\ \A x \in Cmd : x # c /\ x # y => phase'[x] = phase[x]
  BY <1>1, <1>2, <1>3 DEF IInv, Types
<1>5. /\ awaited' \in [Fiber -> Cmd \cup {Null}] /\ awaited'[p] = y
      /\ \A f \in Fiber : f # p => awaited'[f] = awaited[f]
  BY DEF IInv, Types
<1>6. /\ calls' \in Seq(Call) /\ calls'[1] = e /\ Stacked(calls') = {p}
  <2> DEFINE s == <<>>
  <2>1. s \in Seq(Call) /\ Entered(calls', e, s) /\ Stacked(s) = {}
    BY EmptyStack DEF Entered
  <2> HIDE DEF s
  <2>2. /\ calls' \in Seq(Call) /\ calls'[1] = e
        /\ Stacked(calls') = Stacked(s) \cup {e.fiber}
    BY <2>1, Pushed
  <2> QED
    BY <2>1, <2>2
<1>7. Types'
  <2>1. context' \in [Fiber -> {"none", "live", "freed"}]
    BY <1>1 DEF StackFreed, IInv, Types
  <2> QED
    BY <1>4, <1>5, <1>6, <2>1 DEF IInv, Types
<1>8. Stack(calls', phase', awaited')
  <2>1. Fits(e, phase', awaited')
    BY <1>4, <1>5 DEF Fits
  <2>2. /\ <<>> \in Seq(Call) /\ Entered(calls', e, <<>>)
        /\ Stack(<<>>, phase', awaited') /\ e.fiber \notin Stacked(<<>>)
    BY EmptyStack DEF Entered
  <2>3. Outermost(e, awaited')
    BY DEF Outermost
  <2> QED
    BY <2>1, <2>2, <2>3, PushedStack
<1>9. Suspended'
  <2>1. ASSUME NEW f \in Fiber, f # p
        PROVE  IF phase'[f] = "pending"
               THEN awaited'[f] # Null /\ phase'[awaited'[f]] = "pending"
               ELSE awaited'[f] = Null
    <3>1. awaited'[f] = awaited[f] /\ f \in Cmd /\ f # Null
      BY <1>5, <2>1, Commands
    <3>2. CASE f = c
      BY <1>4, <3>1, <3>2
    <3>3. CASE f = y
      BY <1>3, <1>4, <3>1, <3>3
    <3>4. CASE f # c /\ f # y
      <4>1. IF phase[f] = "pending"
            THEN awaited[f] # Null /\ phase[awaited[f]] = "pending"
            ELSE awaited[f] = Null
        BY <1>3, <3>4 DEF IInv, Suspended
      <4> QED
        BY <1>3, <1>4, <2>1, <3>1, <3>4, <4>1
    <3> QED
      BY <3>2, <3>3, <3>4
  <2> QED
    BY <1>6, <2>1 DEF Suspended
<1>10. Exclusive'
  BY <1>3, <1>5 DEF IInv, Exclusive
<1>11. LeavesAwaited'
  <2>1. ASSUME NEW x \in Leaf, phase'[x] \in {"fresh", "pending"}
        PROVE  \E f \in Fiber : awaited'[f] = x
    <3>1. x # c /\ x \in Cmd
      BY <1>4, <2>1, Commands
    <3>2. CASE x = y
      BY <1>5, <3>2
    <3>3. CASE x # y
      <4>1. PICK f \in Fiber : awaited[f] = x
        BY <1>4, <2>1, <3>1, <3>3 DEF IInv, LeavesAwaited
      <4>2. awaited'[f] = x
        BY <1>5, <3>1, <4>1
      <4> QED
        BY <4>2
    <3> QED
      BY <3>2, <3>3
  <2> QED
    BY <2>1 DEF LeavesAwaited
<1>12. Contexts'
  <2>1. ASSUME NEW f \in Fiber
        PROVE  (context'[f] = "live") <=> f = p \/ phase'[f] = "pending"
    <3>1. f \in Cmd
      BY Commands
    <3>2. CASE f = c
      <4>1. context'[f] # "live"
        BY <3>2 DEF StackFreed, IInv, Types
      <4> QED
        BY <1>1, <1>4, <3>2, <4>1
    <3>3. CASE f # c
      <4>1. context'[f] = context[f]
        BY <1>1, <3>3 DEF StackFreed, IInv, Types
      <4>2. (context[f] = "live") <=> phase[f] = "pending"
        BY <1>3, <3>3 DEF IInv, Contexts
      <4>3. f = y => f # Null
        BY <3>1, Commands
      <4> QED
        BY <1>2, <1>4, <3>1, <3>3, <4>1, <4>2, <4>3
    <3> QED
      BY <3>2, <3>3
  <2> QED
    BY <1>6, <2>1 DEF Contexts
<1>13. CurrentData'
  BY <1>6 DEF CurrentData
<1> QED
  BY <1>7, <1>8, <1>9, <1>10, <1>11, <1>12, <1>13 DEF IInv

(* on_completion is the only handler on the stack when it ends.            *)
LEMMA CompletesAlone ==
  ASSUME IInv, calls # <<>>, Top.mode = "resume"
  PROVE  Stacked(calls) = {Top.fiber}
<1> DEFINE t == Tail(calls)
<1>1. /\ calls \in Seq(Call) /\ Top = calls[1]
      /\ Top.fiber \in Stacked(calls)
  BY Handlers
<1>2. t = Tail(calls)
  OBVIOUS
<1> HIDE DEF t
<1>3. /\ Stacked(t) = Stacked(calls) \ {Top.fiber}
      /\ t # <<>> => Nests(t[1], Top, awaited)
  BY <1>1, <1>2, TailIsStack DEF IInv
<1>4. t = <<>>
  BY <1>3 DEF Nests
<1> QED
  BY <1>1, <1>3, <1>4, EmptyStack

(* Command c, whose handlers have all returned, completes.                 *)
LEMMA NotifyPreserves ==
  ASSUME IInv, NEW c \in Cmd, phase[c] = "pending", Stacked(calls) \subseteq {c},
         c \in Fiber => awaited[c] = Null /\ context' = StackFreed(c),
         c \in Leaf => UNCHANGED context,
         Notify(c), phase' = [phase EXCEPT ![c] = "gone"],
         told' \in [Fiber -> Nat], UNCHANGED <<os, fault>>
  PROVE  IInv'
<1>1. CASE Root(c) /\ GoOn(<<>>)
  <2>1. /\ calls' = <<>> /\ UNCHANGED <<awaited, cur>>
        /\ \A f \in Fiber : awaited[f] # c
    BY <1>1 DEF GoOn, Root
  <2> QED
    BY <2>1, EndsPreserves
<1>2. ASSUME NEW p \in Fiber, awaited[p] = c,
             GoOn(<<Enter(p, "successor", "await")>>)
      PROVE  IInv'
  <2> DEFINE e == Enter(p, "resume", "body")
             s == <<Enter(p, "successor", "await")>>
  <2>1. e \in Call /\ e.fiber = p /\ e.mode = "resume" /\ e.at = "body"
    BY DEF Enter, Call
  <2>2. /\ s # <<>> /\ Head(s).fiber = p /\ Head(s).mode = "successor"
        /\ Tail(s) = <<>>
    BY DEF Enter
  <2>3. /\ calls' = <<e>> \o <<>> /\ cur' = p
        /\ awaited' = [awaited EXCEPT ![p] = Null]
    BY <1>2, <2>2 DEF GoOn, Resumed, CurWhenResumed
  <2>4. phase' = [x \in Cmd |-> IF x = Null THEN "fresh"
                                ELSE IF x = c THEN "gone" ELSE phase[x]]
    BY Commands DEF IInv, Types
  <2> HIDE DEF e, s
  <2>5. Null \in Cmd \cup {Null}
    OBVIOUS
  <2> QED
    BY <1>2, <2>1, <2>3, <2>4, <2>5, HearsPreserves
<1> QED
  BY <1>1, <1>2 DEF Notify

(* on_completion tells the sink, its function having ended. *)
LEMMA HandlerCompletesPreserves ==
  ASSUME IInv, HandlerCompletes
  PROVE  IInv'
<1> DEFINE c == Top.fiber
<1>1. /\ calls # <<>> /\ Top.at = "ended" /\ Top.mode = "resume"
      /\ phase' = [phase EXCEPT ![c] = "gone"]
      /\ context' = StackFreed(c) /\ Notify(c) /\ UNCHANGED <<os, fault>>
  BY DEF HandlerCompletes, On
<1>2. /\ c \in Fiber /\ c \in Cmd /\ c \notin Leaf /\ c # Null
      /\ Fits(Top, phase, awaited)
  BY <1>1, Handlers, Commands
<1>3. told' \in [Fiber -> Nat]
  BY <1>2 DEF HandlerCompletes, Tells, IInv, Types
<1>4. phase[c] = "pending" /\ awaited[c] = Null
  BY <1>1, <1>2 DEF Fits
<1>5. Stacked(calls) \subseteq {c}
  BY <1>1, CompletesAlone
<1> HIDE DEF c
<1> QED
  BY <1>1, <1>2, <1>3, <1>4, <1>5, NotifyPreserves

(* A leaf that was waiting completes. *)
LEMMA LeafCompletesPreserves ==
  ASSUME IInv, NEW c \in Leaf, LeafCompletes(c)
  PROVE  IInv'
<1>1. /\ calls = <<>> /\ phase[c] = "pending" /\ Notify(c)
      /\ phase' = [phase EXCEPT ![c] = "gone"]
      /\ UNCHANGED <<os, told, context, fault>>
  BY DEF LeafCompletes, Idle
<1>2. c \in Cmd /\ c \notin Fiber /\ Stacked(calls) \subseteq {c}
  BY <1>1, Commands, EmptyStack
<1>3. told' \in [Fiber -> Nat]
  BY <1>1 DEF IInv, Types
<1> QED
  BY <1>1, <1>2, <1>3, NotifyPreserves

(* A leaf that was waiting completes with a successor. *)
LEMMA LeafCompletesWithPreserves ==
  ASSUME IInv, NEW c \in Leaf, NEW d \in Cmd, LeafCompletesWith(c, d)
  PROVE  IInv'
<1>1. /\ calls = <<>> /\ phase[c] = "pending" /\ phase[d] = "unborn"
      /\ phase' = [phase EXCEPT ![c] = "gone", ![d] = "fresh"]
      /\ UNCHANGED <<os, cur, told, context, fault>>
  BY DEF LeafCompletesWith, Idle
<1>2. PICK p \in Fiber : /\ awaited[p] = c
                         /\ awaited' = [awaited EXCEPT ![p] = d]
                         /\ calls' = <<Enter(p, "successor", "await")>>
  BY DEF LeafCompletesWith
<1> DEFINE e == Enter(p, "successor", "await")
<1>3. /\ e \in Call /\ e.fiber = p /\ e.mode = "successor" /\ e.at = "await"
      /\ calls' = <<e>> \o <<>>
  BY <1>2 DEF Enter, Call
<1>4. /\ c \in Cmd /\ c \notin Fiber /\ Stacked(calls) \subseteq {c}
      /\ d # Null /\ d \in Cmd \cup {Null}
  BY <1>1, Commands, EmptyStack
<1>5. phase' = [x \in Cmd |-> IF x = d THEN "fresh"
                              ELSE IF x = c THEN "gone" ELSE phase[x]]
  BY <1>1, <1>4 DEF IInv, Types
<1>6. told' \in [Fiber -> Nat]
  BY <1>1 DEF IInv, Types
<1>7. /\ e.mode = (IF d = Null THEN "resume" ELSE "successor")
      /\ e.at = (IF d = Null THEN "body" ELSE "await")
      /\ cur' = (IF d = Null THEN p ELSE cur)
  BY <1>1, <1>3, <1>4
<1>8. /\ phase[c] = "pending" /\ (d # Null => phase[d] = "unborn")
      /\ (c \in Fiber => awaited[c] = Null /\ context' = StackFreed(c))
      /\ (c \in Leaf => UNCHANGED context) /\ UNCHANGED <<os, fault>>
      /\ awaited[p] = c /\ awaited' = [awaited EXCEPT ![p] = d]
  BY <1>1, <1>2, <1>4
<1> HIDE DEF e
<1> QED
  BY <1>3, <1>4, <1>5, <1>6, <1>7, <1>8, HearsPreserves

(* Every step preserves the invariant. *)
LEMMA StepPreserves ==
  IInv /\ [Next]_vars => IInv'
<1> SUFFICES ASSUME IInv, [Next]_vars PROVE IInv'
  OBVIOUS
<1>1. CASE OnTheStack
  BY <1>1, FunctionEndsPreserves, HandlerReturnsPreserves,
     HandlerCompletesPreserves, AwaitPreserves, AwaitedDismissedPreserves,
     LeafAnswersPreserves, LeafWaitsPreserves, LeafSucceededPreserves,
     StartPreserves, StartFailsPreserves, CancelPreserves DEF OnTheStack
<1>2. CASE LeafDone
  BY <1>2, LeafCompletesPreserves, LeafCompletesWithPreserves DEF LeafDone
<1>3. CASE Owner
  BY <1>3, MakePreserves, DismissPreserves, StartPreserves,
     StartFailsPreserves, CancelPreserves DEF Owner
<1>4. CASE Terminated \/ UNCHANGED vars
  <2>1. UNCHANGED vars
    BY <1>4 DEF Terminated
  <2> QED
    BY <2>1 DEF vars, IInv, Types, Suspended, Exclusive, LeavesAwaited, Contexts,
                CurrentData
<1> QED
  BY <1>1, <1>2, <1>3, <1>4 DEF Next

(* So it holds always. *)
LEMMA Invariance ==
  Spec => []IInv
BY InitEstablishes, StepPreserves, PTL DEF Spec

-----------------------------------------------------------------------------
(* The theorems.                                                           *)

(* The fibers of the handlers on the stack are those that InCall names. *)
LEMMA CallsAreStacked ==
  ASSUME IInv
  PROVE  /\ DOMAIN calls = 1..Len(calls)
         /\ \A f \in Fiber : InCall(f) <=> f \in Stacked(calls)
<1>1. DOMAIN calls = 1..Len(calls)
  BY Handlers, Elements
<1> QED
  BY <1>1 DEF InCall, Stacked

(* A fiber has a stack exactly while it is suspended or running, it is     *)
(* freed once it has ended, and no fiber is entered while another handler  *)
(* of it is running, however deep fibers await one another.                *)
THEOREM StacksFollow ==
  Spec => []StacksFollowFibers
<1>1. IInv => StacksFollowFibers
  <2> SUFFICES ASSUME IInv PROVE StacksFollowFibers
    OBVIOUS
  <2>1. \A f \in Fiber : context[f] = "live" <=> InCall(f) \/ phase[f] = "pending"
    BY CallsAreStacked DEF IInv, Contexts
  <2>2. \A i, j \in DOMAIN calls : calls[i].fiber = calls[j].fiber => i = j
    BY CallsAreStacked DEF IInv, Stack, Distinct
  <2> QED
    BY <2>1, <2>2 DEF StacksFollowFibers
<1> QED
  BY <1>1, Invariance, PTL

(* A suspended fiber awaits one command, which is pending and which no     *)
(* other fiber awaits; one that has ended, or that nobody has started,     *)
(* awaits nothing; and no leaf that was made for a fiber is left without   *)
(* one: whatever start, on_completion or cancel finds awaited, the         *)
(* function goes on only once that has been answered.                      *)
THEOREM NothingLeftBehind ==
  Spec => []NoAwaitedLeftBehind
<1>1. IInv => NoAwaitedLeftBehind
  <2> SUFFICES ASSUME IInv PROVE NoAwaitedLeftBehind
    OBVIOUS
  <2>1. TypeOK
    <3>1. \A i \in DOMAIN calls :
            awaited[calls[i].fiber] # Null <=> calls[i].at \in {"await", "cancel"}
      BY CallsAreStacked, Handlers DEF Fits
    <3> QED
      BY <3>1 DEF TypeOK, IInv, Types
  <2>2. \A f \in Fiber : ~InCall(f) =>
          IF phase[f] = "pending"
          THEN awaited[f] # Null /\ phase[awaited[f]] = "pending"
          ELSE awaited[f] = Null
    BY CallsAreStacked DEF IInv, Suspended
  <2>3. \A c \in Leaf : phase[c] \in {"fresh", "pending"} => ~Root(c)
    BY DEF IInv, LeavesAwaited, Root
  <2> QED
    BY <2>1, <2>2, <2>3 DEF NoAwaitedLeftBehind, IInv, Exclusive
<1> QED
  BY <1>1, Invariance, PTL

(* Whatever order fibers are started, resumed and cancelled in, a function *)
(* on Linux that awaits takes for its own the data of its fiber or of one  *)
(* that has ended, and never those of another live fiber.                  *)
THEOREM WrongFiberIsGone ==
  Spec => []WrongFiberHasEnded
<1>1. IInv => WrongFiberHasEnded
  BY Handlers DEF WrongFiberHasEnded, On, IInv, CurrentData
<1> QED
  BY <1>1, Invariance, PTL

(* Each fiber is a command, whether its owner or another fiber's awwait    *)
(* starts, cancels or dismisses it, and wherever its answer is given: from *)
(* start, from on_completion or, after cancel, to nobody.                  *)
THEOREM FibersRefine == Spec => FibersImplementCommand
<1>1. Init => \A f \in Fiber : FiberCommand(f)!Init
  BY Commands DEF Init, FiberCommand!Init
<1>2. ASSUME IInv, [Next]_vars
      PROVE  [\A f \in Fiber : FiberCommand(f)!Next
                               \/ UNCHANGED <<phase[f], told[f]>>]_<<phase, told>>
  <2> SUFFICES ASSUME NEW f \in Fiber
               PROVE  FiberCommand(f)!Next \/ UNCHANGED <<phase[f], told[f]>>
    OBVIOUS
  <2> USE DEF FiberCommand!Next, FiberCommand!Make, FiberCommand!StartAnswers,
              FiberCommand!StartWaits, FiberCommand!Notify,
              FiberCommand!Cancel, FiberCommand!Dismiss
  <2>1. /\ phase \in [Cmd -> {"unborn", "fresh", "pending", "gone"}]
        /\ told \in [Fiber -> Nat]
        /\ f \in Cmd /\ f \notin Leaf
    BY <1>2, Commands DEF IInv, Types
  <2>2. CASE HandlerReturns \/ HandlerCompletes
    <3>1. calls # <<>> /\ Top.mode \in {"start", "cancel", "resume"}
      BY <2>2 DEF HandlerReturns, HandlerCompletes, On
    <3>2. /\ Top.fiber \in Fiber /\ Top.fiber \in Cmd
          /\ phase[Top.fiber] = IF Top.mode = "start" THEN "fresh" ELSE "pending"
      BY <1>2, <3>1, Handlers, Commands DEF Fits
    <3>3. /\ phase' = [phase EXCEPT ![Top.fiber] = "gone"]
          /\ told' = Tells(Top.fiber, Top.mode)
      BY <2>2 DEF HandlerReturns, HandlerCompletes
    <3> DEFINE c == Top.fiber
               mode == Top.mode
    <3>4. /\ c \in Fiber /\ c \in Cmd
          /\ phase[c] = IF mode = "start" THEN "fresh" ELSE "pending"
          /\ phase' = [phase EXCEPT ![c] = "gone"]
          /\ told' = IF mode = "cancel" THEN told ELSE [told EXCEPT ![c] = @ + 1]
      BY <3>2, <3>3 DEF Tells
    <3> HIDE DEF c, mode
    <3>5. CASE f = c
      BY <2>1, <3>4, <3>5
    <3>6. CASE f # c
      BY <2>1, <3>4, <3>6
    <3> QED
      BY <3>5, <3>6
  <2>3. ASSUME NEW g \in Fiber, StartFails(g)
        PROVE  FiberCommand(f)!Next \/ UNCHANGED <<phase[f], told[f]>>
    BY <2>1, <2>3 DEF StartFails, StartCalled, Tells
  <2>4. ASSUME NEW g \in Fiber, Make(g) \/ Dismiss(g) \/ Start(g) \/ Cancel(g)
        PROVE  FiberCommand(f)!Next \/ UNCHANGED <<phase[f], told[f]>>
    BY <2>1, <2>4 DEF Make, Dismiss, Start, Cancel
  <2>5. ASSUME NEW c \in Cmd, Await(c)
        PROVE  FiberCommand(f)!Next \/ UNCHANGED <<phase[f], told[f]>>
    BY <2>1, <2>5 DEF Await
  <2>6. ASSUME NEW c \in Cmd, AwaitedDismissed(c)
        PROVE  FiberCommand(f)!Next \/ UNCHANGED <<phase[f], told[f]>>
    <3>1. /\ calls # <<>> /\ Top.at = "await" /\ awaited[Top.fiber] = c
          /\ phase' = [phase EXCEPT ![c] = "gone"] /\ UNCHANGED told
      BY <2>6 DEF AwaitedDismissed, Answered, On
    <3>2. phase[c] = "fresh"
      BY <1>2, <3>1, Handlers DEF Fits
    <3> QED
      BY <2>1, <3>1, <3>2
  <2>7. ASSUME NEW c \in Leaf,
               LeafAnswers(c) \/ LeafCancelled(c) \/ LeafCompletes(c)
        PROVE  FiberCommand(f)!Next \/ UNCHANGED <<phase[f], told[f]>>
    BY <2>1, <2>7 DEF LeafAnswers, LeafCancelled, LeafCompletes, Answered
  <2>8. ASSUME NEW c \in Leaf, NEW d \in Cmd,
               LeafSucceeded(c, d) \/ LeafCompletesWith(c, d)
        PROVE  FiberCommand(f)!Next \/ UNCHANGED <<phase[f], told[f]>>
    <3>1. /\ phase[d] = "unborn" /\ UNCHANGED told
          /\ phase' = [phase EXCEPT ![c] = "gone", ![d] = "fresh"]
      BY <2>8 DEF LeafSucceeded, LeafCompletesWith
    <3>2. CASE f = d
      BY <2>1, <3>1, <3>2
    <3>3. CASE f # d
      BY <2>1, <3>1, <3>3
    <3> QED
      BY <3>2, <3>3
  <2>9. ASSUME NEW c \in Leaf, LeafWaits(c)
        PROVE  FiberCommand(f)!Next \/ UNCHANGED <<phase[f], told[f]>>
    <3>1. /\ UNCHANGED told
          /\ phase'[f] = IF \E i \in DOMAIN calls : calls[i].fiber = f
                         THEN "pending" ELSE phase[f]
      BY <2>1, <2>9 DEF LeafWaits
    <3>2. ASSUME NEW i \in DOMAIN calls, calls[i].fiber = f
          PROVE  phase[f] \in {"fresh", "pending"}
      BY <1>2, <3>2, CallsAreStacked, Handlers DEF Fits
    <3> QED
      BY <3>1, <3>2
  <2>10. CASE FunctionEnds \/ Terminated \/ UNCHANGED vars
    BY <2>10 DEF FunctionEnds, Terminated, vars
  <2> QED
    BY <1>2, <2>2, <2>3, <2>4, <2>5, <2>6, <2>7, <2>8, <2>9, <2>10
       DEF Next, OnTheStack, LeafDone, Owner
<1> QED
  BY <1>1, <1>2, InitEstablishes, StepPreserves, PTL
     DEF Spec, FibersImplementCommand

(* A fiber answers once at most, from start or from on_completion, and     *)
(* only once its function has ended or could not be started.               *)
THEOREM AnswersOnce ==
  Spec => [](\A f \in Fiber : FiberCommand(f)!AtMostOneAnswer)
<1>1. (\A f \in Fiber : FiberCommand(f)!Init)
        => \A f \in Fiber : FiberCommand(f)!AtMostOneAnswer
  <2>1. \A f \in Fiber : told[f] = 0 => told[f] # 1 /\ told[f] \in {0, 1}
    OBVIOUS
  <2> QED
    BY <2>1 DEF FiberCommand!Init, FiberCommand!AtMostOneAnswer
<1>2. ASSUME \A f \in Fiber : FiberCommand(f)!AtMostOneAnswer,
             [\A f \in Fiber : FiberCommand(f)!Next
                \/ UNCHANGED <<phase[f], told[f]>>]_<<phase, told>>
      PROVE  (\A f \in Fiber : FiberCommand(f)!AtMostOneAnswer)'
  BY <1>2 DEF FiberCommand!AtMostOneAnswer, FiberCommand!Next, FiberCommand!Make,
              FiberCommand!StartAnswers, FiberCommand!StartWaits, FiberCommand!Notify,
              FiberCommand!Cancel, FiberCommand!Dismiss
<1> QED
  BY <1>1, <1>2, FibersRefine, PTL DEF FibersImplementCommand

(* What a fiber does to the command that its function awaits, whether that *)
(* is a leaf or another fiber: it starts and dismisses it only when nobody *)
(* has started it, and cancels it only while it waits.                     *)
OwnsInTurn ==
  calls # <<>> =>
    /\ Top.at = "await" => phase[awaited[Top.fiber]] = "fresh"
    /\ Top.at = "cancel" => phase[awaited[Top.fiber]] = "pending"

(* As an owner a fiber keeps the contract of module Command towards all    *)
(* that its function awaits, whatever order the fibers around it are       *)
(* started, resumed and cancelled in.                                      *)
THEOREM KeepsOwnersSide == Spec => []OwnsInTurn
<1>1. IInv => OwnsInTurn
  BY Handlers DEF OwnsInTurn, Fits
<1> QED
  BY <1>1, Invariance, PTL
=============================================================================
